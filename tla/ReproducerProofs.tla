--------------------------- MODULE ReproducerProofs ---------------------------
(***************************************************************************)
(* Theorems about Reproducer, for any number of threads, attempts and      *)
(* calls, and whether or not a docker kill may fail.                       *)
(***************************************************************************)
EXTENDS Reproducer, SequenceTheorems, TLAPS

(***************************************************************************)
(* The inductive invariant.  The handler sets the event, then the flag,    *)
(* and kills only after both.                                              *)
(***************************************************************************)
HandlerInv ==
  /\ handler # "idle" \/ requested => event
  /\ handler \in {"snapshot", "kill", "done"} => requested

\* A container that no docker kill failed on is one whose thread waits for it,
\* and main() ends with all of them idle.
DockerInv ==
  /\ \A c \in up : c \in lost \/ \E t \in Threads : pc[t] = "running" /\ c = Container(t)
  /\ exited => \A t \in Threads : pc[t] = "idle"

Attempting == {"check", "lock", "add", "launch", "running"}

\* The attempts at a commit are counted, the pre commit comes first.
Counted(t) ==
  /\ \A s \in Stages : Len(rcs[t][s]) <= Attempts
  /\ pc[t] \in Attempting => Len(rcs[t][stage[t]]) < Attempts
  /\ stage[t] = "pre" => rcs[t]["post"] = <<>>

\* A container that vanished under its thread was killed by the handler, so no
\* attempt follows one cut short: a post commit reached after it has no other.
CutShort(t) ==
  /\ pc[t] = "running" /\ Container(t) \notin up => requested
  /\ cut[t] => requested
  /\ cut[t] /\ pc[t] # "idle" =>
       /\ pc[t] \in {"check", "unlock", "discard", "next", "returned"}
       /\ pc[t] = "check" => rcs[t]["post"] = <<>>
       /\ rcs[t]["post"] # <<>> => ~rcs[t]["post"][Len(rcs[t]["post"])]

CallsInv == \A t \in Threads : Counted(t) /\ CutShort(t)

Inv == TypeOK /\ HandlerInv /\ DockerInv /\ CallsInv
-----------------------------------------------------------------------------
(* Lemmas about the sequences of attempts *)

LEMMA Appended ==
  ASSUME NEW q \in Seq(BOOLEAN), NEW b \in BOOLEAN
  PROVE  /\ Append(q, b) \in Seq(BOOLEAN) /\ Append(q, b) # <<>>
         /\ Len(Append(q, b)) = Len(q) + 1
         /\ Append(q, b)[Len(Append(q, b))] = b
  OBVIOUS

\* An attempt is recorded under the commit the thread is at, and nowhere else.
LEMMA Recorded ==
  ASSUME TypeOK, NEW t \in Threads, NEW pass \in BOOLEAN, Record(t, pass)
  PROVE  /\ rcs' \in [Threads -> [Stages -> Seq(BOOLEAN)]]
         /\ rcs'[t][stage[t]] = Append(rcs[t][stage[t]], pass)
         /\ \A s \in Stages \ {stage[t]} : rcs'[t][s] = rcs[t][s]
         /\ \A r \in Threads \ {t} : rcs'[r] = rcs[r]
<1>1. stage[t] \in Stages /\ rcs[t] \in [Stages -> Seq(BOOLEAN)] BY DEF TypeOK
<1>2. Append(rcs[t][stage[t]], pass) \in Seq(BOOLEAN) BY <1>1, Appended
<1>. DEFINE new == [rcs[t] EXCEPT ![stage[t]] = Append(@, pass)]
<1>3. rcs' = [rcs EXCEPT ![t] = new] BY DEF Record
<1>4. /\ new \in [Stages -> Seq(BOOLEAN)]
      /\ new[stage[t]] = Append(rcs[t][stage[t]], pass)
      /\ \A s \in Stages \ {stage[t]} : new[s] = rcs[t][s]
  BY <1>1, <1>2
<1>. HIDE DEF new
<1>. QED BY <1>3, <1>4 DEF TypeOK

\* Results differ only among two attempts or more.
LEMMA FlakyTwice ==
  ASSUME TypeOK, NEW t \in Threads, NEW s \in Stages, Flaky(t, s)
  PROVE  Len(rcs[t][s]) > 1
<1>1. rcs[t][s] \in Seq(BOOLEAN) BY DEF TypeOK
<1>2. PICK i \in DOMAIN rcs[t][s] : rcs[t][s][i] BY DEF Flaky, Passed, Passes
<1>3. PICK j \in DOMAIN rcs[t][s] : ~rcs[t][s][j] BY DEF Flaky, Passes
<1>4. i # j /\ i \in 1 .. Len(rcs[t][s]) /\ j \in 1 .. Len(rcs[t][s])
  BY <1>1, <1>2, <1>3
<1>5. Len(rcs[t][s]) \in Nat BY <1>1
<1>. QED BY <1>4, <1>5

-----------------------------------------------------------------------------
(* Types *)

LEMMA Moves ==
  ASSUME TypeOK, NEW t \in Threads, NEW p \in PCs, Goto(t, p)
  PROVE  /\ pc' \in [Threads -> PCs] /\ pc'[t] = p
         /\ \A r \in Threads \ {t} : pc'[r] = pc[r]
BY DEF TypeOK, Goto

LEMMA Names == ASSUME TypeOK, NEW t \in Threads PROVE Container(t) \in Threads \X Nat
BY DEF TypeOK, Container

LEMMA InitTyped == Init => TypeOK
<1>. SUFFICES ASSUME Init PROVE TypeOK OBVIOUS
<1>1. <<>> \in Seq(BOOLEAN) OBVIOUS
<1>2. rcs \in [Threads -> [Stages -> Seq(BOOLEAN)]] BY <1>1 DEF Init
<1>3. pc \in [Threads -> PCs] /\ stage \in [Threads -> Stages] BY DEF Init, PCs, Stages
<1>. QED BY <1>2, <1>3 DEF Init, TypeOK

LEMMA StepTyped == ASSUME TypeOK, NEW t \in Threads, ThreadStep(t) PROVE TypeOK'
<1>. USE DEF signal, work, docker
<1>0. {"idle", "check", "lock", "add", "launch", "running", "unlock", "discard",
       "next", "returned"} \subseteq PCs
  BY DEF PCs
<1>1. CASE Begin(t)
  <2>1. pc' \in [Threads -> PCs] BY <1>0, <1>1, Moves DEF Begin
  <2>2. stage' \in [Threads -> Stages] BY <1>1 DEF Begin, TypeOK, Stages
  <2>3. <<>> \in Seq(BOOLEAN) OBVIOUS
  <2>4. [s \in Stages |-> <<>>] \in [Stages -> Seq(BOOLEAN)] BY <2>3
  <2>5. rcs' \in [Threads -> [Stages -> Seq(BOOLEAN)]] BY <1>1, <2>4 DEF Begin, TypeOK
  <2>6. calls' \in [Threads -> Nat] /\ cut' \in [Threads -> BOOLEAN]
    BY <1>1 DEF Begin, TypeOK
  <2>. QED BY <1>1, <2>1, <2>2, <2>5, <2>6 DEF Begin, TypeOK
<1>2. CASE Preempted(t)
  <2>1. pc' \in [Threads -> PCs] BY <1>0, <1>2, Moves DEF Preempted
  <2>2. rcs' \in [Threads -> [Stages -> Seq(BOOLEAN)]] BY <1>2, Recorded DEF Preempted
  <2>. QED BY <1>2, <2>1, <2>2 DEF Preempted, TypeOK
<1>3. CASE Name(t)
  <2>1. pc' \in [Threads -> PCs] BY <1>0, <1>3, Moves DEF Name
  <2>2. started' \in [Threads -> Nat] BY <1>3 DEF Name, TypeOK
  <2>. QED BY <1>3, <2>1, <2>2 DEF Name, TypeOK
<1>4. CASE Acquire(t)
  <2>1. pc' \in [Threads -> PCs] BY <1>0, <1>4, Moves DEF Acquire
  <2>. QED BY <1>4, <2>1 DEF Acquire, TypeOK
<1>5. CASE Register(t) \/ Unregister(t)
  <2>1. pc' \in [Threads -> PCs] BY <1>0, <1>5, Moves DEF Register, Unregister
  <2>2. active' \subseteq Threads \X Nat
    BY <1>5, Names DEF Register, Unregister, TypeOK
  <2>. QED BY <1>5, <2>1, <2>2 DEF Register, Unregister, TypeOK
<1>6. CASE Launch(t)
  <2>1. pc' \in [Threads -> PCs] BY <1>0, <1>6, Moves DEF Launch
  <2>2. up' \subseteq Threads \X Nat BY <1>6, Names DEF Launch, TypeOK
  <2>. QED BY <1>6, <2>1, <2>2 DEF Launch, TypeOK
<1>7. CASE End(t)
  <2>1. pc' \in [Threads -> PCs] BY <1>0, <1>7, Moves DEF End
  <2>2. rcs' \in [Threads -> [Stages -> Seq(BOOLEAN)]] BY <1>7, Recorded DEF End
  <2>3. up' \subseteq Threads \X Nat /\ lost' \subseteq Threads \X Nat
    BY <1>7 DEF End, Gone, TypeOK
  <2>4. cut' \in [Threads -> BOOLEAN] BY <1>7 DEF End, TypeOK
  <2>. QED BY <1>7, <2>1, <2>2, <2>3, <2>4 DEF End, TypeOK
<1>8. CASE Timeout(t)
  <2>1. pc' \in [Threads -> PCs] BY <1>0, <1>8, Moves DEF Timeout
  <2>2. rcs' \in [Threads -> [Stages -> Seq(BOOLEAN)]] BY <1>8, Recorded DEF Timeout
  <2>3. up' \subseteq Threads \X Nat /\ lost' \subseteq Threads \X Nat
    BY <1>8, Names DEF Timeout, DockerKill, Gone, TypeOK
  <2>. QED BY <1>8, <2>1, <2>2, <2>3 DEF Timeout, TypeOK
<1>9. CASE Advance(t)
  <2>1. pc' \in [Threads -> PCs] BY <1>0, <1>9, Moves DEF Advance
  <2>2. stage' \in [Threads -> Stages] BY <1>9 DEF Advance, TypeOK, Stages
  <2>. QED BY <1>9, <2>1, <2>2 DEF Advance, TypeOK
<1>10. CASE Deliver(t)
  <2>1. pc' \in [Threads -> PCs] BY <1>0, <1>10, Moves DEF Deliver
  <2>. QED BY <1>10, <2>1 DEF Deliver, TypeOK
<1>. QED BY <1>1, <1>2, <1>3, <1>4, <1>5, <1>6, <1>7, <1>8, <1>9, <1>10 DEF ThreadStep

Driver == CatchSignal \/ HandlerStep \/ Exit

LEMMA DriverTyped == ASSUME TypeOK, Driver PROVE TypeOK'
<1>. USE DEF signal, work, docker
<1>1. CASE CatchSignal BY <1>1 DEF CatchSignal, TypeOK
<1>2. CASE Request BY <1>2 DEF Request, TypeOK
<1>3. CASE Snapshot BY <1>3 DEF Snapshot, TypeOK
<1>4. CASE Kill BY <1>4 DEF Kill, DockerKill, Gone, TypeOK
<1>5. CASE HandlerReturns BY <1>5 DEF HandlerReturns, TypeOK
<1>6. CASE Exit BY <1>6 DEF Exit, TypeOK
<1>. QED BY <1>1, <1>2, <1>3, <1>4, <1>5, <1>6 DEF Driver, HandlerStep

LEMMA NextTyped == TypeOK /\ [Next]_vars => TypeOK'
<1>1. ASSUME TypeOK, UNCHANGED vars PROVE TypeOK'
  BY <1>1 DEF TypeOK, vars, signal, work, docker
<1>. QED BY <1>1, StepTyped, DriverTyped DEF Next, Driver

\* The variables keep their types: attempts are results, never a third thing,
\* and a call is at the pre or the post commit.
THEOREM TypeCorrect == Spec => []TypeOK
BY InitTyped, NextTyped, PTL DEF Spec
-----------------------------------------------------------------------------
(* The invariant is kept: what a thread's step may do to the others *)

\* A thread other than t is where it was, with the attempts it had, and t takes
\* no container but its own from the daemon.
Apart(t) ==
  /\ \A r \in Threads \ {t} :
       /\ pc'[r] = pc[r] /\ stage'[r] = stage[r] /\ rcs'[r] = rcs[r]
       /\ cut'[r] = cut[r] /\ started'[r] = started[r]
  /\ \A c \in up : c # Container(t) => c \in up'
  /\ requested' = requested /\ exited' = exited /\ ~exited

LEMMA StepsApart == ASSUME Inv, NEW t \in Threads, ThreadStep(t) PROVE Apart(t)
<1>. USE DEF signal, work, docker
<1>1. TypeOK BY DEF Inv
<1>2. ~exited
  <2>1. ~exited \/ pc[t] # "idle" BY DEF ThreadStep, At, Begin, Preempted, Name, Acquire,
        Register, Launch, End, Timeout, Unregister, Advance, Deliver
  <2>. QED BY <2>1 DEF Inv, DockerInv
<1>3. requested' = requested /\ exited' = exited
  BY DEF ThreadStep, Begin, Preempted, Name, Acquire, Register, Launch, End, Timeout,
         Unregister, Advance, Deliver
<1>4. ASSUME NEW r \in Threads \ {t}
      PROVE  /\ pc'[r] = pc[r] /\ stage'[r] = stage[r] /\ rcs'[r] = rcs[r]
             /\ cut'[r] = cut[r] /\ started'[r] = started[r]
  <2>1. pc'[r] = pc[r]
    BY <1>1 DEF TypeOK, Goto, ThreadStep, Begin, Preempted, Name, Acquire, Register,
         Launch, End, Timeout, Unregister, Advance, Deliver
  <2>2. stage'[r] = stage[r] /\ cut'[r] = cut[r] /\ started'[r] = started[r]
    BY <1>1 DEF TypeOK, ThreadStep, Begin, Preempted, Name, Acquire, Register,
         Launch, End, Timeout, Unregister, Advance, Deliver
  <2>3. rcs'[r] = rcs[r]
    BY <1>1 DEF TypeOK, Record, ThreadStep, Begin, Preempted, Name, Acquire, Register,
         Launch, End, Timeout, Unregister, Advance, Deliver
  <2>. QED BY <2>1, <2>2, <2>3
<1>5. \A c \in up : c # Container(t) => c \in up'
  BY DEF ThreadStep, Begin, Preempted, Name, Acquire, Register, Launch, End, Timeout,
         Unregister, Advance, Deliver, Gone, DockerKill
<1>. QED BY <1>2, <1>3, <1>4, <1>5 DEF Apart

LEMMA OwnContainer ==
  ASSUME NEW r \in Threads, NEW t \in Threads, r # t
  PROVE  Container(r) # Container(t)
BY DEF Container

\* So the other calls stay counted, and no container vanishes under them.
LEMMA OthersKept ==
  ASSUME Inv, NEW t \in Threads, Apart(t), Counted(t)', CutShort(t)'
  PROVE  CallsInv'
<1>1. ASSUME NEW r \in Threads \ {t} PROVE Counted(r)' /\ CutShort(r)'
  <2>1. Counted(r) /\ CutShort(r) BY DEF Inv, CallsInv
  <2>2. Counted(r)' BY <2>1 DEF Apart, Counted
  <2>3. Container(r)' = Container(r) BY DEF Apart, Container
  <2>4. Container(r) \in up => Container(r) \in up' BY OwnContainer DEF Apart
  <2>5. CutShort(r)' BY <2>1, <2>3, <2>4 DEF Apart, CutShort
  <2>. QED BY <2>2, <2>5
<1>. QED BY <1>1 DEF CallsInv

\* The containers of the others are awaited as before; t's own is, or is lost.
LEMMA StillAwaited ==
  ASSUME Inv, NEW t \in Threads, Apart(t),
         \A c \in up' : c \in up \/ c = Container(t),
         \A c \in lost : c # Container(t) => c \in lost',
         Container(t) \in up' =>
           Container(t) \in lost' \/ (pc'[t] = "running" /\ Container(t)' = Container(t))
  PROVE  DockerInv'
<1>1. ASSUME NEW c \in up'
      PROVE  c \in lost' \/ \E r \in Threads : pc'[r] = "running" /\ c = Container(r)'
  <2>1. CASE c = Container(t) BY <2>1
  <2>2. CASE c # Container(t)
    <3>1. c \in lost \/ \E r \in Threads : pc[r] = "running" /\ c = Container(r)
      BY <2>2 DEF Inv, DockerInv
    <3>2. ASSUME NEW r \in Threads, pc[r] = "running", c = Container(r)
          PROVE  pc'[r] = "running" /\ c = Container(r)'
      BY <2>2, <3>2 DEF Apart, Container
    <3>. QED BY <2>2, <3>1, <3>2
  <2>. QED BY <2>1, <2>2
<1>. QED BY <1>1 DEF DockerInv, Apart

\* A thread that does not wait for its container has none, but for a lost one.
LEMMA NotAwaited ==
  ASSUME Inv, NEW t \in Threads, pc[t] # "running", Container(t) \in up
  PROVE  Container(t) \in lost
BY OwnContainer DEF Inv, DockerInv
-----------------------------------------------------------------------------
(* The invariant is kept: the thread's own call *)

\* A step to another place of the same attempt, in which nothing is counted.
LEMMA SameAttempt ==
  ASSUME Inv, NEW t \in Threads, NEW p \in PCs, pc[t] # "idle", Goto(t, p),
         UNCHANGED <<stage, rcs, cut, requested>>,
         p \in Attempting => pc[t] \in Attempting,
         p = "running" => Container(t) \in up' /\ UNCHANGED started,
         cut[t] => p \in {"idle", "unlock", "discard", "next", "returned"}
  PROVE  Counted(t)' /\ CutShort(t)'
<1>1. TypeOK /\ Counted(t) /\ CutShort(t) BY DEF Inv, CallsInv
<1>2. pc'[t] = p BY <1>1, Moves
<1>3. Counted(t)' BY <1>1, <1>2 DEF Counted
<1>4. Container(t)' = Container(t) \/ p # "running" BY DEF Container
<1>5. CutShort(t)' BY <1>1, <1>2, <1>4 DEF CutShort
<1>. QED BY <1>3, <1>5

LEMMA CutPlaces ==
  ASSUME Inv, NEW t \in Threads, cut[t], pc[t] # "idle"
  PROVE  requested /\ pc[t] \in {"check", "unlock", "discard", "next", "returned"}
BY DEF Inv, CallsInv, CutShort

LEMMA MovesOn ==
  ASSUME Inv, NEW t \in Threads,
         \/ Name(t) \/ Acquire(t) \/ Register(t) \/ Launch(t) \/ Unregister(t)
         \/ Deliver(t)
  PROVE  Counted(t)' /\ CutShort(t)'
<1>. USE DEF signal, work, docker, Attempting
<1>0. {"idle", "check", "lock", "add", "launch", "running", "unlock", "discard",
       "next", "returned"} \subseteq PCs
  BY DEF PCs
<1>1. CASE Name(t)
  <2>1. pc[t] = "check" /\ ~cut[t] /\ Goto(t, "lock")
    BY <1>1, CutPlaces DEF Name, At
  <2>. QED BY <1>0, <1>1, <2>1, SameAttempt DEF Name
<1>2. CASE Acquire(t)
  <2>1. CASE pc[t] = "lock" /\ Goto(t, "add")
    BY <1>0, <1>2, <2>1, CutPlaces, SameAttempt DEF Acquire
  <2>2. CASE pc[t] = "unlock" /\ Goto(t, "discard")
    BY <1>0, <1>2, <2>2, SameAttempt DEF Acquire
  <2>. QED BY <1>2, <2>1, <2>2 DEF Acquire, At
<1>3. CASE Register(t)
  <2>1. pc[t] = "add" BY <1>3 DEF Register, At
  <2>. QED BY <1>0, <1>3, <2>1, CutPlaces, SameAttempt DEF Register
<1>4. CASE Launch(t)
  <2>1. pc[t] = "launch" /\ Container(t) \in up' BY <1>4 DEF Launch, At
  <2>. QED BY <1>0, <1>4, <2>1, CutPlaces, SameAttempt DEF Launch
<1>5. CASE Unregister(t)
  <2>1. pc[t] = "discard" BY <1>5 DEF Unregister, At
  <2>. QED BY <1>0, <1>5, <2>1, SameAttempt DEF Unregister
<1>6. CASE Deliver(t)
  <2>1. pc[t] = "returned" BY <1>6 DEF Deliver, At
  <2>. QED BY <1>0, <1>6, <2>1, SameAttempt DEF Deliver
<1>. QED BY <1>1, <1>2, <1>3, <1>4, <1>5, <1>6

LEMMA BeginKeeps ==
  ASSUME Inv, NEW t \in Threads, Begin(t) PROVE Counted(t)' /\ CutShort(t)'
<1>1. /\ pc'[t] = "check" /\ stage'[t] = "pre" /\ ~cut'[t]
      /\ \A s \in Stages : rcs'[t][s] = <<>>
  BY DEF Begin, Goto, Inv, TypeOK
<1>2. Counted(t)' BY <1>1, ReproducerAssumption DEF Counted, Stages
<1>3. CutShort(t)' BY <1>1 DEF CutShort
<1>. QED BY <1>2, <1>3

\* An attempt ends: its result is counted, and it is a failure if it was cut
\* short.
LEMMA AttemptEnds ==
  ASSUME Inv, NEW t \in Threads, NEW pass \in BOOLEAN, NEW p \in {"next", "unlock"},
         pc[t] \in Attempting, Record(t, pass), Goto(t, p),
         UNCHANGED <<stage, requested>>,
         cut'[t] => requested /\ ~pass
  PROVE  Counted(t)' /\ CutShort(t)'
<1>1. TypeOK /\ Counted(t) BY DEF Inv, CallsInv
<1>2. pc'[t] = p BY <1>1, Moves DEF PCs
<1>3. /\ rcs'[t][stage[t]] = Append(rcs[t][stage[t]], pass)
      /\ \A s \in Stages \ {stage[t]} : rcs'[t][s] = rcs[t][s]
  BY <1>1, Recorded
<1>4. stage[t] \in Stages /\ \A s \in Stages : rcs[t][s] \in Seq(BOOLEAN)
  BY <1>1 DEF TypeOK
<1>5. Counted(t)'
  <2>1. \A s \in Stages : Len(rcs'[t][s]) <= Attempts
    <3>1. Len(rcs'[t][stage[t]]) = Len(rcs[t][stage[t]]) + 1 BY <1>3, <1>4, Appended
    <3>2. Len(rcs[t][stage[t]]) \in Nat /\ Len(rcs[t][stage[t]]) < Attempts
      BY <1>1, <1>4 DEF Counted
    <3>. QED BY <1>1, <1>3, <3>1, <3>2, ReproducerAssumption DEF Counted
  <2>2. stage'[t] = "pre" => rcs'[t]["post"] = <<>> BY <1>1, <1>3 DEF Counted, Stages
  <2>. QED BY <1>2, <2>1, <2>2 DEF Counted, Attempting
<1>6. ASSUME cut'[t], rcs'[t]["post"] # <<>>
      PROVE  ~rcs'[t]["post"][Len(rcs'[t]["post"])]
  <2>1. stage[t] = "post" BY <1>1, <1>3, <1>4, <1>6 DEF Counted, Stages
  <2>2. rcs'[t]["post"] = Append(rcs[t]["post"], pass) /\ rcs[t]["post"] \in Seq(BOOLEAN)
    BY <1>3, <1>4, <2>1
  <2>. QED BY <1>6, <2>2, Appended
<1>7. CutShort(t)' BY <1>2, <1>6 DEF CutShort
<1>. QED BY <1>5, <1>7

LEMMA EndsKeep ==
  ASSUME Inv, NEW t \in Threads, Preempted(t) \/ End(t) \/ Timeout(t)
  PROVE  Counted(t)' /\ CutShort(t)'
<1>. USE DEF signal, work, docker, Attempting
<1>1. CASE Preempted(t)
  <2>1. pc[t] = "check" /\ requested BY <1>1 DEF Preempted, At
  <2>. QED BY <1>1, <2>1, AttemptEnds DEF Preempted
<1>2. CASE End(t)
  <2>1. pc[t] = "running" /\ ~cut[t] BY <1>2, CutPlaces DEF End, At
  <2>2. Container(t) \notin up => requested
    BY <2>1 DEF Inv, CallsInv, CutShort
  <2>3. PICK pass \in BOOLEAN :
          /\ Record(t, pass)
          /\ (cut' = cut) \/ (Container(t) \notin up /\ ~pass)
    BY <1>2 DEF End
  <2>. QED BY <1>2, <2>1, <2>2, <2>3, AttemptEnds DEF End
<1>3. CASE Timeout(t)
  <2>1. pc[t] = "running" /\ ~cut[t] BY <1>3, CutPlaces DEF Timeout, At
  <2>. QED BY <1>3, <2>1, AttemptEnds DEF Timeout
<1>. QED BY <1>1, <1>2, <1>3

LEMMA AdvanceKeeps ==
  ASSUME Inv, NEW t \in Threads, Advance(t) PROVE Counted(t)' /\ CutShort(t)'
<1>. USE DEF signal, work, docker
<1>1. /\ TypeOK /\ Counted(t) /\ CutShort(t) /\ pc[t] = "next"
      /\ UNCHANGED <<rcs, cut, requested, started, up>>
  BY DEF Advance, At, Inv, CallsInv
<1>2. cut[t] => requested BY <1>1 DEF CutShort
<1>3. CASE Goto(t, "check") /\ UNCHANGED stage /\ ~requested
           /\ Len(rcs[t][stage[t]]) < Attempts
  <2>1. pc'[t] = "check" BY <1>1, <1>3, Moves DEF PCs
  <2>2. Counted(t)' BY <1>1, <1>3, <2>1 DEF Counted
  <2>3. CutShort(t)' BY <1>1, <1>2, <1>3, <2>1 DEF CutShort
  <2>. QED BY <2>2, <2>3
<1>4. CASE /\ stage[t] = "pre" /\ Goto(t, "check")
           /\ stage' = [stage EXCEPT ![t] = "post"]
  <2>1. pc'[t] = "check" /\ stage'[t] = "post" BY <1>1, <1>4, Moves DEF PCs, TypeOK
  <2>2. rcs'[t]["post"] = <<>> BY <1>1, <1>4 DEF Counted
  <2>3. Counted(t)' BY <1>1, <2>1, <2>2, ReproducerAssumption DEF Counted
  <2>4. CutShort(t)' BY <1>1, <2>1, <2>2 DEF CutShort
  <2>. QED BY <2>3, <2>4
<1>5. CASE Goto(t, "returned") /\ UNCHANGED stage
  <2>1. pc'[t] = "returned" BY <1>1, <1>5, Moves DEF PCs
  <2>2. Counted(t)' BY <1>1, <1>5, <2>1 DEF Counted, Attempting
  <2>3. CutShort(t)' BY <1>1, <1>5, <2>1 DEF CutShort
  <2>. QED BY <2>2, <2>3
<1>. QED BY <1>3, <1>4, <1>5 DEF Advance

LEMMA CallsKept == ASSUME Inv, NEW t \in Threads, ThreadStep(t) PROVE CallsInv'
BY StepsApart, OthersKept, MovesOn, BeginKeeps, EndsKeep, AdvanceKeeps DEF ThreadStep

LEMMA DockerKept == ASSUME Inv, NEW t \in Threads, ThreadStep(t) PROVE DockerInv'
<1>. USE DEF signal, work, docker
<1>1. Apart(t) BY StepsApart
<1>2. CASE Launch(t)
  <2>1. pc'[t] = "running" BY <1>2, Moves DEF Launch, Inv, PCs
  <2>2. Container(t)' = Container(t) BY <1>2 DEF Launch, Container
  <2>. QED BY <1>1, <1>2, <2>1, <2>2, StillAwaited DEF Launch
<1>3. CASE End(t) BY <1>1, <1>3, StillAwaited DEF End, Gone
<1>4. CASE Timeout(t) BY <1>1, <1>4, StillAwaited DEF Timeout, DockerKill, Gone
<1>5. CASE ~(Launch(t) \/ End(t) \/ Timeout(t))
  <2>1. /\ \/ Begin(t) \/ Preempted(t) \/ Name(t) \/ Acquire(t) \/ Register(t)
           \/ Unregister(t) \/ Advance(t) \/ Deliver(t)
    BY <1>5 DEF ThreadStep
  <2>2. UNCHANGED <<up, lost>> /\ pc[t] # "running"
    BY <2>1 DEF Begin, Preempted, Name, Acquire, Register, Unregister, Advance, Deliver, At
  <2>. QED BY <1>1, <2>2, StillAwaited, NotAwaited
<1>. QED BY <1>2, <1>3, <1>4, <1>5
-----------------------------------------------------------------------------
(* The signal handler, the end of main(), and the theorems *)

LEMMA DriverKeeps == ASSUME Inv, Driver PROVE DockerInv' /\ CallsInv'
<1>. USE DEF signal, work, docker
<1>1. /\ UNCHANGED <<pc, stage, rcs, cut, started>>
      /\ requested => requested'
      /\ \/ UNCHANGED <<up, lost>>
         \/ requested /\ \E c \in targets : DockerKill(c)
      /\ exited' = exited \/ \A t \in Threads : pc[t] = "idle"
  BY DEF Driver, HandlerStep, CatchSignal, Request, Snapshot, Kill, HandlerReturns, Exit,
         Inv, HandlerInv
<1>2. \A t \in Threads : Container(t)' = Container(t) BY <1>1 DEF Container
<1>3. \A c \in up' : c \in up /\ (c \in lost => c \in lost')
  BY <1>1 DEF DockerKill, Gone
<1>4. DockerInv'
  <2>1. \A c \in up' : c \in lost' \/ \E t \in Threads : pc'[t] = "running" /\ c = Container(t)'
    BY <1>1, <1>2, <1>3 DEF Inv, DockerInv
  <2>2. exited' => \A t \in Threads : pc'[t] = "idle" BY <1>1 DEF Inv, DockerInv
  <2>. QED BY <2>1, <2>2 DEF DockerInv
<1>5. ASSUME NEW t \in Threads PROVE Counted(t)' /\ CutShort(t)'
  <2>1. Counted(t) /\ CutShort(t) BY DEF Inv, CallsInv
  <2>2. Counted(t)' BY <1>1, <2>1 DEF Counted
  <2>3. pc[t] = "running" /\ Container(t) \notin up' => requested'
    BY <1>1, <2>1 DEF CutShort
  <2>4. CutShort(t)' BY <1>1, <1>2, <2>1, <2>3 DEF CutShort
  <2>. QED BY <2>2, <2>4
<1>. QED BY <1>4, <1>5 DEF CallsInv

LEMMA HandlerKept == Inv /\ [Next]_vars => HandlerInv'
<1>. USE DEF signal, work, docker
<1>. SUFFICES ASSUME Inv, [Next]_vars PROVE HandlerInv' OBVIOUS
<1>1. CASE CatchSignal BY <1>1 DEF CatchSignal, Inv, HandlerInv
<1>2. CASE HandlerStep
  BY <1>2 DEF HandlerStep, Request, Snapshot, Kill, HandlerReturns, Inv, HandlerInv
<1>3. CASE UNCHANGED <<event, requested, handler>> BY <1>3 DEF Inv, HandlerInv
<1>4. ASSUME NEW t \in Threads, ThreadStep(t) PROVE UNCHANGED <<event, requested, handler>>
  BY <1>4 DEF ThreadStep, Begin, Preempted, Name, Acquire, Register, Launch, End, Timeout,
              Unregister, Advance, Deliver
<1>5. Exit \/ UNCHANGED vars => UNCHANGED <<event, requested, handler>> BY DEF Exit, vars
<1>. QED BY <1>1, <1>2, <1>3, <1>4, <1>5 DEF Next

LEMMA InitInv == Init => Inv
<1>. SUFFICES ASSUME Init PROVE Inv OBVIOUS
<1>1. HandlerInv /\ DockerInv BY DEF Init, HandlerInv, DockerInv
<1>2. ASSUME NEW t \in Threads PROVE Counted(t) /\ CutShort(t)
  <2>1. pc[t] = "idle" /\ ~cut[t] /\ \A s \in Stages : rcs[t][s] = <<>> BY DEF Init
  <2>2. Counted(t) BY <2>1, ReproducerAssumption DEF Counted, Attempting, Stages
  <2>. QED BY <2>1, <2>2 DEF CutShort
<1>. QED BY <1>1, <1>2, InitTyped DEF Inv, CallsInv

LEMMA NextInv == Inv /\ [Next]_vars => Inv'
<1>. SUFFICES ASSUME Inv, [Next]_vars PROVE DockerInv' /\ CallsInv'
  BY NextTyped, HandlerKept DEF Inv
<1>1. CASE Driver BY <1>1, DriverKeeps
<1>2. CASE \E t \in Threads : ThreadStep(t) BY <1>2, DockerKept, CallsKept
<1>3. CASE UNCHANGED vars
  <2>. USE <1>3 DEF vars, signal, work, docker
  <2>1. \A t \in Threads : Container(t)' = Container(t) BY DEF Container
  <2>2. DockerInv' BY <2>1 DEF Inv, DockerInv
  <2>3. CallsInv' BY <2>1 DEF Inv, CallsInv, Counted, CutShort
  <2>. QED BY <2>2, <2>3
<1>. QED BY <1>1, <1>2, <1>3 DEF Next, Driver

LEMMA AnswersInContract == Inv => KeepsContract
<1>. SUFFICES ASSUME Inv, NEW t \in Threads, pc[t] = "returned"
              PROVE  Result(t) \in Returns(Attempts, event /\ requested)
  BY DEF KeepsContract
<1>1. TypeOK /\ Counted(t) /\ CutShort(t) BY DEF Inv, CallsInv
<1>2. cut[t] => event /\ requested BY <1>1 DEF CutShort, Inv, HandlerInv
<1>3. Flaky(t, "pre") \/ Flaky(t, "post") => Attempts > 1
  <2>1. ASSUME NEW s \in Stages, Flaky(t, s) PROVE Attempts > 1
    <3>1. rcs[t][s] \in Seq(BOOLEAN) BY <1>1 DEF TypeOK
    <3>2. Len(rcs[t][s]) \in Nat BY <3>1
    <3>3. Len(rcs[t][s]) > 1 BY <1>1, <2>1, FlakyTwice
    <3>4. Len(rcs[t][s]) <= Attempts BY <1>1 DEF Counted
    <3>. QED BY <3>2, <3>3, <3>4, ReproducerAssumption
  <2>. QED BY <2>1 DEF Stages
<1>4. cut[t] /\ Passed(t, "post") => Flaky(t, "post")
  <2>. SUFFICES ASSUME cut[t], Passed(t, "post") PROVE Flaky(t, "post") OBVIOUS
  <2>1. rcs[t]["post"] \in Seq(BOOLEAN) BY <1>1 DEF TypeOK, Stages
  <2>2. rcs[t]["post"] # <<>> BY <2>1 DEF Passed, Passes
  <2>3. Len(rcs[t]["post"]) \in DOMAIN rcs[t]["post"] BY <2>1, <2>2
  <2>4. ~rcs[t]["post"][Len(rcs[t]["post"])] BY <1>1, <2>2 DEF CutShort
  <2>. QED BY <2>3, <2>4 DEF Flaky, Passes
<1>5. Result(t) \in Outcome
  <2>1. cut[t] \in BOOLEAN BY <1>1 DEF TypeOK
  <2>. QED BY <2>1 DEF Result, Outcome, Passed, Flaky
<1>6. /\ Result(t).killed = cut[t] /\ Result(t).post = Passed(t, "post")
      /\ Result(t).flaky = (Flaky(t, "pre") \/ Flaky(t, "post"))
  BY DEF Result
<1>. QED BY <1>2, <1>3, <1>4, <1>5, <1>6 DEF Returns

\* Whatever the threads, the attempts and the moment of the signal, reproduce()
\* answers only what module Drive takes it to answer: a call is cut short only
\* once the handler has set both the event and the flag, and no attempt that
\* follows such a cut can pass, so that a killed candidate never looks like one
\* whose fix works unless its attempts disagree.
THEOREM ContractKept == Spec => []KeepsContract
BY InitInv, NextInv, AnswersInContract, PTL DEF Spec

\* The driver ends only after its threads have waited for their containers, so
\* it leaves none running but those a docker kill failed on; the registry and
\* the handler's snapshot are not needed for that, only for ending soon.
THEOREM NoneOrphaned == Spec => []NoOrphans
<1>1. Inv => NoOrphans BY DEF Inv, DockerInv, NoOrphans
<1>. QED BY <1>1, InitInv, NextInv, PTL DEF Spec
=============================================================================
