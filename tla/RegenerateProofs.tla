-------------------------- MODULE RegenerateProofs --------------------------
(***************************************************************************)
(* Theorems about Regenerate, for any number of calls and hosts, whatever  *)
(* environments builds have and whatever goes wrong: its types, and every  *)
(* property the runs check.  Four inductive invariants, one per view: the  *)
(* records and the fingerprints next to them, the file while calls do not  *)
(* overlap, the environments tests ran in, and who owes which thin image.  *)
(***************************************************************************)
EXTENDS Regenerate, SequenceTheorems, TLAPS

(***************************************************************************)
(* Types.                                                                  *)
(***************************************************************************)
LEMMA EndedIsJob ==
  ASSUME NEW n \in 0..MaxCalls, NEW x \in Exits
  PROVE  Ended(n, x) \in Job /\ Ended(n, x).call = n
<1>1. Unread \in Entry BY RegenerateAssumption DEF Unread, Entry, Categories
<1>2. NoFlags \in AnyFlags BY DEF NoFlags, AnyFlags
<1>3. Untested \in [Kinds -> Results] BY DEF Untested, Results
<1>4. <<>> \in Seq(Kinds) OBVIOUS
<1>. QED BY <1>1, <1>2, <1>3, <1>4 DEF Ended, Job, Outcomes

\* A call moves: what is left to show is about its new place and variables.
LEMMA Moves ==
  ASSUME CallsOK, \A d \in Calls : Fits(pc[d], job[d]),
         NEW c \in Calls, NEW p \in PCs, NEW j \in Job, Fits(p, j),
         pc' = [pc EXCEPT ![c] = p], job' = [job EXCEPT ![c] = j]
  PROVE  CallsOK' /\ \A d \in Calls : Fits(pc'[d], job'[d])
<1>1. CallsOK' BY DEF CallsOK
<1>2. ASSUME NEW d \in Calls PROVE Fits(pc'[d], job'[d])
  <2>1. CASE d = c BY <2>1 DEF CallsOK
  <2>2. CASE d # c
    <3>1. pc'[d] = pc[d] /\ job'[d] = job[d] BY <2>2 DEF CallsOK
    <3>. QED BY <3>1
  <2>. QED BY <2>1, <2>2
<1>. QED BY <1>1, <1>2

LEMMA GoesTo ==
  ASSUME CallsOK, \A d \in Calls : Fits(pc[d], job[d]),
         NEW c \in Calls, NEW p \in PCs, Fits(p, job[c]), Goto(c, p), UNCHANGED job
  PROVE  CallsOK' /\ \A d \in Calls : Fits(pc'[d], job'[d])
<1>1. job[c] \in Job /\ job' = [job EXCEPT ![c] = job[c]] BY DEF CallsOK
<1>. QED BY <1>1, Moves DEF Goto

LEMMA Returns ==
  ASSUME CallsOK, \A d \in Calls : Fits(pc[d], job[d]),
         NEW c \in Calls, NEW x \in Exits, Return(c, x)
  PROVE  CallsOK' /\ \A d \in Calls : Fits(pc'[d], job'[d])
<1>1. job[c].call \in 0..MaxCalls BY DEF CallsOK, Job
<1>2. Ended(job[c].call, x) \in Job BY <1>1, EndedIsJob
<1>3. Fits("idle", Ended(job[c].call, x)) BY DEF Fits
<1>4. "idle" \in PCs BY DEF PCs
<1>5. pc' = [pc EXCEPT ![c] = "idle"] /\ job' = [job EXCEPT ![c] = Ended(job[c].call, x)]
  BY DEF Return, Goto
<1>. QED BY <1>2, <1>3, <1>4, <1>5, Moves

LEMMA KindsOfType ==
  ASSUME NEW e \in Entry
  PROVE  KindsOf(e) \in Seq(Kinds) /\ KindsOf(e) # <<>>
<1>1. <<"pre", "post">> \in Seq(Kinds) /\ Len(<<"pre", "post">>) = 2 BY DEF Kinds
<1>2. /\ <<"pre", "post", "fix">> \in Seq(Kinds)
      /\ Len(<<"pre", "post", "fix">>) = 3
  BY DEF Kinds
<1>3. Len(<<>>) = 0 OBVIOUS
<1>. QED BY <1>1, <1>2, <1>3 DEF KindsOf

LEMMA TailType ==
  ASSUME NEW s \in Seq(Kinds), s # <<>>
  PROVE  /\ Head(s) \in Kinds /\ Tail(s) \in Seq(Kinds)
         /\ Len(s) > 1 => Tail(s) # <<>>
<1>1. Head(s) \in Kinds /\ Tail(s) \in Seq(Kinds) /\ Len(Tail(s)) = Len(s) - 1
  BY HeadTailProperties
<1>2. Len(s) \in Nat BY LenProperties
<1>. DEFINE t == Tail(s)
<1>3. t \in Seq(Kinds) /\ Len(t) = Len(s) - 1 BY <1>1
<1>. HIDE DEF t
<1>4. t = <<>> => Len(t) = 0 BY EmptySeq
<1>5. Len(s) > 1 => t # <<>> BY <1>2, <1>3, <1>4
<1>. QED BY <1>1, <1>5 DEF t

LEMMA IntoFinally ==
  ASSUME CallsOK, \A d \in Calls : Fits(pc[d], job[d]),
         NEW c \in Calls, NEW x \in Exits, pc[c] \in {"thin", "test"}, Finally(c, x)
  PROVE  CallsOK' /\ \A d \in Calls : Fits(pc'[d], job'[d])
<1>. DEFINE j == [job[c] EXCEPT !.exit = x, !.todo = KindsOf(job[c].doc)]
<1>1. job[c] \in Job /\ job[c].doc \in Entry BY DEF CallsOK, Job
<1>2. j \in Job /\ j.todo # <<>> BY <1>1, KindsOfType DEF Job
<1>3. j.call = job[c].call /\ j.digest = job[c].digest BY <1>1 DEF Job
<1>4. Fits("clean", j) BY <1>2, <1>3 DEF Fits
<1>5. "clean" \in PCs BY DEF PCs
<1>6. pc' = [pc EXCEPT ![c] = "clean"] /\ job' = [job EXCEPT ![c] = j]
  BY DEF Finally, Goto
<1>. QED BY <1>2, <1>4, <1>5, <1>6, Moves

\* A call goes on with another list of kinds to go through.
LEMMA Loops ==
  ASSUME CallsOK, \A d \in Calls : Fits(pc[d], job[d]),
         NEW c \in Calls, NEW p \in PCs, NEW t \in Seq(Kinds),
         pc[c] \in {"thin", "test", "clean"},
         p \in {"thin", "test", "clean"} => t # <<>>,
         Goto(c, p), job' = [job EXCEPT ![c].todo = t]
  PROVE  CallsOK' /\ \A d \in Calls : Fits(pc'[d], job'[d])
<1>. DEFINE j == [job[c] EXCEPT !.todo = t]
<1>1. job[c] \in Job /\ Fits(pc[c], job[c]) BY DEF CallsOK
<1>2. j \in Job /\ j.todo = t /\ j.call = job[c].call /\ j.digest = job[c].digest
  BY <1>1 DEF Job
<1>3. pc' = [pc EXCEPT ![c] = p] /\ job' = [job EXCEPT ![c] = j] BY DEF Goto
<1>. HIDE DEF j
<1>4. Fits(p, j) BY <1>1, <1>2 DEF Fits
<1>. QED BY <1>2, <1>3, <1>4, Moves

LEMMA GoesRound ==
  ASSUME CallsOK, \A d \in Calls : Fits(pc[d], job[d]),
         NEW c \in Calls, pc[c] \in {"thin", "test", "clean"},
         Len(job[c].todo) > 1, job' = [job EXCEPT ![c].todo = Tail(@)], UNCHANGED pc
  PROVE  CallsOK' /\ \A d \in Calls : Fits(pc'[d], job'[d])
<1>1. job[c].todo \in Seq(Kinds) /\ job[c].todo # <<>> BY DEF CallsOK, Job, Fits
<1>2. Tail(job[c].todo) \in Seq(Kinds) /\ Tail(job[c].todo) # <<>> BY <1>1, TailType
<1>3. Goto(c, pc[c]) BY DEF Goto, CallsOK
<1>4. job' = [job EXCEPT ![c].todo = Tail(job[c].todo)] OBVIOUS
<1>5. pc[c] \in PCs BY DEF PCs
<1>. QED BY <1>2, <1>3, <1>4, <1>5, Loops

LEMMA TestMoves ==
  ASSUME CallsOK, \A d \in Calls : Fits(pc[d], job[d]),
         NEW c \in Calls, pc[c] = "test", NEW r \in Results, NEW b \in SUBSET Digests,
         Tested(c, r, b)
  PROVE  CallsOK' /\ \A d \in Calls : Fits(pc'[d], job'[d])
<1>. DEFINE seen == [job[c].seen EXCEPT ![Current(c)] = r]
            next == [job[c] EXCEPT !.bases = @ \cup b]
            round == [next EXCEPT !.seen = seen, !.todo = Tail(@)]
            last == [next EXCEPT !.seen = Untested, !.todo = KindsOf(next.doc),
                                 !.outcome = OutcomeOf(next.doc.category, seen)]
<1>1. job[c] \in Job /\ Fits("test", job[c]) BY DEF CallsOK
<1>2. job[c].todo \in Seq(Kinds) /\ job[c].todo # <<>> /\ job[c].seen \in [Kinds -> Results]
  BY <1>1 DEF Job, Fits
<1>3. seen \in [Kinds -> Results] BY <1>2
<1>4. /\ next \in Job /\ next.todo = job[c].todo /\ next.call = job[c].call
      /\ next.digest = job[c].digest /\ next.doc \in Entry
  BY <1>1 DEF Job
<1>. HIDE DEF next, seen
<1>5. CASE Len(job[c].todo) > 1
  <2>1. Tail(next.todo) \in Seq(Kinds) /\ Tail(next.todo) # <<>>
    BY <1>2, <1>4, <1>5, TailType
  <2>2. /\ round \in Job /\ round.todo = Tail(next.todo) /\ round.call = next.call
        /\ round.digest = next.digest
    BY <1>3, <1>4, <2>1 DEF Job
  <2>3. job' = [job EXCEPT ![c] = round] /\ pc' = [pc EXCEPT ![c] = "test"]
    BY <1>5 DEF Tested, CallsOK, seen, next
  <2>. HIDE DEF round
  <2>4. Fits("test", round) BY <1>1, <1>4, <2>1, <2>2 DEF Fits
  <2>. QED BY <2>2, <2>3, <2>4, Moves DEF PCs
<1>6. CASE ~(Len(job[c].todo) > 1)
  <2>1. KindsOf(next.doc) \in Seq(Kinds) /\ KindsOf(next.doc) # <<>> BY <1>4, KindsOfType
  <2>2. OutcomeOf(next.doc.category, seen) \in Outcomes BY DEF OutcomeOf, Outcomes
  <2>3. Untested \in [Kinds -> Results] BY DEF Untested, Results
  <2>4. /\ last \in Job /\ last.todo = KindsOf(next.doc) /\ last.call = next.call
        /\ last.digest = next.digest
    BY <1>4, <2>1, <2>2, <2>3 DEF Job
  <2>5. job' = [job EXCEPT ![c] = last] /\ pc' = [pc EXCEPT ![c] = "clean"]
    BY <1>6 DEF Tested, Goto, seen, next
  <2>. HIDE DEF last
  <2>6. Fits("clean", last) BY <1>1, <1>4, <2>1, <2>4 DEF Fits
  <2>. QED BY <2>4, <2>5, <2>6, Moves DEF PCs
<1>. QED BY <1>5, <1>6

THEOREM InitTypes == Init => TypeOK
<1>. SUFFICES ASSUME Init PROVE TypeOK OBVIOUS
<1>1. FileOK
  <2>1. PICK s \in Shapes :
          entry = [category |-> s.category, fix |-> s.fix, prints |-> Assembled,
                   verified |-> <<>>]
    BY DEF Init
  <2>2. s.category \in Categories /\ s.fix \in BOOLEAN BY RegenerateAssumption DEF AnyShape
  <2>3. <<>> \in Seq(Record) OBVIOUS
  <2>. QED BY <2>1, <2>2, <2>3, RegenerateAssumption DEF FileOK, Entry, Init
<1>2. ImagesOK BY DEF Init, ImagesOK
<1>3. CallsOK /\ \A c \in Calls : Fits(pc[c], job[c])
  <2>1. Ended(0, "go") \in Job BY EndedIsJob, RegenerateAssumption DEF Exits
  <2>. QED BY <2>1 DEF Init, CallsOK, PCs, Fits
<1>4. BoundsOK BY RegenerateAssumption DEF Init, BoundsOK
<1>5. HistoryOK BY DEF Init, HistoryOK
<1>. QED BY <1>1, <1>2, <1>3, <1>4, <1>5 DEF TypeOK

LEMMA Frames ==
  /\ FileOK /\ UNCHANGED file => FileOK'
  /\ ImagesOK /\ UNCHANGED <<images, host>> => ImagesOK'
  /\ BoundsOK /\ UNCHANGED bounds => BoundsOK'
  /\ HistoryOK /\ UNCHANGED <<overlaps, leaky, logged>> => HistoryOK'
BY DEF FileOK, file, ImagesOK, images, BoundsOK, bounds, HistoryOK

LEMMA FaultsCounted ==
  ASSUME BoundsOK, NEW kind, Fault(kind) PROVE faults' \in 0..MaxFaults
BY RegenerateAssumption DEF BoundsOK, Fault

\* Nobody's variables change but for the history of being alone.
LEMMA RebuildFields ==
  ASSUME TypeOK, RebuildFat, NEW c \in Calls
  PROVE  /\ pc'[c] = pc[c] /\ job'[c] \in Job
         /\ job'[c].doc = job[c].doc /\ job'[c].call = job[c].call
         /\ job'[c].exit = job[c].exit /\ job'[c].todo = job[c].todo
         /\ job'[c].bases = job[c].bases /\ job'[c].digest = job[c].digest
         /\ job'[c].outcome = job[c].outcome
         /\ job'[c].alone => job[c].alone /\ pc[c] # "thin"
<1>1. job[c] \in Job BY DEF TypeOK, CallsOK
<1>2. job'[c] = [job[c] EXCEPT !.alone = @ /\ pc[c] # "thin"] BY DEF RebuildFat
<1>. QED BY <1>1, <1>2 DEF RebuildFat, Job

THEOREM StepTypes == TypeOK /\ [Next]_vars => TypeOK'
<1>. SUFFICES ASSUME TypeOK, [Next]_vars PROVE TypeOK' OBVIOUS
<1>. DEFINE Calm == CallsOK /\ \A d \in Calls : Fits(pc[d], job[d])
<1>0. FileOK /\ ImagesOK /\ CallsOK /\ BoundsOK /\ HistoryOK /\ Calm BY DEF TypeOK
<1>. SUFFICES FileOK' /\ ImagesOK' /\ Calm' /\ BoundsOK' /\ HistoryOK' BY DEF TypeOK
<1>1. CASE UNCHANGED vars
  BY <1>1, <1>0, Frames DEF vars, file, images, bounds, CallsOK
<1>2. CASE PruneFat
  <2>1. Calm' BY <1>0, <1>2 DEF PruneFat, CallsOK
  <2>2. ImagesOK' BY <1>0, <1>2 DEF PruneFat, ImagesOK
  <2>3. BoundsOK' BY <1>0, <1>2, FaultsCounted DEF PruneFat, BoundsOK
  <2>. QED BY <1>0, <1>2, <2>1, <2>2, <2>3, Frames DEF PruneFat
<1>5. CASE RebuildFat
  <2>1. Calm'
    <3>1. \A d \in Calls : job'[d] \in Job /\ Fits(pc'[d], job'[d])
      BY <1>0, <1>5, RebuildFields DEF Fits
    <3>2. job' = [d \in Calls |-> job'[d]] /\ pc' = pc BY <1>5 DEF RebuildFat
    <3>. QED BY <1>0, <3>1, <3>2 DEF CallsOK
  <2>2. ImagesOK' BY <1>0, <1>5 DEF RebuildFat, ImagesOK
  <2>3. BoundsOK' BY <1>0, <1>5, FaultsCounted DEF RebuildFat, BoundsOK
  <2>. QED BY <1>0, <1>5, <2>1, <2>2, <2>3, Frames DEF RebuildFat
<1>3. CASE Carry
  <2>1. Calm' BY <1>0, <1>3 DEF Carry, CallsOK
  <2>2. ImagesOK' BY <1>0, <1>3 DEF Carry, ImagesOK, images
  <2>. QED BY <1>0, <1>3, <2>1, <2>2, Frames DEF Carry
<1>4. ASSUME NEW c \in Calls, Step(c) PROVE FileOK' /\ ImagesOK' /\ Calm' /\ BoundsOK' /\ HistoryOK'
  <2>0. /\ job[c] \in Job /\ job[c].doc \in Entry /\ job[c].call \in 0..MaxCalls
        /\ Fits(pc[c], job[c])
    BY <1>0 DEF CallsOK, Job
  <2>1. CASE Read(c)
    <3>1. PICK f \in Flags : Begin(c, f) BY <2>1 DEF Read
    <3>2. calls' \in 1..MaxCalls BY <1>0, <3>1, RegenerateAssumption DEF Begin, BoundsOK
    <3>. DEFINE new == [Ended(calls', "go") EXCEPT !.doc = entry, !.flags = f, !.alone = Idle]
    <3>3. new \in Job /\ new.call = calls'
      <4>1. Ended(calls', "go") \in Job /\ Ended(calls', "go").call = calls'
        BY <3>2, EndedIsJob, RegenerateAssumption DEF Exits
      <4>2. entry \in Entry /\ f \in AnyFlags /\ Idle \in BOOLEAN
        BY <1>0, RegenerateAssumption DEF FileOK, Idle
      <4>. HIDE DEF new
      <4>. QED BY <4>1, <4>2 DEF new, Job
    <3>4. ASSUME NEW d \in Calls PROVE job'[d] \in Job /\ Fits(pc'[d], job'[d])
      <4>1. CASE d = c
        <5>1. job'[d] = new /\ pc'[d] = "resolve" BY <4>1, <1>0, <2>1, <3>1 DEF Begin, Read, Goto, CallsOK
        <5>. HIDE DEF new
        <5>. QED BY <5>1, <3>2, <3>3 DEF Fits
      <4>2. CASE d # c
        <5>1. /\ job'[d] = [job[d] EXCEPT !.alone = @ /\ pc[d] = "idle"]
              /\ pc'[d] = pc[d]
          BY <4>2, <1>0, <2>1, <3>1 DEF Begin, Read, Goto, CallsOK
        <5>2. job[d] \in Job /\ Fits(pc[d], job[d]) BY <1>0 DEF CallsOK
        <5>3. job'[d] \in Job BY <5>1, <5>2 DEF Job
        <5>4. /\ job'[d].call = job[d].call /\ job'[d].todo = job[d].todo
              /\ job'[d].digest = job[d].digest
          BY <5>1, <5>2 DEF Job
        <5>. QED BY <5>1, <5>2, <5>3, <5>4 DEF Fits
      <4>. QED BY <4>1, <4>2
    <3>5. CallsOK'
      <4>1. job' = [d \in Calls |-> job'[d]] BY <3>1 DEF Begin
      <4>2. pc' \in [Calls -> PCs] BY <1>0, <2>1 DEF Read, Goto, CallsOK, PCs
      <4>. QED BY <4>1, <4>2, <3>4 DEF CallsOK
    <3>6. HistoryOK' BY <1>0, <2>1, <3>1 DEF Read, Begin, HistoryOK, Idle
    <3>7. BoundsOK' BY <1>0, <2>1, <3>2 DEF Read, BoundsOK
    <3>. QED BY <1>0, <2>1, <3>4, <3>5, <3>6, <3>7, Frames DEF Read
  <2>2. CASE ReadInVain(c)
    <3>1. calls' \in 1..MaxCalls BY <1>0, <2>2, RegenerateAssumption DEF ReadInVain, BoundsOK
    <3>. DEFINE x == IF content = "whole" THEN "ok" ELSE "raised"
    <3>2. Ended(calls', x) \in Job /\ Ended(calls', x).call = calls'
      BY <3>1, EndedIsJob, RegenerateAssumption DEF Exits
    <3>3. Fits("idle", Ended(calls', x)) BY DEF Fits
    <3>4. pc' = [pc EXCEPT ![c] = "idle"] BY <1>0, <2>2 DEF ReadInVain, CallsOK
    <3>5. Calm' BY <1>0, <2>2, <3>2, <3>3, <3>4, Moves DEF ReadInVain, PCs
    <3>6. BoundsOK' BY <1>0, <2>2, <3>1 DEF ReadInVain, BoundsOK
    <3>. QED BY <1>0, <2>2, <3>5, <3>6, Frames DEF ReadInVain
  <2>3. CASE ResolveFat(c)
    <3>1. CASE Return(c, "fat_image_missing")
      BY <1>0, <2>3, <3>1, Returns, Frames DEF ResolveFat, Exits
    <3>2. CASE Goto(c, IF fat[host] = None THEN "fat" ELSE "extract") /\ UNCHANGED job
      <4>1. ASSUME NEW p \in {"fat", "extract"}, Goto(c, p) PROVE Calm'
        BY <1>0, <2>0, <2>3, <3>2, <4>1, GoesTo DEF ResolveFat, Fits, PCs
      <4>. QED BY <1>0, <2>3, <3>2, <4>1, Frames DEF ResolveFat
    <3>. QED BY <2>3, <3>1, <3>2 DEF ResolveFat
  <2>4. CASE BuildFat(c)
    <3>1. ImagesOK' BY <1>0, <2>4 DEF BuildFat, ImagesOK
    <3>2. CASE Return(c, "fat_image_missing")
      BY <1>0, <2>4, <3>1, <3>2, Returns, Frames DEF BuildFat, Exits
    <3>3. CASE Goto(c, "extract") /\ UNCHANGED job
      <4>1. Calm' BY <1>0, <2>0, <2>4, <3>3, GoesTo DEF BuildFat, Fits, PCs
      <4>. QED BY <1>0, <2>4, <3>1, <4>1, Frames DEF BuildFat
    <3>. QED BY <2>4, <3>2, <3>3 DEF BuildFat
  <2>5. CASE Extract(c)
    <3>1. CASE Return(c, "raised")
      BY <1>0, <2>5, <3>1, Returns, Frames DEF Extract, Exits
    <3>2. CASE Return(c, "fingerprint_mismatch")
      BY <1>0, <2>5, <3>2, Returns, Frames DEF Extract, Exits
    <3>3. CASE Extracted(c)
      <4>. DEFINE j == [job[c] EXCEPT !.digest = fat[host],
                                      !.doc.prints[PlatformOf[host]] = fat[host],
                                      !.todo = KindsOf(job[c].doc)]
      <4>1. fat[host] \in Digests BY <1>0, <3>3 DEF Extracted, ImagesOK
      <4>2. j \in Job /\ j.todo # <<>> /\ j.call = job[c].call /\ j.digest = fat[host]
        <5>. DEFINE doc == [job[c].doc EXCEPT !.prints[PlatformOf[host]] = fat[host]]
        <5>1. doc \in Entry BY <2>0, <4>1 DEF Entry
        <5>2. j = [job[c] EXCEPT !.digest = fat[host], !.doc = doc, !.todo = KindsOf(job[c].doc)]
          BY <2>0 DEF Job
        <5>. HIDE DEF doc, j
        <5>. QED BY <2>0, <4>1, <5>1, <5>2, KindsOfType DEF Job
      <4>3. pc' = [pc EXCEPT ![c] = "thin"] /\ job' = [job EXCEPT ![c] = j]
        BY <3>3 DEF Extracted, Goto
      <4>4. Fits("thin", j) BY <2>0, <2>5, <4>1, <4>2, RegenerateAssumption DEF Fits, Extract
      <4>. HIDE DEF j
      <4>5. Calm' BY <1>0, <4>2, <4>3, <4>4, Moves DEF PCs
      <4>. QED BY <1>0, <2>5, <4>5, Frames DEF Extract
    <3>. QED BY <2>5, <3>1, <3>2, <3>3 DEF Extract
  <2>6. CASE BuildThin(c)
    <3>1. ImagesOK'
      <4>1. fat[host] \in Digests BY <1>0, <2>6 DEF BuildThin, ImagesOK
      <4>2. Current(c) \in Kinds BY <2>0, <2>6, TailType DEF BuildThin, Fits, Current, Job
      <4>. QED BY <1>0, <2>6, <4>1, <4>2 DEF BuildThin, ImagesOK
    <3>2. CASE Finally(c, "go")
      BY <1>0, <2>6, <3>1, <3>2, IntoFinally, Frames DEF BuildThin, Exits
    <3>3. CASE Goto(c, "test") /\ job' = [job EXCEPT ![c].todo = KindsOf(job[c].doc)]
      <4>1. Calm' BY <1>0, <2>0, <2>6, <3>3, KindsOfType, Loops DEF BuildThin, PCs
      <4>. QED BY <1>0, <2>6, <3>1, <4>1, Frames DEF BuildThin
    <3>4. CASE Len(job[c].todo) > 1 /\ job' = [job EXCEPT ![c].todo = Tail(@)] /\ UNCHANGED pc
      <4>1. Calm' BY <1>0, <2>6, <3>4, GoesRound DEF BuildThin
      <4>. QED BY <1>0, <2>6, <3>1, <4>1, Frames DEF BuildThin
    <3>. QED BY <2>6, <3>2, <3>3, <3>4 DEF BuildThin
  <2>7. CASE BuildThinFails(c)
    BY <1>0, <2>7, IntoFinally, Frames DEF BuildThinFails, Exits
  <2>8. CASE RunTest(c)
    <3>1. thin[host][Current(c)] \in Digests
      <4>1. Current(c) \in Kinds
        BY <2>0, <2>8, TailType DEF RunTest, Fits, Current, Job
      <4>. QED BY <1>0, <2>8, <4>1 DEF RunTest, ImagesOK
    <3>2. PICK r \in {"pass", "fail"} : Tested(c, r, {thin[host][Current(c)]})
      BY <2>8 DEF RunTest
    <3>3. Calm' BY <1>0, <2>8, <3>1, <3>2, TestMoves DEF RunTest, Results
    <3>. QED BY <1>0, <2>8, <3>3, Frames DEF RunTest
  <2>9. CASE RunNothing(c)
    <3>1. Calm' BY <1>0, <2>9, TestMoves DEF RunNothing, Results
    <3>2. BoundsOK' BY <1>0, <2>9, FaultsCounted DEF RunNothing, BoundsOK
    <3>. QED BY <1>0, <2>9, <3>1, <3>2, Frames DEF RunNothing
  <2>10. CASE TestTimesOut(c)
    <3>1. Current(c) \in Kinds BY <2>0, <2>10, TailType DEF TestTimesOut, Fits, Current, Job
    <3>2. ImagesOK' BY <1>0, <2>10, <3>1 DEF TestTimesOut, LeftRunning, ImagesOK
    <3>3. BoundsOK' BY <1>0, <2>10, FaultsCounted DEF TestTimesOut, BoundsOK
    <3>4. Calm' BY <1>0, <2>10, IntoFinally DEF TestTimesOut, Exits
    <3>. QED BY <1>0, <2>10, <3>2, <3>3, <3>4, Frames DEF TestTimesOut
  <2>11. CASE Clean(c)
    <3>1. Current(c) \in Kinds BY <2>0, <2>11, TailType DEF Clean, Fits, Current, Job
    <3>2. ImagesOK' /\ HistoryOK' /\ BoundsOK'
      <4>1. host' = host /\ fat' = fat /\ cut' = cut /\ calls' = calls
            /\ overlaps' = overlaps /\ logged' = logged
        BY <2>11 DEF Clean
      <4>2. CASE Untags(c)
        BY <1>0, <3>1, <4>1, <4>2 DEF Untags, ImagesOK, HistoryOK, BoundsOK
      <4>3. CASE Leaves /\ Fault("daemon")
        BY <1>0, <4>1, <4>3, FaultsCounted DEF Leaves, ImagesOK, HistoryOK, BoundsOK
      <4>4. CASE Leaves /\ UNCHANGED faults
        BY <1>0, <4>1, <4>4 DEF Leaves, ImagesOK, HistoryOK, BoundsOK
      <4>. QED BY <2>11, <4>2, <4>3, <4>4 DEF Clean
    <3>3. CASE Len(job[c].todo) > 1 /\ job' = [job EXCEPT ![c].todo = Tail(@)] /\ UNCHANGED pc
      <4>1. Calm' BY <1>0, <2>11, <3>3, GoesRound DEF Clean
      <4>. QED BY <1>0, <2>11, <3>2, <4>1, Frames DEF Clean
    <3>4. CASE Return(c, job[c].exit)
      <4>1. Calm' BY <1>0, <2>0, <3>4, Returns DEF Job
      <4>. QED BY <1>0, <2>11, <3>2, <4>1, Frames DEF Clean
    <3>5. CASE job' = [job EXCEPT ![c].todo = <<>>] /\ Goto(c, "open")
      <4>1. <<>> \in Seq(Kinds) OBVIOUS
      <4>2. Calm' BY <1>0, <2>0, <2>11, <3>5, <4>1, Loops DEF Clean, PCs
      <4>. QED BY <1>0, <2>11, <3>2, <4>2, Frames DEF Clean
    <3>. QED BY <2>11, <3>3, <3>4, <3>5 DEF Clean
  <2>12. CASE OpenEntry(c)
    <3>. DEFINE doc == [job[c].doc EXCEPT !.verified = Append(@, RecordOf(job[c]))]
                j == [job[c] EXCEPT !.doc = doc]
    <3>1. RecordOf(job[c]) \in Record
      <4>1. PlatformOf[host] \in Platforms BY <1>0 DEF ImagesOK, Platforms
      <4>2. job[c].call \in 1..MaxCalls /\ job[c].digest \in Digests
        BY <2>0, <2>12, RegenerateAssumption DEF Fits, Job, OpenEntry
      <4>. QED BY <2>0, <4>1, <4>2 DEF RecordOf, Record, Job
    <3>2. doc \in Entry BY <2>0, <3>1, AppendProperties DEF Entry
    <3>3. j \in Job /\ j.call = job[c].call
      <4>. HIDE DEF doc
      <4>. QED BY <2>0, <3>2 DEF Job
    <3>4. pc' = [pc EXCEPT ![c] = "save"] /\ job' = [job EXCEPT ![c] = j]
      BY <2>12 DEF OpenEntry, Goto
    <3>. HIDE DEF j
    <3>5. Fits("save", j) BY <2>0, <2>12, <3>3 DEF Fits, OpenEntry
    <3>6. Calm' BY <1>0, <3>3, <3>4, <3>5, Moves DEF PCs
    <3>7. FileOK' BY <1>0, <2>12 DEF OpenEntry, FileOK
    <3>. QED BY <1>0, <2>12, <3>6, <3>7, Frames DEF OpenEntry
  <2>13. CASE SaveEntry(c)
    <3>1. FileOK' BY <1>0, <2>0, <2>13 DEF SaveEntry, FileOK
    <3>2. Calm' BY <1>0, <2>0, <2>13, GoesTo DEF SaveEntry, Fits, PCs
    <3>3. job[c].call \in 1..MaxCalls BY <2>0, <2>13, RegenerateAssumption DEF SaveEntry, Fits
    <3>4. HistoryOK' BY <1>0, <2>13, <3>3 DEF SaveEntry, HistoryOK
    <3>. QED BY <1>0, <2>13, <3>1, <3>2, <3>4, Frames DEF SaveEntry
  <2>16. CASE Answer(c)
    <3>1. Calm' BY <1>0, <2>16, Returns DEF Answer, Exits
    <3>. QED BY <1>0, <2>16, <3>1, Frames DEF Answer
  <2>14. CASE Interrupt(c)
    <3>1. FileOK' BY <1>0, <2>14 DEF Interrupt, GivenUp, FileOK
    <3>2. BoundsOK' BY <1>0, <2>14, FaultsCounted DEF Interrupt, BoundsOK
    <3>3. HistoryOK' BY <1>0, <2>14 DEF Interrupt, HistoryOK, ImagesOK
    <3>4. Calm' BY <1>0, <2>14, IntoFinally, Returns DEF Interrupt, Exits
    <3>5. ImagesOK'
      <4>1. pc[c] = "test" => Current(c) \in Kinds
        BY <2>0, TailType DEF Fits, Current, Job
      <4>. QED BY <1>0, <2>14, <4>1 DEF Interrupt, LeftRunning, ImagesOK
    <3>. QED BY <1>0, <2>14, <3>1, <3>2, <3>3, <3>4, <3>5 DEF Interrupt
  <2>15. CASE Crash(c)
    <3>1. FileOK' BY <1>0, <2>15 DEF Crash, GivenUp, FileOK
    <3>2. BoundsOK' BY <1>0, <2>15, FaultsCounted DEF Crash, BoundsOK
    <3>3. HistoryOK' BY <1>0, <2>15 DEF Crash, HistoryOK, ImagesOK
    <3>4. Calm' BY <1>0, <2>15, Returns DEF Crash, Exits
    <3>. QED BY <1>0, <2>15, <3>1, <3>2, <3>3, <3>4, Frames DEF Crash
  <2>. QED BY <1>4, <2>1, <2>2, <2>3, <2>4, <2>5, <2>6, <2>7, <2>8, <2>9, <2>10, <2>11,
              <2>12, <2>13, <2>14, <2>15, <2>16 DEF Step
<1>. QED BY <1>1, <1>2, <1>3, <1>4, <1>5 DEF Next

\* Every variable keeps its type, in every behaviour.
THEOREM TypeCorrect == Spec => []TypeOK
<1>. QED BY InitTypes, StepTypes, PTL DEF Spec

(***************************************************************************)
(* Records and fingerprints.  What makes RecordsMatchPrints inductive is   *)
(* that a call changes its own copy of the whole entry, and keeps that     *)
(* copy consistent: it adds a fingerprint for a platform that had none,    *)
(* and so no records, and a record under the fingerprint it compared.      *)
(***************************************************************************)
Consistent(e) ==
  \A i \in 1..Len(e.verified) : e.prints[e.verified[i].platform] = e.verified[i].digest

Past == {"thin", "test", "clean", "open"}
Sound(p, j) ==
  /\ Consistent(j.doc)
  /\ p \in Past => j.doc.prints[PlatformOf[host]] = j.digest

RInv == Consistent(entry) /\ \A c \in Calls : Sound(pc[c], job[c])

LEMMA UnreadConsistent == Consistent(Unread)
<1>1. Unread.verified = <<>> /\ Len(<<>>) = 0 BY DEF Unread
<1>. QED BY <1>1 DEF Consistent

LEMMA RInvImplies == TypeOK /\ RInv => RecordsMatchPrints
<1>. SUFFICES ASSUME TypeOK, RInv, NEW r \in Range(entry.verified)
              PROVE  entry.prints[r.platform] = r.digest
  BY DEF RecordsMatchPrints
<1>1. entry.verified \in Seq(Record) BY DEF TypeOK, FileOK, Entry
<1>2. DOMAIN entry.verified = 1..Len(entry.verified) BY <1>1
<1>3. PICK i \in 1..Len(entry.verified) : r = entry.verified[i] BY <1>2 DEF Range
<1>. QED BY <1>3 DEF RInv, Consistent

\* The other calls keep their variables, but for their being alone.
LEMMA OthersKeep ==
  ASSUME TypeOK, NEW c \in Calls, Step(c), NEW d \in Calls, d # c
  PROVE  /\ pc'[d] = pc[d]
         /\ \/ job'[d] = job[d]
            \/ Read(c) /\ job'[d] = [job[d] EXCEPT !.alone = @ /\ pc[d] = "idle"]
<1>0. pc \in [Calls -> PCs] /\ job \in [Calls -> Job] BY DEF TypeOK, CallsOK
<1>1. CASE Read(c)
  <2>1. PICK f \in Flags : Begin(c, f) BY <1>1 DEF Read
  <2>2. job'[d] = [job[d] EXCEPT !.alone = @ /\ pc[d] = "idle"] BY <2>1 DEF Begin
  <2>. QED BY <1>0, <1>1, <2>2 DEF Read, Goto
<1>2. CASE ReadInVain(c) BY <1>0, <1>2 DEF ReadInVain
<1>3. CASE ResolveFat(c) BY <1>0, <1>3 DEF ResolveFat, Return, Goto
<1>4. CASE BuildFat(c) BY <1>0, <1>4 DEF BuildFat, Return, Goto
<1>5. CASE Extract(c) BY <1>0, <1>5 DEF Extract, Extracted, Return, Goto
<1>6. CASE BuildThin(c) BY <1>0, <1>6 DEF BuildThin, Finally, Goto
<1>7. CASE BuildThinFails(c) BY <1>0, <1>7 DEF BuildThinFails, Finally, Goto
<1>8. CASE RunTest(c) BY <1>0, <1>8 DEF RunTest, Tested, Goto
<1>9. CASE RunNothing(c) BY <1>0, <1>9 DEF RunNothing, Tested, Goto
<1>10. CASE TestTimesOut(c) BY <1>0, <1>10 DEF TestTimesOut, Finally, Goto
<1>11. CASE Clean(c) BY <1>0, <1>11 DEF Clean, Return, Goto
<1>12. CASE OpenEntry(c) BY <1>0, <1>12 DEF OpenEntry, Goto
<1>13. CASE SaveEntry(c) BY <1>0, <1>13 DEF SaveEntry, Goto
<1>14. CASE Interrupt(c) BY <1>0, <1>14 DEF Interrupt, Finally, Return, Goto
<1>15. CASE Crash(c) BY <1>0, <1>15 DEF Crash, Return, Goto
<1>16. CASE Answer(c) BY <1>0, <1>16 DEF Answer, Return, Goto
<1>. QED BY <1>1, <1>2, <1>3, <1>4, <1>5, <1>6, <1>7, <1>8, <1>9, <1>10, <1>11, <1>12,
            <1>13, <1>14, <1>15, <1>16 DEF Step

LEMMA OthersFields ==
  ASSUME TypeOK, NEW c \in Calls, Step(c), NEW d \in Calls, d # c
  PROVE  /\ pc'[d] = pc[d]
         /\ job'[d].doc = job[d].doc /\ job'[d].call = job[d].call
         /\ job'[d].exit = job[d].exit /\ job'[d].todo = job[d].todo
         /\ job'[d].bases = job[d].bases /\ job'[d].digest = job[d].digest
         /\ job'[d].outcome = job[d].outcome
         /\ job'[d].alone => job[d].alone
<1>1. job[d] \in Job BY DEF TypeOK, CallsOK
<1>2. CASE job'[d] = job[d] BY <1>2, OthersKeep
<1>3. CASE job'[d] = [job[d] EXCEPT !.alone = @ /\ pc[d] = "idle"]
  BY <1>1, <1>3, OthersKeep DEF Job
<1>. QED BY <1>2, <1>3, OthersKeep

\* The call itself reads the entry, or extracts, or opens the file; with any
\* other step it ends or keeps its copy of the entry, and only the steps of
\* the try block lead further into it.
Ends(c) == pc'[c] = "idle" /\ job'[c].doc = Unread
Keeps(c) ==
  /\ job'[c].doc = job[c].doc /\ job'[c].digest = job[c].digest
  /\ pc'[c] \in Past => pc[c] \in Past

LEMMA OwnStep ==
  ASSUME TypeOK, NEW c \in Calls, Step(c)
  PROVE  \/ Read(c) \/ (Extract(c) /\ Extracted(c)) \/ OpenEntry(c) \/ Ends(c) \/ Keeps(c)
<1>0. pc \in [Calls -> PCs] /\ job \in [Calls -> Job] BY DEF TypeOK, CallsOK
<1>a. ASSUME NEW n, NEW x PROVE Ended(n, x).doc = Unread BY DEF Ended
<1>b. ASSUME NEW x, Return(c, x) PROVE Ends(c)
  BY <1>0, <1>a, <1>b DEF Return, Goto, Ends
<1>c. ASSUME NEW x, pc[c] \in Past, Finally(c, x) PROVE Keeps(c)
  BY <1>0, <1>c DEF Finally, Goto, Keeps, Job
<1>d. ASSUME NEW r, NEW b, pc[c] = "test", Tested(c, r, b) PROVE Keeps(c)
  <2>. DEFINE seen == [job[c].seen EXCEPT ![Current(c)] = r]
              next == [job[c] EXCEPT !.bases = @ \cup b]
              round == [next EXCEPT !.seen = seen, !.todo = Tail(@)]
              last == [next EXCEPT !.seen = Untested, !.todo = KindsOf(next.doc),
                                   !.outcome = OutcomeOf(next.doc.category, seen)]
  <2>1. /\ next.doc = job[c].doc /\ next.digest = job[c].digest
        /\ DOMAIN next = DOMAIN job[c]
        /\ {"doc", "digest"} \subseteq DOMAIN next
    BY <1>0 DEF Job
  <2>2. job' = [job EXCEPT ![c] = round] \/ job' = [job EXCEPT ![c] = last]
    BY <1>d DEF Tested
  <2>. HIDE DEF next, seen
  <2>3. round.doc = next.doc /\ round.digest = next.digest BY <2>1
  <2>4. last.doc = next.doc /\ last.digest = next.digest BY <2>1
  <2>. HIDE DEF round, last
  <2>5. job'[c] \in {round, last} BY <1>0, <2>2
  <2>. QED BY <1>d, <2>1, <2>3, <2>4, <2>5 DEF Keeps, Past
<1>2. CASE ReadInVain(c) BY <1>0, <1>2, <1>a DEF ReadInVain, Ends
<1>3. CASE ResolveFat(c)
  <2>1. CASE Return(c, "fat_image_missing") BY <2>1, <1>b
  <2>2. CASE Goto(c, IF fat[host] = None THEN "fat" ELSE "extract") /\ UNCHANGED job
    BY <1>0, <2>2 DEF Goto, Keeps, Past
  <2>. QED BY <1>3, <2>1, <2>2 DEF ResolveFat
<1>4. CASE BuildFat(c)
  <2>1. CASE Return(c, "fat_image_missing") BY <2>1, <1>b
  <2>2. CASE Goto(c, "extract") /\ UNCHANGED job BY <1>0, <2>2 DEF Goto, Keeps, Past
  <2>. QED BY <1>4, <2>1, <2>2 DEF BuildFat
<1>5. CASE Extract(c) BY <1>5, <1>b DEF Extract
<1>6. CASE BuildThin(c)
  <2>1. CASE Finally(c, "go") BY <2>1, <1>6, <1>c DEF BuildThin, Past
  <2>2. CASE job' = [job EXCEPT ![c].todo = Tail(@)] /\ UNCHANGED pc
    BY <1>0, <2>2 DEF Keeps, Job
  <2>3. CASE job' = [job EXCEPT ![c].todo = KindsOf(job[c].doc)]
    BY <1>0, <1>6, <2>3 DEF BuildThin, Keeps, Job, Past
  <2>. QED BY <1>6, <2>1, <2>2, <2>3 DEF BuildThin
<1>7. CASE BuildThinFails(c) BY <1>7, <1>c DEF BuildThinFails, Past
<1>8. CASE RunTest(c) BY <1>8, <1>d DEF RunTest
<1>9. CASE RunNothing(c) BY <1>9, <1>d DEF RunNothing
<1>10. CASE TestTimesOut(c) BY <1>10, <1>c DEF TestTimesOut, Past
<1>11. CASE Clean(c)
  <2>1. CASE Return(c, job[c].exit) BY <2>1, <1>b
  <2>2. CASE job' = [job EXCEPT ![c].todo = Tail(@)] /\ UNCHANGED pc
    BY <1>0, <2>2 DEF Keeps, Job
  <2>3. CASE job' = [job EXCEPT ![c].todo = <<>>] /\ Goto(c, "open")
    BY <1>0, <1>11, <2>3 DEF Clean, Keeps, Job, Past
  <2>. QED BY <1>11, <2>1, <2>2, <2>3 DEF Clean
<1>13. CASE SaveEntry(c) BY <1>0, <1>13 DEF SaveEntry, Goto, Keeps, Past
<1>14. CASE Interrupt(c) BY <1>14, <1>b, <1>c DEF Interrupt, Past
<1>15. CASE Crash(c) BY <1>15, <1>b DEF Crash
<1>16. CASE Answer(c) BY <1>16, <1>b DEF Answer
<1>. QED BY <1>2, <1>3, <1>4, <1>5, <1>6, <1>7, <1>8, <1>9, <1>10, <1>11,
            <1>13, <1>14, <1>15, <1>16 DEF Step

LEMMA AddsAPrint ==
  ASSUME NEW e \in Entry, Consistent(e), NEW p \in Platforms, NEW d \in Digests,
         e.prints[p] \in {None, d}
  PROVE  LET e2 == [e EXCEPT !.prints[p] = d]
         IN Consistent(e2) /\ e2.prints[p] = d
<1>. DEFINE e2 == [e EXCEPT !.prints[p] = d]
<1>1. e2.verified = e.verified /\ e2.prints = [e.prints EXCEPT ![p] = d] BY DEF Entry
<1>. HIDE DEF e2
<1>2. e.verified \in Seq(Record) /\ e.prints \in [Platforms -> Digests \cup {None}] BY DEF Entry
<1>3. ASSUME NEW i \in 1..Len(e.verified)
      PROVE  e2.prints[e.verified[i].platform] = e.verified[i].digest
  <2>1. e.verified[i] \in Record BY <1>2, ElementOfSeq
  <2>2. e.verified[i].platform \in Platforms /\ e.verified[i].digest \in Digests
    BY <2>1 DEF Record
  <2>3. e.prints[e.verified[i].platform] = e.verified[i].digest BY <1>3 DEF Consistent
  <2>4. CASE e.verified[i].platform = p
    <3>1. e.verified[i].digest = d BY <2>2, <2>3, <2>4, RegenerateAssumption
    <3>. QED BY <1>1, <1>2, <2>4, <3>1
  <2>5. CASE e.verified[i].platform # p BY <1>1, <1>2, <2>2, <2>3, <2>5
  <2>. QED BY <2>4, <2>5
<1>4. Consistent(e2) BY <1>1, <1>3 DEF Consistent
<1>5. e2.prints[p] = d BY <1>1, <1>2
<1>. QED BY <1>4, <1>5 DEF e2

LEMMA AddsARecord ==
  ASSUME NEW e \in Entry, Consistent(e), NEW r \in Record, e.prints[r.platform] = r.digest
  PROVE  Consistent([e EXCEPT !.verified = Append(@, r)])
<1>. DEFINE e2 == [e EXCEPT !.verified = Append(@, r)]
<1>1. e2.verified = Append(e.verified, r) /\ e2.prints = e.prints BY DEF Entry
<1>. HIDE DEF e2
<1>2. e.verified \in Seq(Record) BY DEF Entry
<1>3. /\ Len(e2.verified) = Len(e.verified) + 1
      /\ \A i \in 1..Len(e.verified) : e2.verified[i] = e.verified[i]
      /\ e2.verified[Len(e.verified) + 1] = r
  BY <1>1, <1>2, AppendProperties
<1>4. Len(e.verified) \in Nat BY <1>2, LenProperties
<1>5. ASSUME NEW i \in 1..Len(e2.verified)
      PROVE  e2.prints[e2.verified[i].platform] = e2.verified[i].digest
  <2>1. i \in 1..Len(e.verified) \/ i = Len(e.verified) + 1 BY <1>3, <1>4
  <2>. QED BY <1>1, <1>3, <2>1 DEF Consistent
<1>. QED BY <1>5 DEF Consistent, e2

THEOREM InitConsistent == Init => RInv
<1>. SUFFICES ASSUME Init PROVE RInv OBVIOUS
<1>1. entry.verified = <<>> /\ Len(<<>>) = 0 BY DEF Init
<1>2. Consistent(entry) BY <1>1 DEF Consistent
<1>3. ASSUME NEW c \in Calls PROVE Sound(pc[c], job[c])
  <2>1. job[c].doc = Unread /\ pc[c] = "idle" BY DEF Init, Ended
  <2>. QED BY <2>1, UnreadConsistent DEF Sound, Past
<1>. QED BY <1>2, <1>3 DEF RInv

THEOREM StepConsistent == TypeOK /\ RInv /\ [Next]_vars => RInv'
<1>. SUFFICES ASSUME TypeOK, RInv, [Next]_vars PROVE RInv' OBVIOUS
<1>0. pc \in [Calls -> PCs] /\ job \in [Calls -> Job] /\ entry \in Entry /\ host \in Hosts
  BY DEF TypeOK, CallsOK, FileOK, ImagesOK
<1>1. CASE UNCHANGED vars BY <1>1 DEF vars, RInv, Sound, Consistent
<1>2. CASE PruneFat BY <1>2 DEF PruneFat, file, RInv, Sound, Consistent
<1>5. CASE RebuildFat
  <2>1. entry' = entry /\ host' = host BY <1>5 DEF RebuildFat, file
  <2>2. \A c \in Calls : Sound(pc[c], job[c])'
    BY <1>5, <2>1, RebuildFields DEF RInv, Sound
  <2>. QED BY <2>1, <2>2 DEF RInv, Consistent
<1>3. CASE Carry
  <2>1. \A c \in Calls : pc[c] = "idle" BY <1>3 DEF Carry, Idle
  <2>2. entry' = entry /\ pc' = pc /\ job' = job BY <1>3 DEF Carry, file
  <2>. QED BY <2>1, <2>2 DEF RInv, Sound, Consistent, Past
<1>4. ASSUME NEW c \in Calls, Step(c) PROVE RInv'
  <2>0. /\ Sound(pc[c], job[c]) /\ job[c].doc \in Entry /\ PlatformOf[host] \in Platforms
        /\ job[c].call \in 0..MaxCalls /\ Fits(pc[c], job[c])
    BY <1>0 DEF RInv, Job, Platforms, TypeOK
  <2>1. host' = host
    BY <1>4 DEF Step, Read, ReadInVain, ResolveFat, BuildFat, Extract, BuildThin,
       BuildThinFails, RunTest, RunNothing, TestTimesOut, Clean, OpenEntry, SaveEntry,
       Answer, Interrupt, Crash
  <2>2. entry' = entry \/ entry' = job[c].doc
    BY <1>4 DEF Step, Read, ReadInVain, ResolveFat, BuildFat, Extract, BuildThin,
       BuildThinFails, RunTest, RunNothing, TestTimesOut, Clean, OpenEntry, SaveEntry,
       Answer, Interrupt, Crash, file
  <2>3. Consistent(entry') BY <2>0, <2>2 DEF RInv, Sound
  <2>4. ASSUME NEW d \in Calls, d # c PROVE Sound(pc[d], job[d])'
    <3>1. pc'[d] = pc[d] /\ job'[d].doc = job[d].doc /\ job'[d].digest = job[d].digest
      BY <1>4, <2>4, OthersFields
    <3>. QED BY <2>1, <3>1 DEF RInv, Sound
  <2>5. Sound(pc[c], job[c])'
    <3>1. CASE Read(c)
      <4>1. PICK f \in Flags : Begin(c, f) BY <3>1 DEF Read
      <4>2. job'[c] = [Ended(calls', "go") EXCEPT !.doc = entry, !.flags = f, !.alone = Idle]
        BY <4>1 DEF Begin
      <4>3. job'[c].doc = entry BY <4>2 DEF Ended
      <4>4. pc'[c] = "resolve" BY <1>0, <3>1 DEF Read, Goto
      <4>. QED BY <4>3, <4>4 DEF RInv, Sound, Past
    <3>2. CASE Extract(c) /\ Extracted(c)
      <4>. DEFINE doc == [job[c].doc EXCEPT !.prints[PlatformOf[host]] = fat[host]]
      <4>1. fat[host] \in Digests BY <1>0, <3>2 DEF Extracted, TypeOK, ImagesOK
      <4>2. job[c].doc.prints[PlatformOf[host]] \in {None, fat[host]}
        <5>1. pc[c] = "extract" BY <3>2 DEF Extract
        <5>2. pc'[c] = "thin" BY <1>0, <3>2 DEF Extracted, Goto
        <5>. QED BY <1>0, <3>2, <5>2 DEF Extract, Return, Goto
      <4>3. Consistent(doc) /\ doc.prints[PlatformOf[host]] = fat[host]
        BY <2>0, <4>1, <4>2, AddsAPrint DEF Sound
      <4>4. job'[c].doc = doc /\ job'[c].digest = fat[host]
        BY <1>0, <3>2 DEF Extracted, Job
      <4>. HIDE DEF doc
      <4>. QED BY <2>1, <4>3, <4>4 DEF Sound
    <3>3. CASE OpenEntry(c)
      <4>. DEFINE r == RecordOf(job[c])
                  doc == [job[c].doc EXCEPT !.verified = Append(@, r)]
      <4>1. r \in Record
        <5>1. job[c].call \in 1..MaxCalls /\ job[c].digest \in Digests
          BY <1>0, <2>0, <3>3, RegenerateAssumption DEF Fits, Job, OpenEntry
        <5>. QED BY <1>0, <2>0, <5>1 DEF RecordOf, Record, Job
      <4>2. r.platform = PlatformOf[host] /\ r.digest = job[c].digest BY DEF RecordOf
      <4>3. job[c].doc.prints[PlatformOf[host]] = job[c].digest
        BY <2>0, <3>3 DEF OpenEntry, Sound, Past
      <4>. HIDE DEF r
      <4>4. Consistent(doc) BY <2>0, <4>1, <4>2, <4>3, AddsARecord DEF Sound
      <4>5. job'[c].doc = doc /\ pc'[c] = "save"
        BY <1>0, <3>3 DEF OpenEntry, Goto, Job, r
      <4>. HIDE DEF doc
      <4>. QED BY <4>4, <4>5 DEF Sound, Past
    <3>4. CASE Ends(c) BY <3>4, UnreadConsistent DEF Ends, Sound, Past
    <3>5. CASE Keeps(c) BY <2>0, <2>1, <3>5 DEF Keeps, Sound
    <3>. QED BY <1>4, <3>1, <3>2, <3>3, <3>4, <3>5, OwnStep
  <2>6. \A d \in Calls : Sound(pc[d], job[d])' BY <2>4, <2>5
  <2>. QED BY <2>3, <2>6 DEF RInv, Consistent
<1>. QED BY <1>1, <1>2, <1>3, <1>4, <1>5 DEF Next

\* Whatever calls overlap and whoever writes last, the verifications in the
\* file match the fingerprints in it.
THEOREM RecordsMatch == Spec => []RecordsMatchPrints
<1>1. TypeOK /\ TypeOK' /\ RInv /\ [Next]_vars => RInv' BY StepConsistent
<1>. QED BY TypeCorrect, InitConsistent, <1>1, RInvImplies, PTL DEF Spec
-----------------------------------------------------------------------------
(* What the steps of a call have in common *)

\* c keeps what it has read and found.
Same(c) ==
  /\ job'[c].doc = job[c].doc /\ job'[c].call = job[c].call
  /\ job'[c].digest = job[c].digest /\ job'[c].alone = job[c].alone
  /\ job'[c].flags = job[c].flags

LEMMA ReturnIs ==
  ASSUME TypeOK, NEW c \in Calls, NEW x, Return(c, x)
  PROVE  pc'[c] = "idle" /\ job'[c] = Ended(job[c].call, x)
BY DEF TypeOK, CallsOK, Return, Goto

LEMMA FinallyIs ==
  ASSUME TypeOK, NEW c \in Calls, NEW x, Finally(c, x)
  PROVE  /\ pc'[c] = "clean" /\ Same(c) /\ job'[c].exit = x
         /\ job'[c].todo = KindsOf(job[c].doc) /\ job'[c].bases = job[c].bases
<1>1. job \in [Calls -> Job] /\ pc \in [Calls -> PCs] BY DEF TypeOK, CallsOK
<1>. QED BY <1>1 DEF Finally, Goto, Same, Job

LEMMA LoopIs ==
  ASSUME TypeOK, NEW c \in Calls, NEW t, job' = [job EXCEPT ![c].todo = t]
  PROVE  /\ Same(c) /\ job'[c].exit = job[c].exit /\ job'[c].todo = t
         /\ job'[c].bases = job[c].bases
<1>1. job \in [Calls -> Job] BY DEF TypeOK, CallsOK
<1>. QED BY <1>1 DEF Same, Job

LEMMA TestedIs ==
  ASSUME TypeOK, NEW c \in Calls, NEW r, NEW b, pc[c] = "test", Tested(c, r, b)
  PROVE  /\ Same(c) /\ job'[c].exit = job[c].exit /\ job'[c].bases = job[c].bases \cup b
         /\ \/ pc'[c] = "test" /\ Len(job[c].todo) > 1 /\ job'[c].todo = Tail(job[c].todo)
            \/ pc'[c] = "clean" /\ job'[c].todo = KindsOf(job[c].doc)
<1>. DEFINE seen == [job[c].seen EXCEPT ![Current(c)] = r]
            next == [job[c] EXCEPT !.bases = @ \cup b]
            round == [next EXCEPT !.seen = seen, !.todo = Tail(@)]
            last == [next EXCEPT !.seen = Untested, !.todo = KindsOf(next.doc),
                                 !.outcome = OutcomeOf(next.doc.category, seen)]
            fields == {"doc", "digest", "call", "alone", "flags", "exit", "bases", "todo"}
<1>0. pc \in [Calls -> PCs] /\ job \in [Calls -> Job] BY DEF TypeOK, CallsOK
<1>1. /\ next.doc = job[c].doc /\ next.digest = job[c].digest /\ next.call = job[c].call
      /\ next.alone = job[c].alone /\ next.flags = job[c].flags /\ next.exit = job[c].exit
      /\ next.todo = job[c].todo /\ next.bases = job[c].bases \cup b
      /\ fields \subseteq DOMAIN next
  BY <1>0 DEF Job
<1>2. \/ Len(job[c].todo) > 1 /\ job' = [job EXCEPT ![c] = round] /\ UNCHANGED pc
      \/ job' = [job EXCEPT ![c] = last] /\ Goto(c, "clean")
  BY DEF Tested
<1>. HIDE DEF next, seen
<1>3. /\ round.doc = next.doc /\ round.digest = next.digest /\ round.call = next.call
      /\ round.alone = next.alone /\ round.flags = next.flags /\ round.exit = next.exit
      /\ round.bases = next.bases /\ round.todo = Tail(next.todo)
  BY <1>1
<1>4. /\ last.doc = next.doc /\ last.digest = next.digest /\ last.call = next.call
      /\ last.alone = next.alone /\ last.flags = next.flags /\ last.exit = next.exit
      /\ last.bases = next.bases /\ last.todo = KindsOf(next.doc)
  BY <1>1
<1>. HIDE DEF round, last
<1>5. CASE Len(job[c].todo) > 1 /\ job' = [job EXCEPT ![c] = round] /\ UNCHANGED pc
  <2>1. job'[c] = round /\ pc'[c] = "test" BY <1>0, <1>5
  <2>. QED BY <1>1, <1>3, <1>5, <2>1 DEF Same
<1>6. CASE job' = [job EXCEPT ![c] = last] /\ Goto(c, "clean")
  <2>1. job'[c] = last /\ pc'[c] = "clean" BY <1>0, <1>6 DEF Goto
  <2>. QED BY <1>1, <1>4, <2>1 DEF Same
<1>. QED BY <1>2, <1>5, <1>6

LEMMA RangeAppend ==
  ASSUME NEW S, NEW s \in Seq(S), NEW x \in S
  PROVE  Range(Append(s, x)) = Range(s) \cup {x}
<1>1. /\ Append(s, x) \in Seq(S) /\ Len(Append(s, x)) = Len(s) + 1
      /\ \A i \in 1..Len(s) : Append(s, x)[i] = s[i]
      /\ Append(s, x)[Len(s) + 1] = x
  BY AppendProperties
<1>2. DOMAIN s = 1..Len(s) /\ DOMAIN Append(s, x) = 1..(Len(s) + 1) /\ Len(s) \in Nat
  BY <1>1, LenProperties
<1>3. 1..(Len(s) + 1) = (1..Len(s)) \cup {Len(s) + 1} BY <1>2
<1>. QED BY <1>1, <1>2, <1>3 DEF Range

LEMMA HeadAndTail ==
  ASSUME NEW s \in Seq(Kinds), s # <<>>
  PROVE  /\ Head(s) \in Range(s) /\ Head(s) \in Kinds
         /\ Range(s) = {Head(s)} \cup Range(Tail(s))
         /\ ~(Len(s) > 1) => Range(s) = {Head(s)}
<1>1. /\ Head(s) = s[1] /\ Head(s) \in Kinds
      /\ Tail(s) \in Seq(Kinds) /\ Len(Tail(s)) = Len(s) - 1
      /\ \A i \in 1..Len(Tail(s)) : Tail(s)[i] = s[i + 1]
  BY HeadTailProperties, LenProperties
<1>2. DOMAIN s = 1..Len(s) /\ Len(s) \in Nat /\ Len(s) # 0 BY LenProperties, EmptySeq
<1>3. DOMAIN Tail(s) = 1..(Len(s) - 1) BY <1>1, LenProperties
<1>4. Head(s) \in Range(s) BY <1>1, <1>2 DEF Range
<1>5. ASSUME NEW k \in Range(s) PROVE k = Head(s) \/ k \in Range(Tail(s))
  <2>1. PICK i \in 1..Len(s) : k = s[i] BY <1>2 DEF Range
  <2>2. CASE i = 1 BY <1>1, <2>1, <2>2
  <2>3. CASE i # 1
    <3>1. i - 1 \in 1..(Len(s) - 1) /\ (i - 1) + 1 = i BY <1>2, <2>3
    <3>2. Tail(s)[i - 1] = k BY <1>1, <2>1, <3>1
    <3>. QED BY <1>3, <3>1, <3>2 DEF Range
  <2>. QED BY <2>2, <2>3
<1>6. ASSUME NEW k \in Range(Tail(s)) PROVE k \in Range(s)
  <2>1. PICK i \in 1..(Len(s) - 1) : k = Tail(s)[i] BY <1>3 DEF Range
  <2>2. i + 1 \in 1..Len(s) /\ k = s[i + 1] BY <1>1, <1>2, <2>1
  <2>. QED BY <1>2, <2>2 DEF Range
<1>7. ASSUME ~(Len(s) > 1) PROVE Range(Tail(s)) = {}
  <2>1. 1..(Len(s) - 1) = {} BY <1>2, <1>7
  <2>. QED BY <1>3, <2>1 DEF Range
<1>. QED BY <1>1, <1>4, <1>5, <1>6, <1>7
-----------------------------------------------------------------------------
(* The file, as long as calls do not overlap *)

Records == Range(entry.verified)
Of(n) == {r.outcome : r \in {q \in Records : q.call = n}}

\* What a call under way may end with before it has written its record.
Quits == {"fingerprint_mismatch", "thin_build_failed", "fat_image_missing", "raised", "killed"}

\* Calls are numbered one by one.
NumbersInv ==
  /\ \A c \in Calls : job[c].call <= calls
  /\ \A c, d \in Calls : job[c].call = job[d].call /\ job[c].call # 0 => c = d
  /\ \A c \in Calls : pc[c] # "idle" => job[c].exit \in {"go"} \cup Quits

(***************************************************************************)
(* What a call that nobody interfered with has in hand: the entry as it    *)
(* is in the file, and, once it has truncated the file, that entry with a  *)
(* record of its own; after that its record is the one in the file.        *)
(***************************************************************************)
AsRead(c) ==
  LET j == job[c] IN
  /\ j.doc.category = entry.category /\ entry.category # "unreproducible"
  /\ \A p \in Platforms : entry.prints[p] # None => j.doc.prints[p] = entry.prints[p]
  /\ \A r \in Records : r.call # j.call
  /\ pc[c] # "save" => j.doc.verified = entry.verified
  /\ pc[c] = "save" =>
       /\ content = "empty"
       /\ \E r \in Record : /\ j.doc.verified = Append(entry.verified, r)
                            /\ r.call = j.call /\ r.outcome = j.outcome

Written(c) == Of(job[c].call) = {job[c].outcome}

\* What the exit of a call that has returned says of its records.
Told(j) ==
  /\ j.exit = "ok" => Of(j.call) \in {{"match"}, {"untested"}}
  /\ j.exit = "outcome_mismatch" => Of(j.call) = {"mismatch"}
  /\ j.exit \in {"raised", "killed"} => \E o \in Outcomes : Of(j.call) \subseteq {o}
  /\ j.exit \notin {"ok", "outcome_mismatch", "raised", "killed"} => Of(j.call) = {}

FileInv ==
  ~overlaps =>
    /\ \A c, d \in Calls : pc[c] # "idle" /\ pc[d] # "idle" => c = d
    /\ \A c \in Calls : pc[c] \notin {"idle", "exit"} => AsRead(c)
    /\ \A c \in Calls : pc[c] = "exit" => Written(c)
    /\ \A r \in Records : r.call <= calls
    /\ {r.call : r \in Records} = logged
    /\ entry.category # "unreproducible" =>
         \A c \in Calls : pc[c] = "idle" /\ job[c].call > 0 => Told(job[c])

LEMMA FileInvImplies == NumbersInv /\ FileInv => VerificationsKept /\ ExitTellsTheFile
<1>. SUFFICES ASSUME FileInv PROVE VerificationsKept /\ ExitTellsTheFile OBVIOUS
<1>1. VerificationsKept BY DEF FileInv, VerificationsKept, Records
<1>2. ASSUME content = "whole", ~overlaps, entry.category # "unreproducible",
             NEW c \in Calls, pc[c] = "idle", job[c].call > 0
      PROVE  CASE job[c].exit = "ok" -> Of(job[c].call) \in {{"match"}, {"untested"}}
               [] job[c].exit = "outcome_mismatch" -> Of(job[c].call) = {"mismatch"}
               [] job[c].exit \in {"raised", "killed"} ->
                    \E o \in Outcomes : Of(job[c].call) \subseteq {o}
               [] OTHER -> Of(job[c].call) = {}
  <2>1. Told(job[c]) BY <1>2 DEF FileInv
  <2>2. CASE job[c].exit = "ok" BY <2>1, <2>2 DEF Told
  <2>3. CASE job[c].exit = "outcome_mismatch" BY <2>1, <2>3 DEF Told
  <2>4. CASE job[c].exit \in {"raised", "killed"} BY <2>1, <2>4 DEF Told
  <2>5. CASE job[c].exit \notin {"ok", "outcome_mismatch", "raised", "killed"}
    BY <2>1, <2>5 DEF Told
  <2>. QED BY <2>2, <2>3, <2>4, <2>5
<1>3. ExitTellsTheFile BY <1>2 DEF ExitTellsTheFile, Of, Records
<1>. QED BY <1>1, <1>3

\* A call moves on without touching the file, or gives up, before it has written
\* its record or after.
MovesOn(c) ==
  /\ pc[c] \notin {"idle", "save", "exit"} /\ pc'[c] \notin {"idle", "save", "exit"}
  /\ Same(c) /\ job'[c].exit \in {"go"} \cup Quits
  /\ UNCHANGED <<entry, calls, overlaps, logged>>
Drops(c) ==
  /\ pc[c] \notin {"idle", "exit"} /\ \E x \in Quits : Return(c, x)
  /\ UNCHANGED <<entry, calls, overlaps, logged>>
DropsLate(c) ==
  /\ pc[c] = "exit" /\ \E x \in {"raised", "killed"} : Return(c, x)
  /\ UNCHANGED <<entry, calls, overlaps, logged>>

LEMMA FileStep ==
  ASSUME TypeOK, NumbersInv, NEW c \in Calls, Step(c)
  PROVE  \/ Read(c) \/ ReadInVain(c) \/ (Extract(c) /\ Extracted(c))
         \/ OpenEntry(c) \/ SaveEntry(c) \/ Answer(c)
         \/ MovesOn(c) \/ Drops(c) \/ DropsLate(c)
<1>0. pc \in [Calls -> PCs] /\ job \in [Calls -> Job] BY DEF TypeOK, CallsOK
<1>a. pc[c] # "idle" => job[c].exit \in {"go"} \cup Quits BY DEF NumbersInv
<1>1. CASE ResolveFat(c)
  <2>1. CASE Return(c, "fat_image_missing")
    BY <1>1, <2>1 DEF ResolveFat, Drops, Quits, file, bounds
  <2>2. CASE Goto(c, IF fat[host] = None THEN "fat" ELSE "extract") /\ UNCHANGED job
    BY <1>0, <1>1, <1>a, <2>2 DEF ResolveFat, Goto, MovesOn, Same, file, bounds
  <2>. QED BY <1>1, <2>1, <2>2 DEF ResolveFat
<1>2. CASE BuildFat(c)
  <2>1. CASE Return(c, "fat_image_missing")
    BY <1>2, <2>1 DEF BuildFat, Drops, Quits, file, bounds
  <2>2. CASE Goto(c, "extract") /\ UNCHANGED job
    BY <1>0, <1>2, <1>a, <2>2 DEF BuildFat, Goto, MovesOn, Same, file, bounds
  <2>. QED BY <1>2, <2>1, <2>2 DEF BuildFat
<1>3. CASE Extract(c)
  <2>1. CASE \E x \in Quits : Return(c, x) BY <1>3, <2>1 DEF Extract, Drops, file, bounds
  <2>2. CASE Extracted(c) BY <1>3, <2>2
  <2>. QED BY <1>3, <2>1, <2>2 DEF Extract, Quits
<1>4. CASE BuildThin(c)
  <2>0. pc[c] = "thin" /\ UNCHANGED <<entry, calls, overlaps, logged>>
    BY <1>4 DEF BuildThin, file, bounds
  <2>1. CASE Finally(c, "go") BY <2>0, <2>1, FinallyIs DEF MovesOn
  <2>2. CASE job' = [job EXCEPT ![c].todo = Tail(@)] /\ UNCHANGED pc
    BY <1>a, <2>0, <2>2, LoopIs DEF MovesOn
  <2>3. CASE job' = [job EXCEPT ![c].todo = KindsOf(job[c].doc)] /\ Goto(c, "test")
    BY <1>0, <1>a, <2>0, <2>3, LoopIs DEF MovesOn, Goto
  <2>. QED BY <1>4, <2>1, <2>2, <2>3 DEF BuildThin
<1>5. CASE BuildThinFails(c)
  BY <1>5, FinallyIs DEF BuildThinFails, MovesOn, Quits, file, bounds
<1>6. CASE RunTest(c)
  <2>1. pc[c] = "test" /\ UNCHANGED <<entry, calls, overlaps, logged>>
    BY <1>6 DEF RunTest, file, bounds
  <2>2. PICK r \in {"pass", "fail"} : Tested(c, r, {thin[host][Current(c)]})
    BY <1>6 DEF RunTest
  <2>. QED BY <1>a, <2>1, <2>2, TestedIs DEF MovesOn
<1>7. CASE RunNothing(c)
  BY <1>7, <1>a, TestedIs DEF RunNothing, MovesOn, file
<1>8. CASE TestTimesOut(c)
  BY <1>8, FinallyIs DEF TestTimesOut, MovesOn, Quits, file
<1>9. CASE Clean(c)
  <2>0. pc[c] = "clean" /\ UNCHANGED <<entry, calls, overlaps, logged>>
    BY <1>9 DEF Clean, file
  <2>1. CASE job[c].exit # "go" /\ Return(c, job[c].exit) BY <1>a, <2>0, <2>1 DEF Drops
  <2>2. CASE job' = [job EXCEPT ![c].todo = Tail(@)] /\ UNCHANGED pc
    BY <1>a, <2>0, <2>2, LoopIs DEF MovesOn
  <2>3. CASE job' = [job EXCEPT ![c].todo = <<>>] /\ Goto(c, "open")
    BY <1>0, <1>a, <2>0, <2>3, LoopIs DEF MovesOn, Goto
  <2>. QED BY <1>9, <2>1, <2>2, <2>3 DEF Clean
<1>10. CASE Interrupt(c)
  <2>0. pc[c] # "idle" /\ UNCHANGED <<entry, calls, overlaps, logged>>
    BY <1>10 DEF Interrupt
  <2>1. CASE pc[c] \in {"thin", "test"} /\ Finally(c, "raised")
    BY <2>0, <2>1, FinallyIs DEF MovesOn, Quits
  <2>2. CASE Return(c, "raised") BY <2>0, <2>2 DEF Drops, DropsLate, Quits
  <2>. QED BY <1>10, <2>1, <2>2 DEF Interrupt
<1>11. CASE Crash(c) BY <1>11 DEF Crash, Drops, DropsLate, Quits
<1>. QED BY <1>1, <1>2, <1>3, <1>4, <1>5, <1>6, <1>7, <1>8, <1>9, <1>10, <1>11 DEF Step

LEMMA NumbersMove ==
  ASSUME TypeOK, NumbersInv, NEW c \in Calls, Step(c),
         \/ job'[c].call = job[c].call /\ calls' = calls
         \/ job'[c].call = calls' /\ calls' = calls + 1,
         pc'[c] # "idle" => job'[c].exit \in {"go"} \cup Quits
  PROVE  NumbersInv'
<1>1. calls \in Nat /\ calls' \in Nat /\ calls <= calls' BY DEF TypeOK, BoundsOK
<1>2. \A d \in Calls : job[d].call \in Nat BY DEF TypeOK, CallsOK, Job
<1>3. \A d \in Calls \ {c} : pc'[d] = pc[d] /\ job'[d].call = job[d].call /\ job'[d].exit = job[d].exit
  BY OthersFields
<1>4. \A d \in Calls : job'[d].call <= calls' BY <1>1, <1>2, <1>3 DEF NumbersInv
<1>5. \A d \in Calls : pc'[d] # "idle" => job'[d].exit \in {"go"} \cup Quits
  BY <1>3 DEF NumbersInv
<1>6. ASSUME NEW d \in Calls, NEW e \in Calls, job'[d].call = job'[e].call, job'[d].call # 0
      PROVE  d = e
  <2>1. ASSUME job'[c].call = calls + 1, NEW f \in Calls \ {c} PROVE job'[f].call # job'[c].call
    BY <1>1, <1>2, <1>3, <2>1 DEF NumbersInv
  <2>. QED BY <1>3, <1>6, <2>1 DEF NumbersInv
<1>. QED BY <1>4, <1>5, <1>6 DEF NumbersInv

LEMMA StepNumbers ==
  ASSUME TypeOK, NumbersInv, NEW c \in Calls, Step(c)
  PROVE  NumbersInv'
<1>0. pc \in [Calls -> PCs] /\ job \in [Calls -> Job] BY DEF TypeOK, CallsOK
<1>1. pc[c] # "idle" => job[c].exit \in {"go"} \cup Quits BY DEF NumbersInv
<1>2. CASE Read(c)
  <2>1. PICK f \in Flags : Begin(c, f) BY <1>2 DEF Read
  <2>2. job'[c] = [Ended(calls', "go") EXCEPT !.doc = entry, !.flags = f, !.alone = Idle]
    BY <2>1 DEF Begin
  <2>3. job'[c].call = calls' /\ job'[c].exit = "go" BY <2>2 DEF Ended
  <2>. QED BY <2>1, <2>3, NumbersMove DEF Begin
<1>3. CASE ReadInVain(c)
  <2>1. \E x : job'[c] = Ended(calls', x) BY <1>0, <1>3 DEF ReadInVain
  <2>2. job'[c].call = calls' BY <2>1 DEF Ended
  <2>3. pc'[c] = "idle" /\ calls' = calls + 1 BY <1>3 DEF ReadInVain
  <2>. QED BY <2>2, <2>3, NumbersMove
<1>4. CASE Extract(c) /\ Extracted(c)
  <2>1. job'[c].call = job[c].call /\ job'[c].exit = job[c].exit
    BY <1>0, <1>4 DEF Extracted, Job
  <2>2. calls' = calls /\ pc[c] # "idle" BY <1>4 DEF Extract, bounds
  <2>. QED BY <1>1, <2>1, <2>2, NumbersMove
<1>5. CASE OpenEntry(c)
  <2>1. job'[c].call = job[c].call /\ job'[c].exit = job[c].exit
    BY <1>0, <1>5 DEF OpenEntry, Job
  <2>2. calls' = calls /\ pc[c] # "idle" BY <1>5 DEF OpenEntry, bounds
  <2>. QED BY <1>1, <2>1, <2>2, NumbersMove
<1>6. ASSUME NEW x, Return(c, x), calls' = calls PROVE NumbersInv'
  <2>1. pc'[c] = "idle" /\ job'[c] = Ended(job[c].call, x) BY <1>6, ReturnIs
  <2>2. job'[c].call = job[c].call BY <2>1 DEF Ended
  <2>. QED BY <1>6, <2>1, <2>2, NumbersMove
<1>7. CASE SaveEntry(c) BY <1>1, <1>7, NumbersMove DEF SaveEntry, bounds
<1>8. CASE MovesOn(c) BY <1>8, NumbersMove DEF MovesOn, Same
<1>9. CASE Drops(c) BY <1>6, <1>9 DEF Drops
<1>10. CASE DropsLate(c) BY <1>6, <1>10 DEF DropsLate
<1>11. CASE Answer(c) BY <1>6, <1>11 DEF Answer, bounds
<1>. QED BY <1>2, <1>3, <1>4, <1>5, <1>7, <1>8, <1>9, <1>10, <1>11, FileStep

\* What the exits say depends on the call's number and exit, and on the file.
LEMMA ToldStays ==
  ASSUME NEW d \in Calls, Told(job[d]), entry' = entry,
         job'[d].call = job[d].call, job'[d].exit = job[d].exit
  PROVE  Told(job[d])'
<1>1. Of(job[d].call)' = Of(job[d].call) BY DEF Of, Records
<1>. QED BY <1>1 DEF Told

\* The one call under way goes on, and leaves the file's last whole text.
LEMMA FileMoves ==
  ASSUME TypeOK, FileInv, NEW c \in Calls, Step(c), ~overlaps, pc[c] # "idle",
         UNCHANGED <<entry, calls, logged>>,
         pc'[c] # "exit", pc'[c] # "idle" => AsRead(c)',
         entry.category # "unreproducible" /\ pc'[c] = "idle" => Told(job[c])'
  PROVE  FileInv'
<1>1. ASSUME NEW d \in Calls \ {c}
      PROVE  /\ pc'[d] = "idle" /\ pc[d] = "idle"
             /\ job'[d].call = job[d].call /\ job'[d].exit = job[d].exit
  BY OthersFields DEF FileInv
<1>2. Records' = Records BY DEF Records
<1>3. \A d, e \in Calls : pc'[d] # "idle" /\ pc'[e] # "idle" => d = e BY <1>1
<1>4. \A d \in Calls : pc'[d] # "idle" => pc'[d] # "exit" /\ AsRead(d)' BY <1>1
<1>5. (\A r \in Records' : r.call <= calls') /\ {r.call : r \in Records'} = logged'
  BY <1>2 DEF FileInv
<1>6. ASSUME entry.category # "unreproducible", NEW d \in Calls, pc'[d] = "idle", job'[d].call > 0
      PROVE  Told(job[d])'
  <2>1. CASE d = c BY <1>6, <2>1
  <2>2. CASE d # c BY <1>1, <1>6, <2>2, ToldStays DEF FileInv
  <2>. QED BY <2>1, <2>2
<1>. QED BY <1>3, <1>4, <1>5, <1>6 DEF FileInv

LEMMA ReadFile ==
  ASSUME TypeOK, NumbersInv, FileInv, NEW c \in Calls, Read(c) PROVE FileInv'
<1>. SUFFICES ASSUME ~overlaps' PROVE FileInv' BY DEF FileInv
<1>0. Step(c) /\ entry' = entry /\ logged' = logged BY DEF Step, Read, file
<1>1. PICK f \in Flags : Begin(c, f) BY DEF Read
<1>2. Idle /\ ~overlaps /\ calls' = calls + 1 BY <1>1 DEF Begin
<1>3. job'[c] = [Ended(calls', "go") EXCEPT !.doc = entry, !.flags = f, !.alone = Idle]
  BY <1>1 DEF Begin
<1>4. job'[c].doc = entry /\ job'[c].call = calls' BY <1>3 DEF Ended
<1>5. pc'[c] = "resolve" BY DEF Read, Goto, TypeOK, CallsOK
<1>6. ASSUME NEW d \in Calls \ {c}
      PROVE  /\ pc'[d] = "idle" /\ pc[d] = "idle"
             /\ job'[d].call = job[d].call /\ job'[d].exit = job[d].exit
  BY <1>0, <1>2, OthersFields DEF Idle
<1>7. /\ \A r \in Records : r.call <= calls
      /\ {r.call : r \in Records} = logged
      /\ Records' = Records
  BY <1>0, <1>2 DEF FileInv, Records
<1>8. calls \in Nat /\ \A r \in Records : r.call \in Nat
  <2>1. entry.verified \in Seq(Record) BY DEF TypeOK, FileOK, Entry
  <2>2. \A i \in DOMAIN entry.verified : entry.verified[i] \in Record BY <2>1, ElementOfSeq
  <2>. QED BY <2>2 DEF Records, Range, Record, TypeOK, BoundsOK
<1>9. AsRead(c)'
  <2>1. entry.category # "unreproducible" BY DEF Read
  <2>2. \A r \in Records : r.call # job'[c].call BY <1>2, <1>4, <1>7, <1>8
  <2>. QED BY <1>0, <1>4, <1>5, <1>7, <2>1, <2>2 DEF AsRead
<1>10. \A r \in Records' : r.call <= calls' BY <1>2, <1>7, <1>8
<1>11. ASSUME entry.category # "unreproducible", NEW d \in Calls, pc'[d] = "idle", job'[d].call > 0
       PROVE  Told(job[d])'
  <2>1. d # c BY <1>5, <1>11
  <2>. QED BY <1>0, <1>2, <1>6, <1>11, <2>1, ToldStays DEF FileInv
<1>12. \A d \in Calls : pc'[d] # "idle" => pc'[d] # "exit" /\ AsRead(d)' BY <1>5, <1>6, <1>9
<1>13. \A d, e \in Calls : pc'[d] # "idle" /\ pc'[e] # "idle" => d = e BY <1>6
<1>. QED BY <1>0, <1>7, <1>10, <1>11, <1>12, <1>13 DEF FileInv

LEMMA ReadInVainFile ==
  ASSUME TypeOK, NumbersInv, FileInv, NEW c \in Calls, ReadInVain(c) PROVE FileInv'
<1>. SUFFICES ASSUME ~overlaps' PROVE FileInv' BY DEF FileInv
<1>0. /\ Step(c) /\ UNCHANGED <<entry, content, logged, overlaps, pc>> /\ calls' = calls + 1
      /\ pc[c] = "idle" /\ (content # "whole" \/ entry.category = "unreproducible")
  BY DEF Step, ReadInVain, file
<1>1. job'[c] = Ended(calls', IF content = "whole" THEN "ok" ELSE "raised")
  BY DEF ReadInVain, TypeOK, CallsOK
<1>2. /\ job'[c].call = calls'
      /\ job'[c].exit = IF content = "whole" THEN "ok" ELSE "raised"
  BY <1>1 DEF Ended
<1>3. pc[c] = "idle" BY DEF ReadInVain
<1>4. \A d \in Calls \ {c} : job'[d] = job[d] BY <1>0 DEF ReadInVain
<1>5. /\ \A r \in Records : r.call <= calls
      /\ {r.call : r \in Records} = logged
      /\ Records' = Records
  BY <1>0 DEF FileInv, Records
<1>6. calls \in Nat /\ \A r \in Records : r.call \in Nat
  <2>1. entry.verified \in Seq(Record) BY DEF TypeOK, FileOK, Entry
  <2>2. \A i \in DOMAIN entry.verified : entry.verified[i] \in Record BY <2>1, ElementOfSeq
  <2>. QED BY <2>2 DEF Records, Range, Record, TypeOK, BoundsOK
<1>7. ASSUME NEW d \in Calls, pc'[d] # "idle"
      PROVE  IF pc'[d] = "exit" THEN Written(d)' ELSE AsRead(d)'
  <2>1. d # c /\ job'[d] = job[d] /\ pc'[d] = pc[d] BY <1>0, <1>3, <1>4, <1>7
  <2>2. IF pc[d] = "exit" THEN Written(d) ELSE AsRead(d) BY <1>0, <1>7 DEF FileInv
  <2>. QED BY <1>0, <1>5, <2>1, <2>2 DEF AsRead, Written, Of
<1>8. \A r \in Records' : r.call <= calls' BY <1>0, <1>5, <1>6
<1>9. ASSUME entry.category # "unreproducible", NEW d \in Calls, pc'[d] = "idle", job'[d].call > 0
      PROVE  Told(job[d])'
  <2>1. CASE d = c
    <3>1. job'[c].exit = "raised" BY <1>0, <1>2, <1>9 DEF ReadInVain
    <3>2. \A r \in Records' : r.call # job'[c].call BY <1>0, <1>2, <1>5, <1>6
    <3>3. Of(job[c].call)' = {} BY <3>2 DEF Of
    <3>. QED BY <2>1, <3>1, <3>3 DEF Told, Outcomes
  <2>2. CASE d # c BY <1>0, <1>4, <1>9, <2>2, ToldStays DEF FileInv
  <2>. QED BY <2>1, <2>2
<1>. QED BY <1>0, <1>5, <1>7, <1>8, <1>9 DEF FileInv

LEMMA SaveFile ==
  ASSUME TypeOK, NumbersInv, FileInv, NEW c \in Calls, SaveEntry(c) PROVE FileInv'
<1>. SUFFICES ASSUME ~overlaps' PROVE FileInv' BY DEF FileInv
<1>0. /\ Step(c) /\ pc[c] = "save" /\ ~overlaps /\ calls' = calls /\ job' = job
      /\ pc'[c] = "exit"
  BY DEF Step, SaveEntry, bounds, Goto, TypeOK, CallsOK
<1>. DEFINE j == job[c]
<1>1. AsRead(c) BY <1>0 DEF FileInv
<1>2. entry' = j.doc /\ logged' = logged \cup {j.call} BY <1>0, <1>1 DEF SaveEntry, AsRead
<1>3. PICK r \in Record :
        j.doc.verified = Append(entry.verified, r) /\ r.call = j.call /\ r.outcome = j.outcome
  BY <1>0, <1>1 DEF AsRead
<1>4. entry.verified \in Seq(Record) BY DEF TypeOK, FileOK, Entry
<1>5. Records' = Records \cup {r} BY <1>2, <1>3, <1>4, RangeAppend DEF Records
<1>6. ASSUME NEW d \in Calls \ {c} PROVE pc'[d] = "idle" /\ pc[d] = "idle"
  BY <1>0, OthersFields DEF FileInv
<1>7. {q.call : q \in Records'} = logged' BY <1>0, <1>2, <1>3, <1>5 DEF FileInv
<1>8. \A q \in Records' : q.call <= calls' BY <1>0, <1>3, <1>5 DEF FileInv, NumbersInv
<1>9. entry'.category = entry.category BY <1>1, <1>2 DEF AsRead
<1>10. Written(c)' BY <1>0, <1>1, <1>3, <1>5 DEF Written, Of, AsRead
<1>11. ASSUME entry.category # "unreproducible", NEW d \in Calls, pc'[d] = "idle", job'[d].call > 0
       PROVE  Told(job[d])'
  <2>0. d # c BY <1>0, <1>11
  <2>1. Told(job[d]) /\ job[d].call > 0 BY <1>0, <1>6, <1>11, <2>0 DEF FileInv
  <2>2. job[d].call # j.call
    <3>1. job[d].call \in Nat BY DEF TypeOK, CallsOK, Job
    <3>. QED BY <2>0, <2>1, <3>1 DEF NumbersInv
  <2>3. Of(job[d].call)' = Of(job[d].call) BY <1>0, <1>3, <1>5, <2>2 DEF Of
  <2>. QED BY <1>0, <2>1, <2>3 DEF Told
<1>12. \A d \in Calls : pc'[d] # "idle" => d = c BY <1>6
<1>. QED BY <1>0, <1>7, <1>8, <1>9, <1>10, <1>11, <1>12 DEF FileInv

\* A call ends after it has written its record, with its outcome or without.
LEMMA EndsWritten ==
  ASSUME TypeOK, FileInv, NEW c \in Calls, Step(c), ~overlaps, pc[c] = "exit",
         UNCHANGED <<entry, calls, logged>>, NEW x, Return(c, x),
         \/ x \in {"raised", "killed"}
         \/ x = IF job[c].outcome = "mismatch" THEN "outcome_mismatch" ELSE "ok"
  PROVE  FileInv'
<1>1. pc'[c] = "idle" /\ job'[c] = Ended(job[c].call, x) BY ReturnIs
<1>2. job'[c].call = job[c].call /\ job'[c].exit = x BY <1>1 DEF Ended
<1>3. job[c].outcome \in Outcomes BY DEF TypeOK, CallsOK, Job
<1>4. Of(job[c].call)' = {job[c].outcome} BY <1>2 DEF FileInv, Written, Of, Records
<1>5. Told(job[c])'
  <2>1. CASE x \in {"raised", "killed"} BY <1>2, <1>3, <1>4, <2>1 DEF Told
  <2>2. CASE x = "ok" /\ job[c].outcome # "mismatch"
    BY <1>2, <1>3, <1>4, <2>2 DEF Told, Outcomes
  <2>3. CASE x = "outcome_mismatch" /\ job[c].outcome = "mismatch"
    BY <1>2, <1>4, <2>3 DEF Told
  <2>. QED BY <2>1, <2>2, <2>3
<1>. QED BY <1>1, <1>5, FileMoves

LEMMA StepFile ==
  ASSUME TypeOK, NumbersInv, FileInv, NEW c \in Calls, Step(c)
  PROVE  FileInv'
<1>0. pc \in [Calls -> PCs] /\ job \in [Calls -> Job] BY DEF TypeOK, CallsOK
<1>. SUFFICES ASSUME ~overlaps' PROVE FileInv' BY DEF FileInv
<1>1. CASE Extract(c) /\ Extracted(c)
  <2>1. pc[c] = "extract" /\ UNCHANGED <<entry, content, calls, overlaps, logged>>
    BY <1>1 DEF Extract, file, bounds
  <2>2. AsRead(c) BY <2>1 DEF FileInv
  <2>. DEFINE doc == [job[c].doc EXCEPT !.prints[PlatformOf[host]] = fat[host]]
  <2>3. job'[c].doc = doc /\ job'[c].call = job[c].call /\ pc'[c] = "thin"
    BY <1>0, <1>1 DEF Extracted, Goto, Job
  <2>4. job[c].doc.prints[PlatformOf[host]] \in {None, fat[host]}
    BY <1>0, <1>1, <2>3 DEF Extract, Return, Goto
  <2>5. job[c].doc \in Entry BY <1>0 DEF Job
  <2>6. /\ doc.category = job[c].doc.category /\ doc.verified = job[c].doc.verified
        /\ doc.prints = [job[c].doc.prints EXCEPT ![PlatformOf[host]] = fat[host]]
    BY <2>5 DEF Entry
  <2>. HIDE DEF doc
  <2>7. \A p \in Platforms : entry.prints[p] # None => doc.prints[p] = entry.prints[p]
    BY <2>2, <2>4, <2>5, <2>6 DEF AsRead, Entry
  <2>8. AsRead(c)' BY <2>1, <2>2, <2>3, <2>6, <2>7 DEF AsRead, Records
  <2>. QED BY <1>1, <2>1, <2>3, <2>8, FileMoves
<1>2. CASE OpenEntry(c)
  <2>1. /\ pc[c] = "open" /\ UNCHANGED <<entry, calls, overlaps, logged>>
        /\ content' = "empty" /\ pc'[c] = "save"
    BY <1>0, <1>2 DEF OpenEntry, bounds, Goto
  <2>2. AsRead(c) BY <2>1 DEF FileInv
  <2>. DEFINE r == RecordOf(job[c])
              doc == [job[c].doc EXCEPT !.verified = Append(@, r)]
  <2>3. /\ job'[c].doc = doc /\ job'[c].call = job[c].call
        /\ job'[c].outcome = job[c].outcome
    BY <1>0, <1>2 DEF OpenEntry, Job
  <2>4. r \in Record /\ r.call = job[c].call /\ r.outcome = job[c].outcome
    <3>a. Fits("open", job[c]) /\ job[c] \in Job BY <1>0, <2>1 DEF TypeOK
    <3>b. job[c].call \in 0..MaxCalls /\ job[c].digest \in Digests \cup {None}
      BY <3>a DEF Job
    <3>1. job[c].call \in 1..MaxCalls /\ job[c].digest \in Digests
      BY <3>a, <3>b, RegenerateAssumption DEF Fits
    <3>2. job[c] \in Job /\ PlatformOf[host] \in Platforms
      BY <1>0 DEF TypeOK, ImagesOK, Platforms
    <3>. QED BY <3>1, <3>2 DEF RecordOf, Record, Job
  <2>5. job[c].doc \in Entry BY <1>0 DEF Job
  <2>. HIDE DEF r
  <2>6. /\ doc.category = job[c].doc.category /\ doc.prints = job[c].doc.prints
        /\ doc.verified = Append(job[c].doc.verified, r)
    BY <2>5 DEF Entry
  <2>. HIDE DEF doc
  <2>7. AsRead(c)' BY <2>1, <2>2, <2>3, <2>4, <2>6 DEF AsRead, Records
  <2>. QED BY <1>2, <2>1, <2>7, FileMoves
<1>3. CASE MovesOn(c)
  <2>1. /\ pc[c] \notin {"idle", "save", "exit"} /\ pc'[c] \notin {"idle", "save", "exit"}
        /\ UNCHANGED <<entry, calls, overlaps, logged>>
        /\ job'[c].doc = job[c].doc /\ job'[c].call = job[c].call
    BY <1>3 DEF MovesOn, Same
  <2>2. AsRead(c) BY <2>1 DEF FileInv
  <2>3. AsRead(c)' BY <2>1, <2>2 DEF AsRead, Records
  <2>. QED BY <2>1, <2>3, FileMoves
<1>4. CASE Drops(c)
  <2>1. PICK x \in Quits : Return(c, x) BY <1>4 DEF Drops
  <2>2. pc[c] \notin {"idle", "exit"} /\ UNCHANGED <<entry, calls, overlaps, logged>>
    BY <1>4 DEF Drops
  <2>3. pc'[c] = "idle" /\ job'[c] = Ended(job[c].call, x) BY <2>1, ReturnIs
  <2>4. job'[c].call = job[c].call /\ job'[c].exit = x BY <2>3 DEF Ended
  <2>5. AsRead(c) BY <2>2 DEF FileInv
  <2>6. Of(job[c].call)' = {} BY <2>2, <2>4, <2>5 DEF Of, Records, AsRead
  <2>7. Told(job[c])' BY <2>4, <2>6 DEF Told, Quits, Outcomes
  <2>. QED BY <2>2, <2>3, <2>7, FileMoves
<1>5. CASE DropsLate(c) BY <1>5, EndsWritten DEF DropsLate
<1>6. CASE Answer(c) BY <1>6, EndsWritten DEF Answer, file, bounds
<1>. QED BY <1>1, <1>2, <1>3, <1>4, <1>5, <1>6, FileStep, ReadFile, ReadInVainFile, SaveFile

\* The entry changes hands only when a call saves its copy.
LEMMA StepPrints ==
  ASSUME TypeOK, NumbersInv, FileInv, NEW c \in Calls, Step(c), ~overlaps',
         NEW p \in Platforms, entry.prints[p] # None
  PROVE  entry'.prints[p] = entry.prints[p]
<1>1. CASE entry' = entry BY <1>1
<1>2. CASE SaveEntry(c)
  <2>1. pc[c] = "save" /\ ~overlaps BY <1>2 DEF SaveEntry
  <2>2. AsRead(c) BY <2>1 DEF FileInv
  <2>3. entry' = job[c].doc BY <1>2, <2>1, <2>2 DEF SaveEntry, AsRead
  <2>. QED BY <2>2, <2>3 DEF AsRead
<1>. QED BY <1>1, <1>2, FileStep
     DEF Read, ReadInVain, Extract, OpenEntry, Answer, MovesOn, Drops, DropsLate, file

THEOREM InitFile == Init => NumbersInv /\ FileInv
<1>. SUFFICES ASSUME Init PROVE NumbersInv /\ FileInv OBVIOUS
<1>1. \A c \in Calls : pc[c] = "idle" /\ job[c].call = 0 BY DEF Init, Ended
<1>2. entry.verified = <<>> /\ DOMAIN <<>> = {} BY DEF Init
<1>3. Records = {} BY <1>2 DEF Records, Range
<1>4. NumbersInv BY <1>1 DEF Init, NumbersInv
<1>5. FileInv BY <1>1, <1>3 DEF Init, FileInv
<1>. QED BY <1>4, <1>5

THEOREM NextFile == TypeOK /\ NumbersInv /\ FileInv /\ [Next]_vars => NumbersInv' /\ FileInv'
<1>. SUFFICES ASSUME TypeOK, NumbersInv, FileInv, [Next]_vars PROVE NumbersInv' /\ FileInv'
  OBVIOUS
<1>1. CASE UNCHANGED <<entry, content, pc, job, calls, overlaps, logged>>
  <2>1. NumbersInv' BY <1>1 DEF NumbersInv
  <2>2. Records' = Records BY <1>1 DEF Records
  <2>3. \A c \in Calls : AsRead(c) => AsRead(c)' BY <1>1, <2>2 DEF AsRead
  <2>4. \A c \in Calls : Told(job[c]) => Told(job[c])' BY <1>1, ToldStays
  <2>5. ASSUME ~overlaps' PROVE
          /\ \A c \in Calls : pc'[c] \notin {"idle", "exit"} => AsRead(c)'
          /\ \A c \in Calls : pc'[c] = "exit" => Written(c)'
          /\ entry'.category # "unreproducible" =>
               \A c \in Calls : pc'[c] = "idle" /\ job'[c].call > 0 => Told(job[c])'
    BY <1>1, <2>2, <2>3, <2>4, <2>5 DEF FileInv, Written, Of
  <2>6. FileInv' BY <1>1, <2>2, <2>5 DEF FileInv
  <2>. QED BY <2>1, <2>6
<1>2. ASSUME NEW c \in Calls, Step(c) PROVE NumbersInv' /\ FileInv'
  BY <1>2, StepNumbers, StepFile
<1>3. CASE RebuildFat
  <2>1. UNCHANGED <<entry, content, calls, overlaps, logged>> BY <1>3 DEF RebuildFat, file
  <2>2. \A c \in Calls : /\ pc'[c] = pc[c] /\ job'[c].doc = job[c].doc
                          /\ job'[c].call = job[c].call /\ job'[c].exit = job[c].exit
                          /\ job'[c].outcome = job[c].outcome
    BY <1>3, RebuildFields
  <2>3. NumbersInv' BY <2>1, <2>2 DEF NumbersInv
  <2>4. Records' = Records BY <2>1 DEF Records
  <2>5. \A c \in Calls : AsRead(c) => AsRead(c)' BY <2>1, <2>2, <2>4 DEF AsRead
  <2>6. \A c \in Calls : Told(job[c]) => Told(job[c])' BY <2>1, <2>2, ToldStays
  <2>7. \A c \in Calls : Written(c) => Written(c)' BY <2>2, <2>4 DEF Written, Of
  <2>8. FileInv' BY <2>1, <2>2, <2>4, <2>5, <2>6, <2>7 DEF FileInv
  <2>. QED BY <2>3, <2>8
<1>. QED BY <1>1, <1>2, <1>3 DEF Next, PruneFat, Carry, vars, file, bounds

THEOREM FileHolds == Spec => [](NumbersInv /\ FileInv)
<1>. QED BY TypeCorrect, InitFile, NextFile, PTL DEF Spec

\* As long as calls do not overlap, no verification written is lost, whatever
\* is interrupted or killed in between.
THEOREM NoVerificationLost == Spec => []VerificationsKept
<1>. QED BY FileHolds, FileInvImplies, PTL

\* As long as calls do not overlap, the exit code of every call tells what it
\* has put into the file; one that raised or was killed, that it is no more than
\* one record.
THEOREM ExitsTell == Spec => []ExitTellsTheFile
<1>. QED BY FileHolds, FileInvImplies, PTL

\* As long as calls do not overlap, no fingerprint is ever replaced.
THEOREM PrintsStay == Spec => PrintsAreFinal
<1>. DEFINE Stays == ~overlaps' =>
       \A p \in Platforms : entry.prints[p] # None => entry'.prints[p] = entry.prints[p]
<1>1. TypeOK /\ NumbersInv /\ FileInv /\ [Next]_vars => [Stays]_vars
  <2>. SUFFICES ASSUME TypeOK, NumbersInv, FileInv, Next PROVE Stays OBVIOUS
  <2>1. CASE UNCHANGED entry BY <2>1
  <2>2. ASSUME NEW c \in Calls, Step(c) PROVE Stays BY <2>2, StepPrints
  <2>. QED BY <2>1, <2>2 DEF Next, PruneFat, RebuildFat, Carry, file
<1>. QED BY <1>1, TypeCorrect, FileHolds, PTL DEF Spec, PrintsAreFinal
-----------------------------------------------------------------------------
(* The thin images, however calls overlap *)

AllOf(j) == Range(KindsOf(j.doc))
Left(j) == Range(j.todo)
InTry == {"thin", "test", "clean"}

\* A loop goes through kinds of the entry; no test has run before the first.
Ready(p, j) ==
  /\ p \in InTry => Left(j) \subseteq AllOf(j)
  /\ p \in {"resolve", "fat", "extract"} => j.bases = {}

(***************************************************************************)
(* What a call that is alone knows of the images under the tags it uses:   *)
(* the fat image is the one it fingerprinted, or gone, and so are the thin *)
(* images it has built, whatever the tags named before.                    *)
(***************************************************************************)
Fresh(p, j) ==
  /\ j.bases \subseteq {j.digest}
  /\ p = "thin" =>
       /\ fat[host] \in {None, j.digest}
       /\ \A k \in AllOf(j) \ Left(j) : thin[host][k] = j.digest
  /\ p = "test" => \A k \in AllOf(j) : thin[host][k] = j.digest

Pure(r) == r.alone => r.bases \subseteq {r.digest}
PureEntry(e) == \A r \in Range(e.verified) : Pure(r)
PureCall(c) ==
  /\ PureEntry(job[c].doc)
  /\ Ready(pc[c], job[c])
  /\ pc[c] # "idle" /\ job[c].alone =>
       /\ \A d \in Calls : d # c => pc[d] = "idle"
       /\ Fresh(pc[c], job[c])
PureInv == PureEntry(entry) /\ \A c \in Calls : PureCall(c)

\* A call at p with job j has built the image of kind k, and its finally clause
\* will remove it.
Owes(p, j, k) ==
  \/ p = "thin" /\ k \in AllOf(j) \ Left(j)
  \/ p = "test" /\ k \in AllOf(j)
  \/ p = "clean" /\ k \in Left(j)

\* Every kind comes once in a loop, so that what is left has not been built.
Once(c) == pc[c] \in InTry => IsInjective(job[c].todo)
OnceInv == \A c \in Calls : Once(c)

\* A thin image on a host that is not leaky is owed by a call under way there.
OwedInv ==
  \A h \in Hosts \ leaky : \A k \in Kinds :
    thin[h][k] # None => h = host /\ \E c \in Calls : Owes(pc[c], job[c], k)

\* A call that does not overlap builds over no other image.
KeptInv == ~overlaps => \A h \in Hosts \ leaky : kept[h] \subseteq cut[h]

LEMMA PureImplies == PureInv => TestedWhatWasFingerprinted
BY DEF PureInv, PureEntry, Pure, TestedWhatWasFingerprinted

LEMMA OwedImplies == TypeOK /\ OwedInv /\ KeptInv => ThinsRemoved
<1>. SUFFICES ASSUME TypeOK, OwedInv, KeptInv, NEW h \in Hosts \ leaky, h = host => Idle, NEW k \in Kinds,
                     thin[h][k] # None
              PROVE  FALSE
  BY DEF ThinsRemoved, KeptInv
<1>1. PICK c \in Calls : h = host /\ Owes(pc[c], job[c], k) BY DEF OwedInv
<1>. QED BY <1>1 DEF Owes, Idle

LEMMA UnreadPure == PureEntry(Unread)
<1>1. Unread.verified = <<>> /\ DOMAIN <<>> = {} BY DEF Unread
<1>. QED BY <1>1 DEF PureEntry, Range

\* A call that is alone has the images on its host to itself.
LEMMA OthersPure ==
  ASSUME TypeOK, PureInv, NEW c \in Calls, Step(c), NEW d \in Calls, d # c
  PROVE  PureCall(d)'
<1>1. /\ pc'[d] = pc[d] /\ job'[d].doc = job[d].doc /\ job'[d].todo = job[d].todo
      /\ job'[d].bases = job[d].bases /\ job'[d].digest = job[d].digest
      /\ job'[d].alone => job[d].alone
  BY OthersFields
<1>2. PureCall(d) BY DEF PureInv
<1>3. PureEntry(job'[d].doc) /\ Ready(pc'[d], job'[d])
  BY <1>1, <1>2 DEF PureCall, Ready, Left, AllOf
<1>4. ASSUME pc[d] # "idle", job'[d].alone
      PROVE  (\A e \in Calls : e # d => pc'[e] = "idle") /\ Fresh(pc[d], job[d])'
  <2>1. pc[c] = "idle" BY <1>1, <1>2, <1>4 DEF PureCall
  <2>2. ~Read(c)
    <3>1. ASSUME Read(c) PROVE ~job'[d].alone
      <4>1. PICK f \in Flags : Begin(c, f) BY <3>1 DEF Read
      <4>2. job'[d] = [job[d] EXCEPT !.alone = @ /\ pc[d] = "idle"] BY <4>1 DEF Begin
      <4>3. job[d] \in Job BY DEF TypeOK, CallsOK
      <4>. QED BY <1>4, <4>2, <4>3 DEF Job
    <3>. QED BY <1>4, <3>1
  <2>3. ReadInVain(c)
    BY <2>1, <2>2 DEF Step, ResolveFat, BuildFat, Extract, BuildThin, BuildThinFails,
       RunTest, RunNothing, TestTimesOut, Clean, OpenEntry, SaveEntry, Answer, Interrupt, Crash
  <2>4. pc' = pc /\ UNCHANGED <<fat, thin, host>> BY <2>3 DEF ReadInVain, images
  <2>. QED BY <1>1, <1>2, <1>4, <2>4 DEF PureCall, Fresh, AllOf, Left
<1>. QED BY <1>1, <1>3, <1>4 DEF PureCall

\* A call alone stays alone until it ends.
LEMMA StaysAlone ==
  ASSUME TypeOK, PureInv, NEW c \in Calls, Step(c), pc[c] # "idle", job[c].alone
  PROVE  (\A d \in Calls : d # c => pc'[d] = "idle") /\ Fresh(pc[c], job[c])
BY OthersFields DEF PureInv, PureCall

LEMMA DropsPure ==
  ASSUME TypeOK, NEW c \in Calls, NEW x, Return(c, x) PROVE PureCall(c)'
<1>1. pc'[c] = "idle" /\ job'[c] = Ended(job[c].call, x) BY ReturnIs
<1>2. job'[c].doc = Unread BY <1>1 DEF Ended
<1>. QED BY <1>1, <1>2, UnreadPure DEF PureCall, Ready, InTry

LEMMA FinallyPure ==
  ASSUME TypeOK, PureInv, NEW c \in Calls, Step(c), NEW x, pc[c] # "idle", Finally(c, x)
  PROVE  PureCall(c)'
<1>1. /\ pc'[c] = "clean" /\ Same(c) /\ job'[c].todo = KindsOf(job[c].doc)
      /\ job'[c].bases = job[c].bases
  BY FinallyIs
<1>2. PureCall(c) BY DEF PureInv
<1>3. PureEntry(job'[c].doc) /\ Ready(pc'[c], job'[c])
  BY <1>1, <1>2 DEF PureCall, Ready, InTry, Left, AllOf, Same
<1>4. job'[c].alone => (\A d \in Calls : d # c => pc'[d] = "idle") /\ Fresh(pc[c], job[c])'
  BY <1>1, StaysAlone DEF Same, Fresh
<1>. QED BY <1>3, <1>4 DEF PureCall

LEMMA TestedPure ==
  ASSUME TypeOK, PureInv, NEW c \in Calls, Step(c), pc[c] = "test", NEW r, NEW b, Tested(c, r, b),
         UNCHANGED <<thin, host>>,
         job[c].alone => b \subseteq {thin[host][Current(c)]} \ {None}
  PROVE  PureCall(c)'
<1>1. /\ Same(c) /\ job'[c].bases = job[c].bases \cup b
      /\ \/ pc'[c] = "test" /\ Len(job[c].todo) > 1 /\ job'[c].todo = Tail(job[c].todo)
         \/ pc'[c] = "clean" /\ job'[c].todo = KindsOf(job[c].doc)
  BY TestedIs
<1>2. PureCall(c) BY DEF PureInv
<1>3. job[c].todo \in Seq(Kinds) /\ job[c].todo # <<>>
  BY DEF TypeOK, CallsOK, Job, Fits
<1>4. Current(c) \in Left(job[c]) /\ Range(Tail(job[c].todo)) \subseteq Left(job[c])
  BY <1>3, HeadAndTail DEF Current, Left
<1>5. PureEntry(job'[c].doc) /\ Ready(pc'[c], job'[c])
  BY <1>1, <1>2, <1>4 DEF PureCall, Ready, InTry, Left, AllOf, Same
<1>6. ASSUME job'[c].alone
      PROVE  (\A d \in Calls : d # c => pc'[d] = "idle") /\ Fresh(pc[c], job[c])'
  <2>1. job[c].alone BY <1>1, <1>6 DEF Same
  <2>2. (\A d \in Calls : d # c => pc'[d] = "idle") /\ Fresh(pc[c], job[c])
    BY <2>1, StaysAlone
  <2>3. Current(c) \in AllOf(job[c]) BY <1>2, <1>4 DEF PureCall, Ready, InTry
  <2>4. b \subseteq {job[c].digest} BY <2>1, <2>2, <2>3 DEF Fresh
  <2>. QED BY <1>1, <2>2, <2>4 DEF Fresh, Same, AllOf
<1>. QED BY <1>5, <1>6 DEF PureCall

\* What c has in hand and the images stay as they were.
LEMMA StillPure ==
  ASSUME TypeOK, PureInv, NEW c \in Calls, Step(c), pc[c] # "idle", Same(c),
         job'[c].bases = job[c].bases, UNCHANGED <<fat, thin, host>>,
         Ready(pc'[c], job'[c]), pc'[c] \notin {"thin", "test"}
  PROVE  PureCall(c)'
<1>1. PureEntry(job'[c].doc) BY DEF PureInv, PureCall, Same
<1>2. job'[c].alone => (\A d \in Calls : d # c => pc'[d] = "idle") /\ Fresh(pc[c], job[c])'
  BY StaysAlone DEF Same, Fresh
<1>. QED BY <1>1, <1>2 DEF PureCall

LEMMA BuildThinPure ==
  ASSUME TypeOK, PureInv, NEW c \in Calls, BuildThin(c) PROVE PureCall(c)'
<1>0. pc \in [Calls -> PCs] /\ job \in [Calls -> Job] BY DEF TypeOK, CallsOK
<1>1. /\ Step(c) /\ pc[c] = "thin" /\ UNCHANGED <<fat, host>> /\ fat[host] # None
      /\ thin' = [thin EXCEPT ![host][Current(c)] = fat[host]]
  BY DEF Step, BuildThin
<1>2. PureCall(c) BY DEF PureInv
<1>3. job[c].todo \in Seq(Kinds) /\ job[c].todo # <<>> BY <1>0, <1>1 DEF TypeOK, Job, Fits
<1>4. /\ Current(c) \in Kinds /\ Left(job[c]) = {Current(c)} \cup Range(Tail(job[c].todo))
      /\ ~(Len(job[c].todo) > 1) => Left(job[c]) = {Current(c)}
  BY <1>3, HeadAndTail DEF Current, Left
<1>5. /\ thin'[host][Current(c)] = fat[host]
      /\ \A k \in Kinds \ {Current(c)} : thin'[host][k] = thin[host][k]
  BY <1>1, <1>4 DEF TypeOK, ImagesOK
<1>6. AllOf(job[c]) \subseteq Kinds
  <2>1. job[c].doc \in Entry BY <1>0 DEF Job
  <2>2. KindsOf(job[c].doc) \in Seq(Kinds) BY <2>1, KindsOfType
  <2>3. \A i \in DOMAIN KindsOf(job[c].doc) : KindsOf(job[c].doc)[i] \in Kinds
    BY <2>2, ElementOfSeq
  <2>. QED BY <2>3 DEF AllOf, Range
<1>7. job[c].alone => (\A d \in Calls : d # c => pc'[d] = "idle") /\ Fresh(pc[c], job[c])
  BY <1>1, StaysAlone
\* Every kind that is not left after this round has been built.
<1>8. job[c].alone => \A k \in AllOf(job[c]) \ Range(Tail(job[c].todo)) : thin'[host][k] = job[c].digest
  BY <1>1, <1>4, <1>5, <1>6, <1>7 DEF Fresh
<1>9. CASE Len(job[c].todo) > 1 /\ job' = [job EXCEPT ![c].todo = Tail(@)] /\ UNCHANGED pc
  <2>1. /\ Same(c) /\ job'[c].todo = Tail(job[c].todo) /\ job'[c].bases = job[c].bases
        /\ pc'[c] = "thin"
    BY <1>1, <1>9, LoopIs
  <2>2. PureEntry(job'[c].doc) /\ Ready(pc'[c], job'[c])
    BY <1>1, <1>2, <1>4, <2>1 DEF PureCall, Ready, InTry, Left, AllOf, Same
  <2>3. job'[c].alone => Fresh(pc[c], job[c])'
    BY <1>1, <1>7, <1>8, <2>1 DEF Fresh, Same, AllOf, Left
  <2>. QED BY <1>7, <2>1, <2>2, <2>3 DEF PureCall, Same
<1>10. CASE Finally(c, "go")  BY <1>1, <1>10, FinallyPure
<1>11. CASE /\ ~(Len(job[c].todo) > 1) /\ Goto(c, "test")
            /\ job' = [job EXCEPT ![c].todo = KindsOf(job[c].doc)]
  <2>1. /\ Same(c) /\ job'[c].todo = KindsOf(job[c].doc) /\ job'[c].bases = job[c].bases
        /\ pc'[c] = "test"
    BY <1>0, <1>11, LoopIs DEF Goto
  <2>2. PureEntry(job'[c].doc) /\ Ready(pc'[c], job'[c])
    BY <1>2, <2>1 DEF PureCall, Ready, InTry, Left, AllOf, Same
  <2>3. \A k \in AllOf(job[c]) : job[c].alone => thin'[host][k] = job[c].digest
    BY <1>1, <1>4, <1>5, <1>6, <1>7, <1>11 DEF Fresh
  <2>4. job'[c].alone => Fresh(pc[c], job[c])' BY <1>1, <1>7, <2>1, <2>3 DEF Fresh, Same, AllOf
  <2>. QED BY <1>7, <2>1, <2>2, <2>4 DEF PureCall, Same
<1>. QED BY <1>9, <1>10, <1>11 DEF BuildThin

LEMMA ExtractedPure ==
  ASSUME TypeOK, PureInv, NEW c \in Calls, Extract(c), Extracted(c) PROVE PureCall(c)'
<1>0. pc \in [Calls -> PCs] /\ job \in [Calls -> Job] BY DEF TypeOK, CallsOK
<1>1. Step(c) /\ pc[c] = "extract" /\ UNCHANGED <<fat, thin, host>> BY DEF Step, Extract, images
<1>2. PureCall(c) BY DEF PureInv
<1>. DEFINE doc == [job[c].doc EXCEPT !.prints[PlatformOf[host]] = fat[host]]
<1>3. /\ job'[c].doc = doc /\ job'[c].digest = fat[host] /\ job'[c].bases = job[c].bases
      /\ job'[c].alone = job[c].alone /\ job'[c].todo = KindsOf(job[c].doc)
      /\ pc'[c] = "thin"
  BY <1>0 DEF Extracted, Goto, Job
<1>4. doc.verified = job[c].doc.verified /\ KindsOf(doc) = KindsOf(job[c].doc)
  <2>1. job[c].doc \in Entry BY <1>0 DEF Job
  <2>. QED BY <2>1 DEF Entry, KindsOf
<1>. HIDE DEF doc
<1>5. PureEntry(job'[c].doc) /\ Ready(pc'[c], job'[c])
  BY <1>2, <1>3, <1>4 DEF PureCall, PureEntry, Ready, InTry, Left, AllOf
<1>6. job'[c].bases = {} /\ Left(job'[c]) = AllOf(job'[c])
  BY <1>1, <1>2, <1>3, <1>4 DEF PureCall, Ready, Left, AllOf
<1>7. job'[c].alone => (\A d \in Calls : d # c => pc'[d] = "idle") /\ Fresh(pc[c], job[c])'
  BY <1>1, <1>3, <1>6, StaysAlone DEF Fresh
<1>. QED BY <1>5, <1>7 DEF PureCall

LEMMA ReadPure ==
  ASSUME TypeOK, PureInv, NEW c \in Calls, Read(c) PROVE PureCall(c)'
<1>0. pc \in [Calls -> PCs] /\ Step(c) BY DEF TypeOK, CallsOK, Step
<1>1. PICK f \in Flags : Begin(c, f) BY DEF Read
<1>2. job'[c] = [Ended(calls', "go") EXCEPT !.doc = entry, !.flags = f, !.alone = Idle]
  BY <1>1 DEF Begin
<1>3. job'[c].doc = entry /\ job'[c].alone = Idle /\ job'[c].bases = {}
  BY <1>2 DEF Ended
<1>4. pc'[c] = "resolve" BY <1>0 DEF Read, Goto
<1>5. PureEntry(job'[c].doc) /\ Ready(pc'[c], job'[c])
  BY <1>3, <1>4 DEF PureInv, Ready, InTry
<1>6. Idle => (\A d \in Calls : d # c => pc'[d] = "idle") BY <1>0, OthersFields DEF Idle
<1>7. Fresh(pc[c], job[c])' BY <1>3, <1>4 DEF Fresh
<1>. QED BY <1>3, <1>5, <1>6, <1>7 DEF PureCall

LEMMA OpenPure ==
  ASSUME TypeOK, PureInv, NEW c \in Calls, OpenEntry(c) PROVE PureCall(c)'
<1>0. pc \in [Calls -> PCs] /\ job \in [Calls -> Job] BY DEF TypeOK, CallsOK
<1>1. /\ Step(c) /\ pc[c] = "open" /\ pc'[c] = "save"
  BY <1>0 DEF Step, OpenEntry, Goto
<1>2. PureCall(c) BY DEF PureInv
<1>. DEFINE r == RecordOf(job[c])
            doc == [job[c].doc EXCEPT !.verified = Append(@, r)]
<1>3. /\ job'[c].doc = doc /\ job'[c].bases = job[c].bases
      /\ job'[c].digest = job[c].digest /\ job'[c].alone = job[c].alone
  BY <1>0 DEF OpenEntry, Job
<1>4. Pure(r) /\ r \in Record
  <2>1. Fits("open", job[c]) /\ job[c] \in Job BY <1>0, <1>1 DEF TypeOK
  <2>2. job[c].call \in 0..MaxCalls /\ job[c].digest \in Digests \cup {None} BY <2>1 DEF Job
  <2>3. job[c].call \in 1..MaxCalls /\ job[c].digest \in Digests
    BY <2>1, <2>2, RegenerateAssumption DEF Fits
  <2>4. PlatformOf[host] \in Platforms BY DEF TypeOK, ImagesOK, Platforms
  <2>5. r \in Record BY <2>1, <2>3, <2>4 DEF RecordOf, Record, Job
  <2>6. /\ r.alone = job[c].alone /\ r.bases = job[c].bases /\ r.digest = job[c].digest
    BY DEF RecordOf
  <2>7. job[c].alone => job[c].bases \subseteq {job[c].digest}
    BY <1>1, <1>2 DEF PureCall, Fresh
  <2>. QED BY <2>5, <2>6, <2>7 DEF Pure
<1>. HIDE DEF r
<1>5. PureEntry(doc)
  <2>1. job[c].doc \in Entry BY <1>0 DEF Job
  <2>2. doc.verified = Append(job[c].doc.verified, r) /\ job[c].doc.verified \in Seq(Record)
    BY <2>1 DEF Entry
  <2>3. Range(doc.verified) = Range(job[c].doc.verified) \cup {r} BY <1>4, <2>2, RangeAppend
  <2>. QED BY <1>2, <1>4, <2>3 DEF PureCall, PureEntry
<1>. HIDE DEF doc
<1>6. Ready(pc'[c], job'[c]) BY <1>1 DEF Ready, InTry
<1>7. job'[c].alone => (\A d \in Calls : d # c => pc'[d] = "idle") /\ Fresh(pc[c], job[c])'
  BY <1>1, <1>3, StaysAlone DEF Fresh
<1>. QED BY <1>3, <1>5, <1>6, <1>7 DEF PureCall

LEMMA CleanPure ==
  ASSUME TypeOK, PureInv, NEW c \in Calls, Clean(c) PROVE PureCall(c)'
<1>0. pc \in [Calls -> PCs] /\ job \in [Calls -> Job] BY DEF TypeOK, CallsOK
<1>1. Step(c) /\ pc[c] = "clean" BY DEF Step, Clean
<1>2. PureCall(c) BY DEF PureInv
<1>3. job[c].todo \in Seq(Kinds) /\ job[c].todo # <<>> BY <1>0, <1>1 DEF TypeOK, Job, Fits
<1>4. Range(Tail(job[c].todo)) \subseteq Left(job[c]) BY <1>3, HeadAndTail DEF Left
<1>5. ASSUME NEW t, job' = [job EXCEPT ![c].todo = t], pc'[c] \in {"clean", "open"},
             pc'[c] = "clean" => Range(t) \subseteq Left(job[c])
      PROVE  PureCall(c)'
  <2>1. /\ Same(c) /\ job'[c].todo = t /\ job'[c].bases = job[c].bases
    BY <1>5, LoopIs
  <2>2. PureEntry(job'[c].doc) /\ Ready(pc'[c], job'[c])
    BY <1>1, <1>2, <1>5, <2>1 DEF PureCall, Ready, InTry, Left, AllOf, Same
  <2>3. job'[c].alone => (\A d \in Calls : d # c => pc'[d] = "idle") /\ Fresh(pc[c], job[c])'
    BY <1>1, <1>5, <2>1, StaysAlone DEF Fresh, Same
  <2>. QED BY <2>2, <2>3 DEF PureCall
<1>6. CASE job' = [job EXCEPT ![c].todo = Tail(@)] /\ UNCHANGED pc
  BY <1>1, <1>4, <1>5, <1>6
<1>7. CASE Return(c, job[c].exit) BY <1>7, DropsPure
<1>8. CASE job' = [job EXCEPT ![c].todo = <<>>] /\ Goto(c, "open")
  BY <1>0, <1>5, <1>8 DEF Goto
<1>. QED BY <1>6, <1>7, <1>8 DEF Clean

LEMMA OwnPure ==
  ASSUME TypeOK, PureInv, NEW c \in Calls, Step(c) PROVE PureCall(c)'
<1>0. pc \in [Calls -> PCs] /\ job \in [Calls -> Job] BY DEF TypeOK, CallsOK
<1>a. PureCall(c) BY DEF PureInv
<1>b. ASSUME pc[c] \notin {"idle", "thin", "test", "clean"}, UNCHANGED job,
             pc'[c] \in {"fat", "extract"}, pc[c] \in {"resolve", "fat"}
      PROVE  PureCall(c)'
  <2>1. Ready(pc'[c], job'[c]) BY <1>a, <1>b DEF PureCall, Ready, InTry
  <2>2. PureEntry(job'[c].doc) BY <1>a, <1>b DEF PureCall
  <2>3. job'[c].alone => (\A d \in Calls : d # c => pc'[d] = "idle") /\ Fresh(pc[c], job[c])'
    BY <1>b, StaysAlone DEF Fresh
  <2>. QED BY <2>1, <2>2, <2>3 DEF PureCall
<1>1. CASE ReadInVain(c)
  <2>1. \E n, x : job'[c] = Ended(n, x) BY <1>0, <1>1 DEF ReadInVain
  <2>2. job'[c].doc = Unread BY <2>1 DEF Ended
  <2>3. pc'[c] = "idle" BY <1>1 DEF ReadInVain
  <2>. QED BY <2>2, <2>3, UnreadPure DEF PureCall, Ready, InTry
<1>2. CASE ResolveFat(c)
  <2>1. CASE Goto(c, IF fat[host] = None THEN "fat" ELSE "extract") /\ UNCHANGED job
    BY <1>0, <1>2, <1>b, <2>1 DEF ResolveFat, Goto
  <2>. QED BY <1>2, <2>1, DropsPure DEF ResolveFat
<1>3. CASE BuildFat(c)
  <2>1. CASE Goto(c, "extract") /\ UNCHANGED job BY <1>0, <1>3, <1>b, <2>1 DEF BuildFat, Goto
  <2>. QED BY <1>3, <2>1, DropsPure DEF BuildFat
<1>4. CASE Extract(c)
  <2>1. CASE Extracted(c) BY <1>4, <2>1, ExtractedPure
  <2>. QED BY <1>4, <2>1, DropsPure DEF Extract
<1>5. CASE BuildThinFails(c) BY <1>5, FinallyPure DEF BuildThinFails
<1>6. CASE RunTest(c)
  <2>1. pc[c] = "test" /\ thin[host][Current(c)] # None /\ UNCHANGED <<thin, host>>
    BY <1>6 DEF RunTest, images
  <2>2. PICK r \in {"pass", "fail"} : Tested(c, r, {thin[host][Current(c)]})
    BY <1>6 DEF RunTest
  <2>. QED BY <2>1, <2>2, TestedPure
<1>7. CASE RunNothing(c) BY <1>7, TestedPure DEF RunNothing, images
<1>8. CASE TestTimesOut(c) BY <1>8, FinallyPure DEF TestTimesOut
<1>9. CASE SaveEntry(c)
  <2>1. /\ pc[c] = "save" /\ pc'[c] = "exit" /\ UNCHANGED <<job, images, host>>
    BY <1>0, <1>9 DEF SaveEntry, Goto
  <2>2. Same(c) /\ Ready(pc'[c], job'[c]) BY <2>1 DEF Same, Ready, InTry
  <2>. QED BY <2>1, <2>2, StillPure DEF images
<1>12. CASE Answer(c) BY <1>12, DropsPure DEF Answer
<1>10. CASE Interrupt(c)
  <2>1. CASE pc[c] \in {"thin", "test"} /\ Finally(c, "raised") BY <2>1, FinallyPure
  <2>. QED BY <1>10, <2>1, DropsPure DEF Interrupt
<1>11. CASE Crash(c) BY <1>11, DropsPure DEF Crash
<1>. QED BY <1>1, <1>2, <1>3, <1>4, <1>5, <1>6, <1>7, <1>8, <1>9, <1>10, <1>11, <1>12,
            ReadPure, BuildThinPure, OpenPure, CleanPure DEF Step

THEOREM InitPure == Init => PureInv
<1>. SUFFICES ASSUME Init PROVE PureInv OBVIOUS
<1>1. entry.verified = <<>> /\ DOMAIN <<>> = {} BY DEF Init
<1>2. PureEntry(entry) BY <1>1 DEF PureEntry, Range
<1>3. ASSUME NEW c \in Calls PROVE PureCall(c)
  <2>1. job[c].doc = Unread /\ pc[c] = "idle" BY DEF Init, Ended
  <2>. QED BY <2>1, UnreadPure DEF PureCall, Ready, InTry
<1>. QED BY <1>2, <1>3 DEF PureInv

THEOREM NextPure == TypeOK /\ PureInv /\ [Next]_vars => PureInv'
<1>. SUFFICES ASSUME TypeOK, PureInv, [Next]_vars PROVE PureInv' OBVIOUS
<1>1. CASE UNCHANGED vars
  BY <1>1 DEF vars, PureInv, PureCall, PureEntry, Ready, Fresh, AllOf, Left
<1>2. CASE PruneFat
  <2>1. /\ UNCHANGED <<entry, thin, host, pc, job>>
        /\ fat'[host] = None
    BY <1>2 DEF PruneFat, file, TypeOK, ImagesOK
  <2>2. ASSUME NEW c \in Calls PROVE PureCall(c)'
    <3>1. PureCall(c) BY DEF PureInv
    <3>. QED BY <2>1, <3>1 DEF PureCall, PureEntry, Ready, Fresh, AllOf, Left
  <2>. QED BY <2>1, <2>2 DEF PureInv, PureEntry
<1>5. CASE RebuildFat
  <2>1. UNCHANGED <<entry, thin, host>> BY <1>5 DEF RebuildFat, file
  <2>2. ASSUME NEW c \in Calls PROVE PureCall(c)'
    <3>1. PureCall(c) BY DEF PureInv
    <3>2. /\ pc'[c] = pc[c] /\ job'[c].doc = job[c].doc /\ job'[c].todo = job[c].todo
          /\ job'[c].bases = job[c].bases /\ job'[c].digest = job[c].digest
          /\ job'[c].alone => job[c].alone /\ pc[c] # "thin"
      BY <1>5, RebuildFields
    <3>3. PureEntry(job'[c].doc) /\ Ready(pc'[c], job'[c])
      BY <3>1, <3>2 DEF PureCall, PureEntry, Ready, Left, AllOf
    <3>4. \A d \in Calls : pc'[d] = pc[d] BY <1>5, RebuildFields
    <3>. QED BY <2>1, <3>1, <3>2, <3>3, <3>4 DEF PureCall, Fresh, AllOf, Left
  <2>. QED BY <2>1, <2>2 DEF PureInv, PureEntry
<1>3. CASE Carry
  <2>1. UNCHANGED <<entry, pc, job>> /\ \A c \in Calls : pc[c] = "idle"
    BY <1>3 DEF Carry, Idle, file
  <2>2. ASSUME NEW c \in Calls PROVE PureCall(c)'
    BY <2>1 DEF PureInv, PureCall, PureEntry, Ready, InTry
  <2>. QED BY <2>1, <2>2 DEF PureInv, PureEntry
<1>4. ASSUME NEW c \in Calls, Step(c) PROVE PureInv'
  <2>1. entry' = entry \/ entry' = job[c].doc
    BY <1>4 DEF Step, Read, ReadInVain, ResolveFat, BuildFat, Extract, BuildThin,
       BuildThinFails, RunTest, RunNothing, TestTimesOut, Clean, OpenEntry, SaveEntry,
       Answer, Interrupt, Crash, file
  <2>2. PureEntry(entry)' BY <2>1 DEF PureInv, PureCall, PureEntry
  <2>. QED BY <1>4, <2>2, OwnPure, OthersPure DEF PureInv
<1>. QED BY <1>1, <1>2, <1>3, <1>4, <1>5 DEF Next

\* A call that nobody came between tested in containers of the environment it had
\* fingerprinted, whatever the tags it uses named before, and whatever is
\* rebuilt before it extracts and after its last thin build.
THEOREM TestsAreSound == Spec => []TestedWhatWasFingerprinted
<1>. QED BY TypeCorrect, InitPure, NextPure, PureImplies, PTL DEF Spec

\* A step of c leaves nobody's image behind but on a leaky host, if what is
\* there after it was there and is still owed by c, or is owed by c now.
LEMMA OwedMoves ==
  ASSUME TypeOK, OwedInv, NEW c \in Calls, Step(c), host' = host, leaky \subseteq leaky',
         \A h \in Hosts \ {host} : thin'[h] = thin[h],
         host \notin leaky' => \A k \in Kinds : thin'[host][k] # None =>
           \/ thin[host][k] # None /\ (Owes(pc[c], job[c], k) => Owes(pc'[c], job'[c], k))
           \/ Owes(pc'[c], job'[c], k)
  PROVE  OwedInv'
<1>. SUFFICES ASSUME NEW h \in Hosts \ leaky', NEW k \in Kinds, thin'[h][k] # None
              PROVE  h = host' /\ \E d \in Calls : Owes(pc'[d], job'[d], k)
  BY DEF OwedInv
<1>1. h = host BY DEF OwedInv
<1>2. CASE Owes(pc'[c], job'[c], k) BY <1>1, <1>2
<1>3. CASE thin[host][k] # None /\ (Owes(pc[c], job[c], k) => Owes(pc'[c], job'[c], k))
  <2>1. PICK d \in Calls : Owes(pc[d], job[d], k) BY <1>1, <1>3 DEF OwedInv
  <2>2. CASE d = c BY <1>1, <1>3, <2>1, <2>2
  <2>3. CASE d # c
    <3>1. pc'[d] = pc[d] /\ job'[d].doc = job[d].doc /\ job'[d].todo = job[d].todo
      BY <2>3, OthersFields
    <3>2. Owes(pc'[d], job'[d], k) BY <2>1, <3>1 DEF Owes, AllOf, Left
    <3>. QED BY <1>1, <3>2
  <2>. QED BY <2>2, <2>3
<1>. QED BY <1>1, <1>2, <1>3

LEMMA FinallyOwes ==
  ASSUME TypeOK, NEW c \in Calls, NEW x, NEW k, Finally(c, x), k \in AllOf(job[c])
  PROVE  Owes(pc'[c], job'[c], k)
BY FinallyIs DEF Owes, AllOf, Left

LEMMA OwedSame ==
  ASSUME TypeOK, OwedInv, NEW c \in Calls, Step(c), UNCHANGED <<host, thin>>, leaky \subseteq leaky',
         host \notin leaky' =>
           \A k \in Kinds : Owes(pc[c], job[c], k) => Owes(pc'[c], job'[c], k)
  PROVE  OwedInv'
BY OwedMoves

LEMMA KindsOnce ==
  ASSUME NEW e PROVE IsInjective(KindsOf(e))
BY DEF KindsOf, IsInjective

LEMMA TailOnce ==
  ASSUME NEW s \in Seq(Kinds), s # <<>>, IsInjective(s)
  PROVE  IsInjective(Tail(s)) /\ Head(s) \notin Range(Tail(s))
<1>1. /\ Head(s) = s[1] /\ Tail(s) \in Seq(Kinds) /\ Len(Tail(s)) = Len(s) - 1
      /\ \A i \in 1..Len(Tail(s)) : Tail(s)[i] = s[i + 1]
  BY HeadTailProperties, LenProperties
<1>2. DOMAIN s = 1..Len(s) /\ Len(s) \in Nat /\ Len(s) # 0 BY LenProperties, EmptySeq
<1>3. DOMAIN Tail(s) = 1..(Len(s) - 1) BY <1>1, LenProperties
<1>4. ASSUME NEW i \in DOMAIN Tail(s)
      PROVE  i \in Int /\ i + 1 \in DOMAIN s /\ i + 1 # 1 /\ Tail(s)[i] = s[i + 1]
  BY <1>1, <1>2, <1>3
<1>5. ASSUME NEW i \in DOMAIN Tail(s), NEW j \in DOMAIN Tail(s), Tail(s)[i] = Tail(s)[j]
      PROVE  i = j
  <2>1. i + 1 = j + 1 BY <1>4, <1>5 DEF IsInjective
  <2>. QED BY <1>4, <2>1
<1>6. 1 \in DOMAIN s BY <1>2
<1>7. \A i \in DOMAIN Tail(s) : Tail(s)[i] # s[1] BY <1>4, <1>6 DEF IsInjective
<1>. QED BY <1>1, <1>5, <1>7 DEF IsInjective, Range

\* A call in the try block has gone one round on, or starts a loop over all kinds.
LEMMA TodoStep ==
  ASSUME TypeOK, NEW c \in Calls, Step(c)
  PROVE  \/ pc'[c] \notin InTry
         \/ \E e : job'[c].todo = KindsOf(e)
         \/ pc[c] \in InTry /\ job'[c].todo = Tail(job[c].todo)
<1>0. pc \in [Calls -> PCs] /\ job \in [Calls -> Job] BY DEF TypeOK, CallsOK
<1>a. ASSUME NEW x, Return(c, x) PROVE pc'[c] \notin InTry BY <1>a, ReturnIs DEF InTry
<1>b. ASSUME NEW x, Finally(c, x) PROVE \E e : job'[c].todo = KindsOf(e) BY <1>b, FinallyIs
<1>c. ASSUME NEW r, NEW b, pc[c] = "test", Tested(c, r, b)
      PROVE  \/ \E e : job'[c].todo = KindsOf(e)
             \/ pc[c] \in InTry /\ job'[c].todo = Tail(job[c].todo)
  BY <1>c, TestedIs DEF InTry
<1>1. CASE \/ Read(c) \/ ReadInVain(c) \/ ResolveFat(c) \/ BuildFat(c) \/ OpenEntry(c)
           \/ SaveEntry(c) \/ Answer(c) \/ Crash(c)
  BY <1>0, <1>1, <1>a DEF Read, ReadInVain, ResolveFat, BuildFat, OpenEntry, SaveEntry, Answer,
     Crash, Goto, InTry
<1>2. CASE Extract(c)
  <2>1. CASE Extracted(c)
    <3>1. job'[c].todo = KindsOf(job[c].doc) BY <1>0, <2>1 DEF Extracted, Job
    <3>. QED BY <3>1
  <2>. QED BY <1>2, <1>a, <2>1 DEF Extract
<1>3. CASE BuildThin(c)
  <2>1. CASE job' = [job EXCEPT ![c].todo = Tail(@)] BY <1>3, <2>1, LoopIs DEF BuildThin, InTry
  <2>2. CASE job' = [job EXCEPT ![c].todo = KindsOf(job[c].doc)] BY <2>2, LoopIs
  <2>. QED BY <1>3, <1>b, <2>1, <2>2 DEF BuildThin
<1>4. CASE \/ BuildThinFails(c) \/ TestTimesOut(c) \/ Interrupt(c)
  BY <1>4, <1>a, <1>b DEF BuildThinFails, TestTimesOut, Interrupt
<1>5. CASE RunTest(c) \/ RunNothing(c) BY <1>5, <1>c DEF RunTest, RunNothing
<1>6. CASE Clean(c)
  <2>1. CASE job' = [job EXCEPT ![c].todo = Tail(@)] BY <1>6, <2>1, LoopIs DEF Clean, InTry
  <2>2. CASE Goto(c, "open") BY <1>0, <2>2 DEF Goto, InTry
  <2>. QED BY <1>6, <1>a, <2>1, <2>2 DEF Clean
<1>. QED BY <1>1, <1>2, <1>3, <1>4, <1>5, <1>6 DEF Step

LEMMA StepOnce ==
  ASSUME TypeOK, OnceInv, NEW c \in Calls, Step(c) PROVE OnceInv'
<1>1. ASSUME NEW d \in Calls, d # c PROVE Once(d)'
  BY <1>1, OthersFields DEF OnceInv, Once
<1>2. ASSUME pc[c] \in InTry, job'[c].todo = Tail(job[c].todo) PROVE Once(c)'
  <2>1. job[c].todo \in Seq(Kinds) /\ job[c].todo # <<>> /\ IsInjective(job[c].todo)
    BY <1>2 DEF TypeOK, CallsOK, Job, Fits, InTry, OnceInv, Once
  <2>. QED BY <1>2, <2>1, TailOnce DEF Once
<1>3. Once(c)' BY <1>2, TodoStep, KindsOnce DEF Once
<1>. QED BY <1>1, <1>3 DEF OnceInv

LEMMA BuildThinOwes ==
  ASSUME TypeOK, PureInv, OnceInv, OwedInv, NEW c \in Calls, BuildThin(c) PROVE OwedInv'
<1>0. pc \in [Calls -> PCs] /\ job \in [Calls -> Job] BY DEF TypeOK, CallsOK
<1>1. /\ Step(c) /\ pc[c] = "thin" /\ UNCHANGED <<host, leaky>>
      /\ thin' = [thin EXCEPT ![host][Current(c)] = fat[host]]
  BY DEF Step, BuildThin
<1>2. job[c].todo \in Seq(Kinds) /\ job[c].todo # <<>> BY <1>0, <1>1 DEF TypeOK, Job, Fits
<1>3. /\ Current(c) \in Left(job[c]) /\ Current(c) \in Kinds
      /\ Range(Tail(job[c].todo)) \subseteq Left(job[c])
      /\ Current(c) \notin Range(Tail(job[c].todo))
  BY <1>1, <1>2, HeadAndTail, TailOnce DEF Current, Left, OnceInv, Once, InTry
<1>4. Current(c) \in AllOf(job[c]) BY <1>1, <1>3 DEF PureInv, PureCall, Ready, InTry
<1>5. ASSUME NEW k \in AllOf(job[c]), k \notin Range(Tail(job[c].todo))
      PROVE  Owes(pc'[c], job'[c], k)
  <2>1. CASE Finally(c, "go") BY <1>5, <2>1, FinallyOwes
  <2>2. CASE job' = [job EXCEPT ![c].todo = Tail(@)] /\ UNCHANGED pc
    BY <1>1, <1>5, <2>2, LoopIs DEF Owes, AllOf, Left, Same
  <2>3. CASE job' = [job EXCEPT ![c].todo = KindsOf(job[c].doc)] /\ Goto(c, "test")
    <3>1. pc'[c] = "test" BY <1>0, <2>3 DEF Goto
    <3>. QED BY <1>5, <2>3, <3>1, LoopIs DEF Owes, AllOf, Same
  <2>. QED BY <2>1, <2>2, <2>3 DEF BuildThin
<1>6. \A h \in Hosts \ {host} : thin'[h] = thin[h] BY <1>1 DEF TypeOK, ImagesOK
<1>7. \A k \in Kinds \ {Current(c)} : thin'[host][k] = thin[host][k]
  BY <1>1, <1>3 DEF TypeOK, ImagesOK
<1>8. \A k \in Kinds : Owes(pc[c], job[c], k) => Owes(pc'[c], job'[c], k)
  BY <1>1, <1>3, <1>5 DEF Owes
<1>. QED BY <1>1, <1>3, <1>4, <1>5, <1>6, <1>7, <1>8, OwedMoves

\* An image that loses its tag to another was built by a call under way, not
\* this one; an image that outlives its tag is held by a test's container.
LEMMA StepKept ==
  ASSUME TypeOK, FileInv, OnceInv, OwedInv, KeptInv, NEW c \in Calls, Step(c) PROVE KeptInv'
<1>0. pc \in [Calls -> PCs] /\ job \in [Calls -> Job] /\ host \in Hosts
  BY DEF TypeOK, CallsOK, ImagesOK
<1>a. kept \in [Hosts -> SUBSET Kinds] /\ cut \in [Hosts -> SUBSET Kinds]
  BY DEF TypeOK, ImagesOK
<1>b. ASSUME kept' = kept, overlaps => overlaps', leaky \subseteq leaky',
             \A h \in Hosts : cut[h] \subseteq cut'[h]
      PROVE  KeptInv'
  BY <1>b DEF KeptInv
<1>1. CASE BuildThin(c)
  <2>1. /\ pc[c] = "thin" /\ UNCHANGED <<cut, leaky, overlaps>>
        /\ kept' = [kept EXCEPT ![host] =
             @ \cup (IF thin[host][Current(c)] \in {None, fat[host]} THEN {} ELSE {Current(c)})]
    BY <1>1 DEF BuildThin
  <2>2. CASE host \in leaky \/ overlaps BY <1>a, <2>1, <2>2 DEF KeptInv
  <2>3. CASE host \notin leaky /\ ~overlaps
    <3>1. job[c].todo \in Seq(Kinds) /\ job[c].todo # <<>>
      BY <1>0, <2>1 DEF TypeOK, Job, Fits
    <3>2. Current(c) \in Left(job[c]) /\ Current(c) \in Kinds
      BY <3>1, HeadAndTail DEF Current, Left
    <3>3. thin[host][Current(c)] = None
      <4>1. SUFFICES ASSUME thin[host][Current(c)] # None PROVE FALSE OBVIOUS
      <4>2. PICK d \in Calls : Owes(pc[d], job[d], Current(c))
        BY <1>0, <2>3, <3>2, <4>1 DEF OwedInv
      <4>3. d = c BY <2>1, <2>3, <4>2 DEF Owes, FileInv
      <4>. QED BY <2>1, <3>2, <4>2, <4>3 DEF Owes
    <3>4. kept' = kept BY <1>a, <2>1, <3>3
    <3>. QED BY <1>b, <2>1, <3>4
  <2>. QED BY <2>2, <2>3
<1>2. CASE Clean(c)
  <2>1. UNCHANGED <<cut, overlaps, host>> BY <1>2 DEF Clean
  <2>2. CASE Leaves BY <1>b, <2>1, <2>2 DEF Leaves
  <2>3. CASE Untags(c)
    <3>1. leaky' = leaky BY <2>3 DEF Untags
    <3>2. CASE kept' = kept BY <1>b, <2>1, <3>1, <3>2
    <3>3. CASE Current(c) \in cut[host] /\ kept' = [kept EXCEPT ![host] = @ \cup {Current(c)}]
      BY <1>a, <2>1, <3>1, <3>3 DEF KeptInv
    <3>. QED BY <2>3, <3>2, <3>3 DEF Untags
  <2>. QED BY <1>2, <2>2, <2>3 DEF Clean
<1>3. CASE TestTimesOut(c)
  <2>1. \A h \in Hosts : cut[h] \subseteq cut'[h]
    BY <1>a, <1>3 DEF TestTimesOut, LeftRunning
  <2>. QED BY <1>3, <1>b, <2>1 DEF TestTimesOut
<1>4. CASE Interrupt(c)
  <2>1. \A h \in Hosts : cut[h] \subseteq cut'[h]
    BY <1>a, <1>4 DEF Interrupt, LeftRunning
  <2>2. leaky \subseteq leaky' BY <1>4 DEF Interrupt
  <2>. QED BY <1>4, <1>b, <2>1, <2>2 DEF Interrupt
<1>5. CASE Crash(c)
  <2>1. leaky \subseteq leaky' BY <1>5 DEF Crash
  <2>. QED BY <1>5, <1>b, <2>1 DEF Crash, images
<1>6. CASE Read(c)
  <2>1. UNCHANGED <<images, leaky>> /\ (overlaps => overlaps') BY <1>6 DEF Read, Begin
  <2>. QED BY <1>b, <2>1 DEF images
<1>7. CASE \/ ReadInVain(c) \/ ResolveFat(c) \/ BuildFat(c) \/ Extract(c) \/ BuildThinFails(c)
           \/ RunTest(c) \/ RunNothing(c) \/ OpenEntry(c) \/ SaveEntry(c) \/ Answer(c)
  BY <1>7, <1>b DEF ReadInVain, ResolveFat, BuildFat, Extract, BuildThinFails, RunTest,
     RunNothing, OpenEntry, SaveEntry, Answer, images
<1>. QED BY <1>1, <1>2, <1>3, <1>4, <1>5, <1>6, <1>7 DEF Step

LEMMA TestedOwes ==
  ASSUME TypeOK, OwedInv, NEW c \in Calls, Step(c), pc[c] = "test", NEW r, NEW b,
         Tested(c, r, b), UNCHANGED <<thin, host, leaky>>
  PROVE  OwedInv'
<1>1. /\ Same(c)
      /\ \/ pc'[c] = "test"
         \/ pc'[c] = "clean" /\ job'[c].todo = KindsOf(job[c].doc)
  BY TestedIs
<1>2. \A k \in Kinds : Owes(pc[c], job[c], k) => Owes(pc'[c], job'[c], k)
  BY <1>1 DEF Owes, AllOf, Left, Same
<1>. QED BY <1>2, OwedSame

LEMMA CleanOwes ==
  ASSUME TypeOK, OwedInv, NEW c \in Calls, Clean(c) PROVE OwedInv'
<1>0. pc \in [Calls -> PCs] /\ job \in [Calls -> Job] BY DEF TypeOK, CallsOK
<1>1. Step(c) /\ pc[c] = "clean" /\ host' = host BY DEF Step, Clean
<1>2. CASE Leaves
  <2>1. leaky' = leaky \cup {host} /\ thin' = thin BY <1>2 DEF Leaves
  <2>. QED BY <1>1, <2>1, OwedMoves
<1>3. CASE Untags(c)
  <2>1. thin' = [thin EXCEPT ![host][Current(c)] = None] /\ leaky' = leaky
    BY <1>3 DEF Untags
  <2>2. job[c].todo \in Seq(Kinds) /\ job[c].todo # <<>> BY <1>0, <1>1 DEF TypeOK, Job, Fits
  <2>3. /\ Current(c) \in Kinds /\ Left(job[c]) = {Current(c)} \cup Range(Tail(job[c].todo))
        /\ ~(Len(job[c].todo) > 1) => Left(job[c]) = {Current(c)}
    BY <2>2, HeadAndTail DEF Current, Left
  <2>4. /\ thin'[host][Current(c)] = None
        /\ \A k \in Kinds \ {Current(c)} : thin'[host][k] = thin[host][k]
        /\ \A h \in Hosts \ {host} : thin'[h] = thin[h]
    BY <2>1, <2>3 DEF TypeOK, ImagesOK
  <2>5. ASSUME NEW k \in Kinds \ {Current(c)}, Owes(pc[c], job[c], k)
        PROVE  Owes(pc'[c], job'[c], k)
    <3>1. k \in Left(job[c]) BY <1>1, <2>5 DEF Owes
    <3>2. Len(job[c].todo) > 1 /\ k \in Range(Tail(job[c].todo)) BY <2>3, <2>5, <3>1
    <3>3. job' = [job EXCEPT ![c].todo = Tail(@)] /\ UNCHANGED pc BY <3>2 DEF Clean
    <3>4. job'[c].todo = Tail(job[c].todo) /\ pc'[c] = "clean" BY <1>1, <3>3, LoopIs
    <3>. QED BY <3>2, <3>4 DEF Owes, Left
  <2>. QED BY <1>1, <2>1, <2>4, <2>5, OwedMoves
<1>. QED BY <1>2, <1>3 DEF Clean

LEMMA StepOwed ==
  ASSUME TypeOK, PureInv, OnceInv, OwedInv, NEW c \in Calls, Step(c) PROVE OwedInv'
<1>1. ASSUME pc[c] \notin InTry, UNCHANGED <<host, thin, leaky>> PROVE OwedInv'
  BY <1>1, OwedSame DEF Owes, InTry
<1>2. ASSUME pc[c] \in {"thin", "test"}, NEW x, Finally(c, x), UNCHANGED <<host, thin, leaky>>
      PROVE  OwedInv'
  <2>1. \A k \in Kinds : Owes(pc[c], job[c], k) => Owes(pc'[c], job'[c], k)
    BY <1>2, FinallyOwes DEF Owes
  <2>. QED BY <1>2, <2>1, OwedSame
<1>3. CASE \/ Read(c) \/ ReadInVain(c) \/ ResolveFat(c) \/ BuildFat(c) \/ Extract(c)
           \/ OpenEntry(c) \/ SaveEntry(c) \/ Answer(c)
  BY <1>1, <1>3 DEF Read, Begin, ReadInVain, ResolveFat, BuildFat, Extract, OpenEntry, SaveEntry,
     Answer, InTry, images
<1>4. CASE BuildThinFails(c) BY <1>2, <1>4 DEF BuildThinFails, images
<1>5. CASE RunTest(c)
  <2>1. pc[c] = "test" /\ UNCHANGED <<thin, host, leaky>> BY <1>5 DEF RunTest, images
  <2>2. PICK r \in {"pass", "fail"} : Tested(c, r, {thin[host][Current(c)]})
    BY <1>5 DEF RunTest
  <2>. QED BY <2>1, <2>2, TestedOwes
<1>6. CASE RunNothing(c) BY <1>6, TestedOwes DEF RunNothing, images
<1>7. CASE TestTimesOut(c) BY <1>2, <1>7 DEF TestTimesOut
<1>8. CASE Interrupt(c)
  <2>0. UNCHANGED <<host, thin>> BY <1>8 DEF Interrupt
  <2>1. CASE pc[c] \in {"thin", "test"}
    <3>1. Finally(c, "raised") /\ leaky' = leaky BY <1>8, <2>1 DEF Interrupt
    <3>. QED BY <1>2, <2>0, <2>1, <3>1
  <2>2. CASE pc[c] = "clean"
    <3>1. leaky' = leaky \cup {host} BY <1>8, <2>2 DEF Interrupt
    <3>. QED BY <2>0, <3>1, OwedSame
  <2>3. CASE pc[c] \notin InTry
    <3>1. leaky' = leaky BY <1>8, <2>3 DEF Interrupt, InTry
    <3>. QED BY <1>1, <2>0, <2>3, <3>1
  <2>. QED BY <2>1, <2>2, <2>3 DEF InTry
<1>9. CASE Crash(c)
  <2>0. UNCHANGED <<host, thin>> BY <1>9 DEF Crash, images
  <2>1. CASE pc[c] \in InTry
    <3>1. leaky' = leaky \cup {host} BY <1>9, <2>1 DEF Crash, InTry
    <3>. QED BY <2>0, <3>1, OwedSame
  <2>2. CASE pc[c] \notin InTry
    <3>1. leaky' = leaky BY <1>9, <2>2 DEF Crash, InTry
    <3>. QED BY <1>1, <2>0, <2>2, <3>1
  <2>. QED BY <2>1, <2>2
<1>. QED BY <1>3, <1>4, <1>5, <1>6, <1>7, <1>8, <1>9, BuildThinOwes, CleanOwes DEF Step

THEOREM NextOwed ==
  TypeOK /\ FileInv /\ PureInv /\ OnceInv /\ OwedInv /\ KeptInv /\ [Next]_vars
    => OnceInv' /\ OwedInv' /\ KeptInv'
<1>. SUFFICES ASSUME TypeOK, FileInv, PureInv, OnceInv, OwedInv, KeptInv, [Next]_vars
              PROVE  OnceInv' /\ OwedInv' /\ KeptInv'
  OBVIOUS
<1>0. ASSUME UNCHANGED <<cut, kept, leaky, overlaps>> PROVE KeptInv' BY <1>0 DEF KeptInv
<1>1. CASE UNCHANGED <<host, thin, cut, kept, leaky, overlaps, pc, job>>
  BY <1>0, <1>1 DEF OwedInv, Owes, AllOf, Left, OnceInv, Once
<1>2. CASE Carry
  <2>1. UNCHANGED <<thin, cut, kept, leaky, overlaps, pc, job>> BY <1>2 DEF Carry, images
  <2>2. \A h \in Hosts \ leaky, k \in Kinds : thin[h][k] = None
    BY <1>2 DEF Carry, Idle, OwedInv, Owes
  <2>. QED BY <1>0, <2>1, <2>2 DEF OwedInv, OnceInv, Once
<1>3. CASE RebuildFat
  <2>1. UNCHANGED <<host, thin, cut, kept, leaky, overlaps>> BY <1>3 DEF RebuildFat
  <2>2. \A c \in Calls : /\ pc'[c] = pc[c] /\ job'[c].doc = job[c].doc
                          /\ job'[c].todo = job[c].todo
    BY <1>3, RebuildFields
  <2>3. OnceInv' BY <2>2 DEF OnceInv, Once
  <2>4. OwedInv' BY <2>1, <2>2 DEF OwedInv, Owes, AllOf, Left
  <2>. QED BY <1>0, <2>1, <2>3, <2>4
<1>. QED BY <1>1, <1>2, <1>3, StepOnce, StepOwed, StepKept DEF Next, PruneFat, vars

\* Where no call is under way no thin image is left under its tag, however calls
\* overlapped, unless one was told to keep them, stopped before it had tidied up
\* or failed to; without a tag, only what a test that was cut off still holds.
THEOREM NothingLeftBehind == Spec => []ThinsRemoved
<1>1. Init => OnceInv /\ OwedInv /\ KeptInv
  BY DEF Init, OnceInv, Once, InTry, OwedInv, KeptInv
<1>. QED BY <1>1, TypeCorrect, FileHolds, InitPure, NextPure, NextOwed, OwedImplies, PTL DEF Spec
=============================================================================
