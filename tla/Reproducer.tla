----------------------------- MODULE Reproducer -----------------------------
(***************************************************************************)
(* pipelines/cargo/cargo_reproducer.py and the driver's signal handler:    *)
(* worker threads run the pre and post commits of a candidate in Docker    *)
(* containers, each registered in a module-level set for as long as it     *)
(* runs, so that the handler can kill it on SIGTERM.                       *)
(***************************************************************************)
EXTENDS Naturals, Sequences, FiniteSets, ReproduceContract

CONSTANTS
  Threads,         \* worker threads; a single one is the main thread itself
  Free, Handler,   \* holders of the registry lock that are not threads
  Attempts,        \* --attempts
  KillsFail,       \* a docker kill may run into its timeout
  Calls            \* bound: calls of reproduce() per thread

ASSUME ReproducerAssumption ==
  /\ Free \notin Threads /\ Handler \notin Threads /\ Free # Handler
  /\ Attempts \in Nat \ {0} /\ Calls \in Nat
  /\ KillsFail \in BOOLEAN

Serial == \A s, t \in Threads : s = t
Stages == {"pre", "post"}

VARIABLES
  event,      \* the driver's shutdown_event
  requested,  \* _shutdown_requested
  lock,       \* _active_containers_lock, which is not reentrant
  active,     \* _active_containers
  up,         \* containers running under the Docker daemon
  lost,       \* history: those among them that a docker kill failed on
  handler,    \* where the signal handler is
  targets,    \* containers it has yet to kill
  pc, stage,  \* per thread: where it is, the commit it is at
  rcs,        \* per thread and stage: whether each attempt passed
  started,    \* per thread: invocations of _run_in_docker (names its container)
  calls,      \* per thread: calls of reproduce() begun
  cut,        \* history, per thread: this call was killed or pre-empted
  exited      \* the driver has ended

signal == <<event, requested, handler, targets>>
work == <<stage, rcs, started, calls, cut>>
docker == <<up, lost>>
vars == <<signal, lock, active, docker, pc, work, exited>>

PCs == { "idle", "check", "lock", "add", "launch", "running", "unlock",
         "discard", "next", "returned" }

TypeOK ==
  /\ {event, requested, exited} \subseteq BOOLEAN
  /\ lock \in Threads \cup {Free, Handler}
  /\ active \subseteq Threads \X Nat
  /\ up \subseteq Threads \X Nat /\ lost \subseteq Threads \X Nat
  /\ handler \in {"idle", "request", "snapshot", "kill", "done"}
  /\ targets \subseteq Threads \X Nat
  /\ pc \in [Threads -> PCs] /\ stage \in [Threads -> Stages]
  /\ rcs \in [Threads -> [Stages -> Seq(BOOLEAN)]]
  /\ started \in [Threads -> Nat] /\ calls \in [Threads -> Nat]
  /\ cut \in [Threads -> BOOLEAN]

Init ==
  /\ event = FALSE /\ requested = FALSE /\ exited = FALSE
  /\ lock = Free /\ active = {} /\ up = {} /\ lost = {}
  /\ handler = "idle" /\ targets = {}
  /\ pc = [t \in Threads |-> "idle"] /\ stage = [t \in Threads |-> "pre"]
  /\ rcs = [t \in Threads |-> [s \in Stages |-> <<>>]]
  /\ started = [t \in Threads |-> 0] /\ calls = [t \in Threads |-> 0]
  /\ cut = [t \in Threads |-> FALSE]

-----------------------------------------------------------------------------
(* The worker threads *)

\* A signal handler runs in the main thread, between two of its bytecodes.
At(t, p) == pc[t] = p /\ (Serial => handler \in {"idle", "done"})
Goto(t, p) == pc' = [pc EXCEPT ![t] = p]
Container(t) == <<t, started[t]>>
Record(t, pass) == rcs' = [rcs EXCEPT ![t][stage[t]] = Append(@, pass)]

\* _worker looks at the event, then process() calls reproduce().
Begin(t) ==
  /\ At(t, "idle") /\ ~event /\ ~exited /\ calls[t] < Calls
  /\ calls' = [calls EXCEPT ![t] = @ + 1]
  /\ stage' = [stage EXCEPT ![t] = "pre"]
  /\ rcs' = [rcs EXCEPT ![t] = [s \in Stages |-> <<>>]]
  /\ cut' = [cut EXCEPT ![t] = FALSE]
  /\ Goto(t, "check")
  /\ UNCHANGED <<signal, lock, active, docker, started, exited>>

\* _run_in_docker: pre-empted with 137 once the flag is up.
Preempted(t) ==
  /\ At(t, "check") /\ requested
  /\ Record(t, FALSE) /\ cut' = [cut EXCEPT ![t] = TRUE]
  /\ Goto(t, "next")
  /\ UNCHANGED <<signal, lock, active, docker, stage, started, calls, exited>>

\* Mutant of Name: no look at the flag.
NameUnchecked(t) ==
  /\ At(t, "check")
  /\ started' = [started EXCEPT ![t] = @ + 1]
  /\ Goto(t, "lock")
  /\ UNCHANGED <<signal, lock, active, docker, stage, rcs, calls, cut, exited>>

Name(t) ==
  /\ At(t, "check") /\ ~requested
  /\ started' = [started EXCEPT ![t] = @ + 1]
  /\ Goto(t, "lock")
  /\ UNCHANGED <<signal, lock, active, docker, stage, rcs, calls, cut, exited>>

\* The with statements of _register_container and _unregister_container.
Acquire(t) ==
  /\ lock = Free /\ lock' = t
  /\ \/ At(t, "lock") /\ Goto(t, "add")
     \/ At(t, "unlock") /\ Goto(t, "discard")
  /\ UNCHANGED <<signal, active, docker, work, exited>>

Register(t) ==
  /\ At(t, "add") /\ lock' = Free
  /\ active' = active \cup {Container(t)}
  /\ Goto(t, "launch")
  /\ UNCHANGED <<signal, docker, work, exited>>

Unregister(t) ==
  /\ At(t, "discard") /\ lock' = Free
  /\ active' = active \ {Container(t)}
  /\ Goto(t, "next")
  /\ UNCHANGED <<signal, docker, work, exited>>

\* subprocess.run(docker run): the daemon has the container only now.
Launch(t) ==
  /\ At(t, "launch")
  /\ up' = up \cup {Container(t)}
  /\ Goto(t, "running")
  /\ UNCHANGED <<signal, lock, active, lost, work, exited>>

Gone(c) == up' = up \ {c} /\ lost' = lost \ {c}

\* The command returns: the tests ended, or somebody killed the container.
End(t) ==
  /\ At(t, "running")
  /\ IF Container(t) \in up
     THEN /\ Gone(Container(t)) /\ UNCHANGED cut
          /\ \E pass \in BOOLEAN : Record(t, pass)
     ELSE /\ UNCHANGED docker /\ cut' = [cut EXCEPT ![t] = TRUE]
          /\ Record(t, FALSE)
  /\ Goto(t, "unlock")
  /\ UNCHANGED <<signal, lock, active, stage, started, calls, exited>>

\* docker kill does nothing to a container the daemon does not have; it may run
\* into a timeout of its own, which is swallowed ("a zombie container costs less
\* than a lost candidate record").
DockerKill(c) ==
  \/ Gone(c)
  \/ KillsFail /\ lost' = lost \cup ({c} \cap up) /\ UNCHANGED up

\* --timeout: the thread kills the container itself.
Timeout(t) ==
  /\ At(t, "running") /\ Container(t) \in up
  /\ DockerKill(Container(t))
  /\ Record(t, FALSE)
  /\ Goto(t, "unlock")
  /\ UNCHANGED <<signal, lock, active, stage, started, calls, cut, exited>>

\* Mutant of Advance: the fix commit is run unasked.
AdvanceToFix(t) ==
  /\ At(t, "next") /\ Goto(t, "check")
  /\ stage' = [stage EXCEPT ![t] = IF @ = "pre" THEN "post" ELSE "fix"]
  /\ UNCHANGED <<signal, lock, active, docker, rcs, started, calls, cut, exited>>

\* _run_n: another attempt, unless there were enough or the shutdown came; the
\* post commit after the pre commit, whatever that gave.
Advance(t) ==
  /\ At(t, "next")
  /\ IF ~requested /\ Len(rcs[t][stage[t]]) < Attempts
     THEN Goto(t, "check") /\ UNCHANGED stage
     ELSE IF stage[t] = "pre"
     THEN Goto(t, "check") /\ stage' = [stage EXCEPT ![t] = "post"]
     ELSE Goto(t, "returned") /\ UNCHANGED stage
  /\ UNCHANGED <<signal, lock, active, docker, rcs, started, calls, cut, exited>>

Deliver(t) ==
  /\ At(t, "returned") /\ Goto(t, "idle")
  /\ UNCHANGED <<signal, lock, active, docker, work, exited>>

Passes(t, s) == {i \in DOMAIN rcs[t][s] : rcs[t][s][i]}
Passed(t, s) == Passes(t, s) # {}
Flaky(t, s) == Passed(t, s) /\ Passes(t, s) # DOMAIN rcs[t][s]
Result(t) == [pre |-> Passed(t, "pre"), post |-> Passed(t, "post"),
              flaky |-> Flaky(t, "pre") \/ Flaky(t, "post"), killed |-> cut[t]]

-----------------------------------------------------------------------------
(* The signal handler of main() and kill_active_containers *)

CatchSignal ==
  /\ handler = "idle" /\ ~exited
  /\ event' = TRUE /\ handler' = "request"
  /\ UNCHANGED <<requested, targets, lock, active, docker, pc, work, exited>>

Request ==
  /\ handler = "request"
  /\ requested' = TRUE /\ handler' = "snapshot"
  /\ UNCHANGED <<event, targets, lock, active, docker, pc, work, exited>>

Snapshot ==
  /\ handler = "snapshot" /\ lock = Free
  /\ targets' = active /\ handler' = "kill"
  /\ UNCHANGED <<event, requested, lock, active, docker, pc, work, exited>>

Kill ==
  /\ handler = "kill"
  /\ \E c \in targets :
       /\ targets' = targets \ {c}
       /\ DockerKill(c)
  /\ UNCHANGED <<event, requested, handler, lock, active, pc, work, exited>>

HandlerReturns ==
  /\ handler = "kill" /\ targets = {}
  /\ handler' = "done"
  /\ UNCHANGED <<event, requested, targets, lock, active, docker, pc, work, exited>>

\* Mutant of Exit: the handler ends the process itself.
ExitAtOnce ==
  /\ handler = "done" /\ exited' = TRUE
  /\ UNCHANGED <<signal, lock, active, docker, pc, work>>

\* main() ends once the pool is idle.
Exit ==
  /\ \A t \in Threads : pc[t] = "idle" /\ (event \/ calls[t] = Calls)
  /\ handler \in {"idle", "done"}
  /\ exited' = TRUE
  /\ UNCHANGED <<signal, lock, active, docker, pc, work>>

ThreadStep(t) ==
  \/ Begin(t) \/ Preempted(t) \/ Name(t) \/ Acquire(t) \/ Register(t)
  \/ Launch(t) \/ End(t) \/ Timeout(t) \/ Unregister(t) \/ Advance(t)
  \/ Deliver(t)
HandlerStep == Request \/ Snapshot \/ Kill \/ HandlerReturns

Next == CatchSignal \/ HandlerStep \/ Exit \/ \E t \in Threads : ThreadStep(t)

Spec == Init /\ [][Next]_vars

\* Threads are scheduled, commands end by their timeouts, the main thread runs
\* the handler it has begun.
FairSpec ==
  /\ Spec /\ WF_vars(HandlerStep) /\ WF_vars(Exit)
  /\ \A t \in Threads : WF_vars(ThreadStep(t))

-----------------------------------------------------------------------------
(* Properties *)

\* What reproduce() answers is what module Drive takes it to answer; a call is
\* cut short only after the driver's event was set, however the handler's steps
\* fall between the thread's.
KeepsContract ==
  \A t \in Threads :
    pc[t] = "returned" => Result(t) \in Returns(Attempts, event /\ requested)

\* "No orphan cargo-repro-* containers": none outlives the driver, but for those
\* that a docker kill failed on.
NoOrphans == exited => up \subseteq lost

\* A signal ends the driver: the handler never waits for ever, nor do the
\* threads for each other.
SignalEnds == event ~> exited
=============================================================================
