---------------------------- MODULE RunLifecycle ----------------------------
(***************************************************************************)
(* What the workflow runtime promises to the operator of one run: steps    *)
(* complete one at a time and in order, the run is "ok" only when all of   *)
(* them have, and a finished run is only reopened on request.              *)
(***************************************************************************)
EXTENDS Integers

CONSTANT NumSteps

VARIABLES
    status,   \* the run's status
    done,     \* the steps that completed
    from,     \* the step the current replay starts from, 0 outside replays
    asked     \* an operator's replay or approval is being served

Open == {"running", "paused"}

LifecycleInit ==
    /\ status = IF NumSteps = 0 THEN "ok" ELSE "running"
    /\ done = {}
    /\ from = 0
    /\ asked = FALSE

(* Step i completes; the steps before it are done, except those before the *)
(* starting point of a replay.                                             *)
CompleteStep(i) ==
    /\ status = "running"
    /\ \A j \in 1..(i-1) : j >= from => j \in done
    /\ done' = done \cup {i}
    /\ UNCHANGED <<status, from, asked>>

(* A replay that was interrupted executes a completed step again.          *)
RedoStep(i) ==
    /\ from > 0 /\ i >= from
    /\ status' = "running"
    /\ done' = done \ {i}
    /\ UNCHANGED <<from, asked>>

(* The run goes on after a pause or, inside a replay, after a failure.     *)
Continue ==
    /\ status \in Open \/ from > 0
    /\ status' = "running"
    /\ UNCHANGED <<done, from, asked>>

Pause ==
    /\ status \in Open
    /\ status' = "paused"
    /\ UNCHANGED <<done, from, asked>>

Succeed ==
    /\ status \in Open \/ from > 0
    /\ done = 1..NumSteps
    /\ status' = "ok"
    /\ from' = 0
    /\ UNCHANGED <<done, asked>>

EndUnsuccessfully ==
    /\ status \in Open \/ from > 0
    /\ \/ done # 1..NumSteps /\ status' \in {"failed", "timed_out"}
       \/ status' = "cancelled"
    /\ from' \in {from, 0}
    /\ UNCHANGED <<done, asked>>

(* An operator asks for a replay or answers an approval; the request is    *)
(* carried out, or lost with the process that serves it.                   *)
Ask ==
    /\ ~asked /\ asked'
    /\ UNCHANGED <<status, done, from>>

Replay(i) ==
    /\ asked /\ ~asked'
    /\ status' = "running"
    /\ done' = done \cap 1..(i-1)
    /\ from' = i

Answer ==
    /\ asked /\ ~asked'
    /\ status' = "running"
    /\ UNCHANGED <<done, from>>

Forget ==
    /\ asked /\ ~asked'
    /\ UNCHANGED <<status, done, from>>

LifecycleNext ==
    \/ \E i \in 1..NumSteps : CompleteStep(i) \/ RedoStep(i) \/ Replay(i)
    \/ Continue \/ Pause \/ Succeed \/ EndUnsuccessfully
    \/ Ask \/ Answer \/ Forget

LifecycleSpec == LifecycleInit /\ [][LifecycleNext]_<<status, done, from, asked>>
=============================================================================
