----------------------------- MODULE RunRecord -----------------------------
(***************************************************************************)
(* The durable workflow run record (platform/core/state/core/runs.go) and  *)
(* the pure record updates the workflow runtime applies to it between one  *)
(* load and one save (platform/workflow/runtime/workflow_runtime.go).      *)
(*                                                                         *)
(* A record keeps what the control flow reads: the run's status, its       *)
(* cancel flag, the step a replay starts from (0: none) and, per step, its *)
(* status, its attempt count and the human decision stored in its input.   *)
(* Outputs, timestamps, checkpoints and error texts are never read back by *)
(* the runtime and are left out.                                           *)
(***************************************************************************)
EXTENDS Integers

CONSTANTS
    NumSteps,       \* number of steps of the workflow
    MaxAttempts,    \* attempts allowed per step, already defaulted to >= 1
    ApprovalSteps,  \* the steps of kind human-approval
    Decisions       \* the decisions a reviewer may submit

Steps == 1..NumSteps

ASSUME NumStepsAssumption == NumSteps \in Nat
ASSUME MaxAttemptsAssumption == MaxAttempts \in [Steps -> Nat \ {0}]
ASSUME ApprovalStepsAssumption == ApprovalSteps \subseteq Steps
ASSUME DecisionsAssumption == Decisions \subseteq {"approve", "reject", "other"}

RunStatus == {"running", "paused", "ok", "failed", "cancelled", "timed_out"}
StepStatus == {"pending", "running", "paused", "ok", "failed", "cancelled",
               "timed_out"}

Run == [status : RunStatus,
        cancelRequested : BOOLEAN,
        replayFrom : 0..NumSteps,
        stepStatus : [Steps -> StepStatus],
        attempts : [Steps -> Nat],
        decision : [Steps -> Decisions \cup {"none"}]]

IsWorkflowRunTerminal(s) == s \in {"ok", "failed", "cancelled", "timed_out"}
IsWorkflowStepTerminal(s) == s \in {"ok", "failed", "cancelled", "timed_out"}

(* CreateRun: every step pending; a workflow without steps is ok at once.  *)
FreshRun ==
    [status |-> IF NumSteps = 0 THEN "ok" ELSE "running",
     cancelRequested |-> FALSE,
     replayFrom |-> 0,
     stepStatus |-> [i \in Steps |-> "pending"],
     attempts |-> [i \in Steps |-> 0],
     decision |-> [i \in Steps |-> "none"]]

(* ResumeRun returns such a record untouched.                              *)
NothingToResume(run) ==
    IsWorkflowRunTerminal(run.status) /\ run.replayFrom = 0

(* Mutants: any finished step is passed over; no finished step is.         *)
MutantSkipsTerminal(run, replayAt, i) ==
    \/ replayAt > 0 /\ i < replayAt
    \/ replayAt = 0 /\ IsWorkflowStepTerminal(run.stepStatus[i])
MutantSkipsNothing(run, replayAt, i) == replayAt > 0 /\ i < replayAt

(* The loop of resumeRunLocked passes over step i without executing it.    *)
Skips(run, replayAt, i) ==
    \/ replayAt > 0 /\ i < replayAt
    \/ replayAt = 0 /\ run.stepStatus[i] = "ok"

(* A step found "running" was in flight when its process died: it goes     *)
(* back to pending and gets the attempt back.                              *)
RequeueInFlight(run, i) ==
    [run EXCEPT !.stepStatus[i] = "pending",
                !.attempts[i] = IF @ > 0 THEN @ - 1 ELSE @]

(* markCancelled: every unfinished step from fromIdx on is cancelled.      *)
MarkCancelled(run, fromIdx) ==
    [run EXCEPT
       !.status = "cancelled",
       !.stepStatus = [i \in Steps |->
            IF i >= fromIdx /\ ~IsWorkflowStepTerminal(run.stepStatus[i])
            THEN "cancelled" ELSE run.stepStatus[i]]]

(* Mutant: the step the replay starts from is not reset.                   *)
MutantResetFrom(run, start) ==
    [run EXCEPT
       !.status = "running",
       !.cancelRequested = FALSE,
       !.replayFrom = start,
       !.stepStatus = [i \in Steps |->
            IF i > start THEN "pending" ELSE run.stepStatus[i]],
       !.attempts = [i \in Steps |->
            IF i > start THEN 0 ELSE run.attempts[i]]]

(* ReplayRunFromStep: reset from start on, keep the stored decisions.      *)
ResetFrom(run, start) ==
    [run EXCEPT
       !.status = "running",
       !.cancelRequested = FALSE,
       !.replayFrom = start,
       !.stepStatus = [i \in Steps |->
            IF i >= start THEN "pending" ELSE run.stepStatus[i]],
       !.attempts = [i \in Steps |->
            IF i >= start THEN 0 ELSE run.attempts[i]]]

(* ResolveApproval: store the decision, unpause the step, reopen the run   *)
(* whatever its status was.                                                *)
WithDecision(run, i, dec) ==
    [run EXCEPT
       !.status = "running",
       !.decision[i] = dec,
       !.attempts[i] = 0,
       !.stepStatus[i] = IF @ = "paused" THEN "pending" ELSE @]

AllStepsOk(run) == \A i \in Steps : run.stepStatus[i] = "ok"

(* The first step that is not ok (defined when there is one).              *)
FirstUnsuccessfulStep(run) ==
    CHOOSE i \in Steps : /\ run.stepStatus[i] # "ok"
                         /\ \A j \in 1..(i-1) : run.stepStatus[j] = "ok"

(* The run status that goes with a step that did not succeed.              *)
FailureStatus(stepStatus) ==
    IF stepStatus = "timed_out" THEN "timed_out" ELSE "failed"

(* Mutant: the end of the loop is success, whatever the steps say.         *)
MutantFinalRun(run) == [run EXCEPT !.replayFrom = 0, !.status = "ok"]

(* The verdict resumeRunLocked reaches after its loop.                     *)
FinalRun(run) ==
    [run EXCEPT
       !.replayFrom = 0,
       !.status = IF AllStepsOk(run) THEN "ok"
                  ELSE FailureStatus(run.stepStatus[FirstUnsuccessfulStep(run)])]
=============================================================================
