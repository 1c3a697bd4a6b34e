-------------------------- MODULE WorkflowRuntime --------------------------
(***************************************************************************)
(* The durable workflow runtime (platform/workflow/runtime): processes     *)
(* ("drivers") that resume, replay and approve one persisted run under the *)
(* run lock, and processes ("cancellers") that set its cancel flag without *)
(* taking that lock.                                                       *)
(*                                                                         *)
(* The run lives in a store that loads and saves whole records atomically  *)
(* (WriteStateFile renames, PutItem replaces); every save is unconditional *)
(* (expected version "").  A step of the model has at most one store       *)
(* access, except that the first load happens with the lock acquisition    *)
(* and the release with the last save: no shared state changes hands in    *)
(* between.  A load or save that fails ends the call like a crash does:    *)
(* the in-memory record is dropped and the lock is freed.                  *)
(***************************************************************************)
EXTENDS RunRecord

CONSTANTS
    Drivers,      \* processes that call ResumeRun, ReplayRunFromStep, ...
    NoDriver,     \* "the lock is free"
    Cancellers,   \* processes that call CancelRun
    Budget        \* how often each environment event may happen

(* The environment events that are bounded for model checking.             *)
Events == {"crash", "replay", "approve", "create", "lapse", "cancel", "ctx"}

ASSUME BudgetAssumption == Budget \in [Events -> Nat]
ASSUME NoDriverAssumption == NoDriver \notin Drivers

VARIABLES
    store,     \* the persisted run record
    lock,      \* holder of the run lock
    pc,        \* per driver: where it is in the call it executes
    mem,       \* per driver: its in-memory copy of the run
    idx,       \* per driver: the loop index of resumeRunLocked
    attempt,   \* per driver: the loop counter of executeStep
    replayAt,  \* per driver: replayStartIdx of resumeRunLocked (0: none)
    ctx,       \* per driver: state of the caller's context
    cpc,       \* per canceller: idle, or between its load and its save
    cmem,      \* per canceller: the run it loaded
    acked,     \* history: a cancel was saved and not undone by a replay
    budget     \* what is left of Budget

driverVars == <<pc, mem, idx, attempt, replayAt, ctx>>
cancelVars == <<cpc, cmem, acked>>
vars == <<store, lock, driverVars, cancelVars, budget>>

Mutex == INSTANCE RunMutex

PC == {"idle", "load", "loop", "check", "loaded", "exec", "result", "retry",
       "backoff", "fail", "rsave", "asave"}

TypeOK ==
    /\ store \in Run
    /\ lock \in Drivers \cup {NoDriver}
    /\ pc \in [Drivers -> PC]
    /\ mem \in [Drivers -> Run]
    /\ idx \in [Drivers -> 1..(NumSteps + 1)]
    /\ attempt \in [Drivers -> Nat]
    /\ replayAt \in [Drivers -> 0..NumSteps]
    /\ ctx \in [Drivers -> {"live", "deadline", "cancelled"}]
    /\ cpc \in [Cancellers -> {"idle", "loaded"}]
    /\ cmem \in [Cancellers -> Run]
    /\ acked \in BOOLEAN
    /\ budget \in [Events -> Nat]

Init ==
    /\ store = FreshRun
    /\ Mutex!MutexInit
    /\ pc = [d \in Drivers |-> "idle"]
    /\ mem = [d \in Drivers |-> FreshRun]
    /\ idx = [d \in Drivers |-> 1]
    /\ attempt = [d \in Drivers |-> 0]
    /\ replayAt = [d \in Drivers |-> 0]
    /\ ctx = [d \in Drivers |-> "live"]
    /\ cpc = [c \in Cancellers |-> "idle"]
    /\ cmem = [c \in Cancellers |-> FreshRun]
    /\ acked = FALSE
    /\ budget = Budget

-----------------------------------------------------------------------------
(* Building blocks.                                                        *)

Spend(e) == budget[e] > 0 /\ budget' = [budget EXCEPT ![e] = @ - 1]

Goto(d, l) == pc' = [pc EXCEPT ![d] = l]

SetMem(d, run) == mem' = [mem EXCEPT ![d] = run]

(* saveRun: the whole record is written, whatever is stored by now.        *)
Save(run) == store' = run

(* The call ends: its locals are gone and its lock is released.            *)
Return(d) ==
    /\ Goto(d, "idle")
    /\ SetMem(d, FreshRun)
    /\ idx' = [idx EXCEPT ![d] = 1]
    /\ attempt' = [attempt EXCEPT ![d] = 0]
    /\ replayAt' = [replayAt EXCEPT ![d] = 0]
    /\ ctx' = [ctx EXCEPT ![d] = "live"]
    /\ Mutex!Release(d)

(* resumeRunLocked, from its loadRun to the head of its loop.              *)
EnterLoop(d) ==
    /\ ~NothingToResume(store)
    /\ SetMem(d, store)
    /\ idx' = [idx EXCEPT ![d] = 1]
    /\ replayAt' = [replayAt EXCEPT ![d] = store.replayFrom]
    /\ Goto(d, "loop")

(* The loop of resumeRunLocked moves on with the record executeStep gave.  *)
NextStep(d, run) ==
    /\ Goto(d, "loop")
    /\ SetMem(d, run)
    /\ idx' = [idx EXCEPT ![d] = @ + 1]
    /\ UNCHANGED <<attempt, replayAt, ctx, lock>>

(* executeStep came back without an error: a paused run ends the call.     *)
AfterStep(d, run) ==
    IF run.status = "paused" THEN Return(d) ELSE NextStep(d, run)

(* The loop stands at step idx[d] and has not decided about it yet.        *)
AtStep(d) ==
    /\ pc[d] = "loop"
    /\ idx[d] \in Steps
    /\ ~Skips(mem[d], replayAt[d], idx[d])

(* The step at idx[d] is neither paused nor in flight (any more).          *)
StepReady(d) ==
    \/ pc[d] = "check"
    \/ AtStep(d) /\ mem[d].stepStatus[idx[d]] \notin {"paused", "running"}

(* Mutant: one attempt too many.                                           *)
MutantExhausted(d) == mem[d].attempts[idx[d]] > MaxAttempts[idx[d]]

Exhausted(d) == mem[d].attempts[idx[d]] >= MaxAttempts[idx[d]]

-----------------------------------------------------------------------------
(* Calls that take the run lock.                                           *)

(* Mutant: the run is resumed whether or not its lock is free.             *)
MutantResumeRun(d) ==
    /\ pc[d] = "idle"
    /\ lock' = d
    /\ EnterLoop(d)
    /\ UNCHANGED <<store, attempt, ctx, cancelVars, budget>>

(* ResumeRun on a run that still has something to do.                      *)
ResumeRun(d) ==
    /\ pc[d] = "idle"
    /\ Mutex!Acquire(d)
    /\ EnterLoop(d)
    /\ UNCHANGED <<store, attempt, ctx, cancelVars, budget>>

(* resumeRunLocked as the tail of ReplayRunFromStep: the lock is held.     *)
ResumeLocked(d) ==
    /\ pc[d] = "load"
    /\ \/ EnterLoop(d) /\ UNCHANGED <<attempt, ctx, lock>>
       \/ NothingToResume(store) /\ Return(d)
    /\ UNCHANGED <<store, cancelVars, budget>>

ReplayRunFromStep(d, i) ==
    /\ pc[d] = "idle"
    /\ Spend("replay")
    /\ Mutex!Acquire(d)
    /\ SetMem(d, ResetFrom(store, i))
    /\ Goto(d, "rsave")
    /\ UNCHANGED <<store, idx, attempt, replayAt, ctx, cancelVars>>

SaveReplay(d) ==
    /\ pc[d] = "rsave"
    /\ Save(mem[d])
    /\ Goto(d, "load")
    /\ acked' = FALSE
    /\ UNCHANGED <<lock, mem, idx, attempt, replayAt, ctx, cpc, cmem, budget>>

ResolveApproval(d, i, dec) ==
    /\ pc[d] = "idle"
    /\ Spend("approve")
    /\ Mutex!Acquire(d)
    /\ SetMem(d, WithDecision(store, i, dec))
    /\ Goto(d, "asave")
    /\ UNCHANGED <<store, idx, attempt, replayAt, ctx, cancelVars>>

SaveApproval(d) ==
    /\ pc[d] = "asave"
    /\ Save(mem[d])
    /\ Return(d)
    /\ UNCHANGED <<cancelVars, budget>>

(* StartRun with the id of an existing run: CreateRun overwrites it before *)
(* any lock is taken.                                                      *)
CreateRun(d) ==
    /\ pc[d] = "idle"
    /\ Spend("create")
    /\ Save(FreshRun)
    /\ acked' = FALSE
    /\ UNCHANGED <<lock, driverVars, cpc, cmem>>

-----------------------------------------------------------------------------
(* The loop of resumeRunLocked.                                            *)

SkipStep(d) ==
    /\ pc[d] = "loop"
    /\ idx[d] \in Steps
    /\ Skips(mem[d], replayAt[d], idx[d])
    /\ NextStep(d, mem[d])
    /\ UNCHANGED <<store, cancelVars, budget>>

(* A paused step without a decision: the run is saved paused.              *)
AwaitApproval(d) ==
    /\ AtStep(d)
    /\ mem[d].stepStatus[idx[d]] = "paused"
    /\ mem[d].decision[idx[d]] = "none"
    /\ Save([mem[d] EXCEPT !.status = "paused"])
    /\ Return(d)
    /\ UNCHANGED <<cancelVars, budget>>

(* A paused step with a decision, or one whose process died, is requeued.  *)
RequeueStep(d) ==
    /\ AtStep(d)
    /\ LET i == idx[d]
           requeued == IF mem[d].stepStatus[i] = "running"
                       THEN RequeueInFlight(mem[d], i)
                       ELSE [mem[d] EXCEPT !.stepStatus[i] = "pending"]
       IN /\ \/ mem[d].stepStatus[i] = "running"
             \/ mem[d].stepStatus[i] = "paused" /\ mem[d].decision[i] # "none"
          /\ SetMem(d, requeued)
          /\ Save(requeued)
    /\ Goto(d, "check")
    /\ UNCHANGED <<lock, idx, attempt, replayAt, ctx, cancelVars, budget>>

(* The cancel flag seen between two steps.                                 *)
CancelBeforeStep(d) ==
    /\ StepReady(d)
    /\ mem[d].cancelRequested
    /\ Save(MarkCancelled(mem[d], idx[d]))
    /\ Return(d)
    /\ UNCHANGED <<cancelVars, budget>>

(* The end of the loop: ok only when every step is.                        *)
FinishRun(d) ==
    /\ pc[d] = "loop"
    /\ idx[d] = NumSteps + 1
    /\ Save(FinalRun(mem[d]))
    /\ Return(d)
    /\ UNCHANGED <<cancelVars, budget>>

-----------------------------------------------------------------------------
(* executeStep.                                                            *)

(* No attempt is left: a failed step fails the run, any other one is left  *)
(* as it is and the loop goes on.                                          *)
AttemptsExhausted(d) ==
    /\ StepReady(d)
    /\ ~mem[d].cancelRequested
    /\ Exhausted(d)
    /\ LET s == mem[d].stepStatus[idx[d]]
       IN \/ /\ s \in {"failed", "timed_out"}
             /\ Save([mem[d] EXCEPT !.status = FailureStatus(s)])
             /\ Return(d)
          \/ /\ s \notin {"failed", "timed_out"}
             /\ UNCHANGED store
             /\ AfterStep(d, mem[d])
    /\ UNCHANGED <<cancelVars, budget>>

(* Mutant: the retry does not count the attempt that failed.               *)
MutantLoadForAttempt(d) ==
    /\ \/ /\ StepReady(d)
          /\ ~mem[d].cancelRequested
          /\ ~Exhausted(d)
          /\ attempt' = [attempt EXCEPT ![d] = mem[d].attempts[idx[d]] + 1]
       \/ /\ pc[d] = "backoff"
          /\ ctx[d] = "live"
          /\ UNCHANGED attempt
    /\ SetMem(d, store)
    /\ Goto(d, "loaded")
    /\ UNCHANGED <<store, lock, idx, replayAt, ctx, cancelVars, budget>>

(* The head of the attempt loop: reload the run.                           *)
LoadForAttempt(d) ==
    /\ \/ /\ StepReady(d)
          /\ ~mem[d].cancelRequested
          /\ ~Exhausted(d)
          /\ attempt' = [attempt EXCEPT ![d] = mem[d].attempts[idx[d]] + 1]
       \/ /\ pc[d] = "backoff"
          /\ ctx[d] = "live"
          /\ attempt' = [attempt EXCEPT ![d] = @ + 1]
    /\ SetMem(d, store)
    /\ Goto(d, "loaded")
    /\ UNCHANGED <<store, lock, idx, replayAt, ctx, cancelVars, budget>>

(* The reloaded run carries the cancel flag: it is saved cancelled, and    *)
(* executeStep returns to the loop as if the step had been executed.       *)
CancelAtAttempt(d) ==
    /\ pc[d] = "loaded"
    /\ mem[d].cancelRequested
    /\ Save(MarkCancelled(mem[d], idx[d]))
    /\ NextStep(d, MarkCancelled(mem[d], idx[d]))
    /\ UNCHANGED <<cancelVars, budget>>

(* Mutant: the reloaded run's cancel flag is not looked at.                *)
MutantStartAttempt(d) ==
    /\ pc[d] = "loaded"
    /\ LET started == [mem[d] EXCEPT !.status = "running",
                                     !.stepStatus[idx[d]] = "running",
                                     !.attempts[idx[d]] = attempt[d]]
       IN SetMem(d, started) /\ Save(started)
    /\ Goto(d, "exec")
    /\ UNCHANGED <<lock, idx, attempt, replayAt, ctx, cancelVars, budget>>

(* An attempt of a run that is not to be cancelled is recorded before its  *)
(* handler is called.                                                      *)
StartAttempt(d) ==
    /\ pc[d] = "loaded"
    /\ ~mem[d].cancelRequested
    /\ LET started == [mem[d] EXCEPT !.status = "running",
                                     !.stepStatus[idx[d]] = "running",
                                     !.attempts[idx[d]] = attempt[d]]
       IN SetMem(d, started) /\ Save(started)
    /\ Goto(d, "exec")
    /\ UNCHANGED <<lock, idx, attempt, replayAt, ctx, cancelVars, budget>>

(* What the typed step handler can answer for the step in flight: a human  *)
(* approval step pauses until its input holds a decision; once the         *)
(* caller's context is done even a success counts as a failure.            *)
HandlerOutcomes(d) ==
    IF ctx[d] = "deadline" THEN {"timed_out"}
    ELSE IF ctx[d] = "cancelled" THEN {"failed"}
    ELSE IF idx[d] \notin ApprovalSteps THEN {"ok", "failed", "timed_out"}
    ELSE CASE mem[d].decision[idx[d]] = "none" -> {"paused"}
           [] mem[d].decision[idx[d]] = "other" -> {"failed"}
           [] OTHER -> {"ok"}

(* The handler returned; the run is reloaded and the result put into it.   *)
HandlerReturns(d) ==
    /\ pc[d] = "exec"
    /\ \E o \in HandlerOutcomes(d) :
          SetMem(d, [store EXCEPT
                       !.stepStatus[idx[d]] = o,
                       !.status = IF o = "paused" THEN "paused" ELSE @])
    /\ Goto(d, "result")
    /\ UNCHANGED <<store, lock, idx, attempt, replayAt, ctx, cancelVars, budget>>

SaveResult(d) ==
    /\ pc[d] = "result"
    /\ Save(mem[d])
    /\ LET s == mem[d].stepStatus[idx[d]]
       IN \/ s = "paused" /\ Return(d)
          \/ s = "ok" /\ AfterStep(d, mem[d])
          \/ /\ s \in {"failed", "timed_out"}
             /\ Goto(d, IF attempt[d] < MaxAttempts[idx[d]]
                        THEN "retry" ELSE "fail")
             /\ UNCHANGED <<lock, mem, idx, attempt, replayAt, ctx>>
    /\ UNCHANGED <<cancelVars, budget>>

RequeueForRetry(d) ==
    /\ pc[d] = "retry"
    /\ LET requeued == [mem[d] EXCEPT !.stepStatus[idx[d]] = "pending"]
       IN SetMem(d, requeued) /\ Save(requeued)
    /\ Goto(d, "backoff")
    /\ UNCHANGED <<lock, idx, attempt, replayAt, ctx, cancelVars, budget>>

(* The caller's context ended during the attempt or the backoff.           *)
AbortRetry(d) ==
    /\ pc[d] = "backoff"
    /\ ctx[d] # "live"
    /\ LET s == IF ctx[d] = "deadline" THEN "timed_out" ELSE "cancelled"
       IN Save([mem[d] EXCEPT !.status = s, !.stepStatus[idx[d]] = s])
    /\ Return(d)
    /\ UNCHANGED <<cancelVars, budget>>

(* The last attempt failed: the second save of the failure path.           *)
FailRun(d) ==
    /\ pc[d] = "fail"
    /\ Save([mem[d] EXCEPT
               !.status = FailureStatus(mem[d].stepStatus[idx[d]])])
    /\ Return(d)
    /\ UNCHANGED <<cancelVars, budget>>

-----------------------------------------------------------------------------
(* CancelRun: load, set the flag, save; no lock is taken.                  *)

CancelLoad(c) ==
    /\ cpc[c] = "idle"
    /\ Spend("cancel")
    /\ cpc' = [cpc EXCEPT ![c] = "loaded"]
    /\ cmem' = [cmem EXCEPT ![c] = store]
    /\ UNCHANGED <<store, lock, driverVars, acked>>

CancelSave(c) ==
    /\ cpc[c] = "loaded"
    /\ Save([cmem[c] EXCEPT !.cancelRequested = TRUE])
    /\ cpc' = [cpc EXCEPT ![c] = "idle"]
    /\ cmem' = [cmem EXCEPT ![c] = FreshRun]
    /\ acked' = TRUE
    /\ UNCHANGED <<lock, driverVars, budget>>

-----------------------------------------------------------------------------
(* The environment.                                                        *)

(* The process dies, or a load or save of its call fails.                  *)
Crash(d) ==
    /\ pc[d] # "idle"
    /\ Spend("crash")
    /\ Return(d)
    /\ UNCHANGED <<store, cancelVars>>

ContextDone(d) ==
    /\ pc[d] # "idle"
    /\ ctx[d] = "live"
    /\ Spend("ctx")
    /\ \E why \in {"deadline", "cancelled"} : ctx' = [ctx EXCEPT ![d] = why]
    /\ UNCHANGED <<store, lock, pc, mem, idx, attempt, replayAt, cancelVars>>

(* The lease of a working driver runs out.  The runtime never looks at the *)
(* heartbeat's error, so the driver goes on.                               *)
LeaseLapses(d) ==
    /\ Spend("lapse")
    /\ Mutex!Lapse(d)
    /\ UNCHANGED <<store, driverVars, cancelVars>>

-----------------------------------------------------------------------------
(* What a driver does on its own once it is in a call.                     *)
DriverStep(d) ==
    \/ ResumeLocked(d) \/ SaveReplay(d) \/ SaveApproval(d)
    \/ SkipStep(d) \/ AwaitApproval(d) \/ RequeueStep(d)
    \/ CancelBeforeStep(d) \/ FinishRun(d) \/ AttemptsExhausted(d)
    \/ LoadForAttempt(d) \/ CancelAtAttempt(d) \/ StartAttempt(d)
    \/ HandlerReturns(d) \/ SaveResult(d) \/ RequeueForRetry(d)
    \/ AbortRetry(d) \/ FailRun(d)

Next ==
    \/ \E d \in Drivers :
          \/ ResumeRun(d)
          \/ \E i \in Steps : ReplayRunFromStep(d, i)
          \/ \E i \in Steps, dec \in Decisions : ResolveApproval(d, i, dec)
          \/ CreateRun(d)
          \/ DriverStep(d)
          \/ Crash(d)
          \/ ContextDone(d)
          \/ LeaseLapses(d)
    \/ \E c \in Cancellers : CancelLoad(c) \/ CancelSave(c)

Spec == Init /\ [][Next]_vars

(* A call that was entered runs to its end unless its process dies, and    *)
(* a run that is not finished is resumed again and again.                  *)
Fairness ==
    /\ \A d \in Drivers : WF_vars(DriverStep(d))
    /\ WF_vars(\E d \in Drivers : ResumeRun(d))
    /\ \A c \in Cancellers : WF_vars(CancelSave(c))

FairSpec == Spec /\ Fairness

-----------------------------------------------------------------------------
(* Properties.                                                             *)

Verdict(run) ==
    /\ run.status = "ok" => AllStepsOk(run)
    /\ run.status \in {"failed", "timed_out"} => ~AllStepsOk(run)

(* The stored verdict never contradicts the stored steps: a run is "ok"    *)
(* only when every step is, and "failed" or "timed_out" only when some     *)
(* step is not (resumeRunLocked: a run with a non-OK step "must not be     *)
(* marked OK").  It must survive crashes between the two saves of a        *)
(* failure, replays past an earlier failed step and re-created runs.  It   *)
(* depends on the run lock: a driver that outlives its lease, or a         *)
(* canceller that writes back a verdict a replay has reopened, breaks it.  *)
RunVerdictMatchesSteps == Verdict(store)

(* While no lease lapses, a call that works on the run holds the run lock, *)
(* so one process at a time drives the run.                                *)
SingleDriver ==
    Budget["lapse"] = 0 => \A d \in Drivers : pc[d] # "idle" => lock = d

(* No process, zombie or not, frees a lock that another one holds: the     *)
(* lock leaves a driver only when that driver's call ends or its own lease *)
(* lapses.                                                                 *)
OthersLockUntouched ==
    [][\A d \in Drivers : lock = d /\ lock' # d =>
          \/ pc[d] # "idle" /\ pc'[d] = "idle"
          \/ budget'["lapse"] < budget["lapse"]]_vars

(* Retries stay within the step's limit in the stored record and in every  *)
(* handler call, whatever mixture of crashes, requeues, approvals and      *)
(* stale writes produced the attempt count they start from.                *)
AttemptsBounded ==
    /\ \A i \in Steps : store.attempts[i] <= MaxAttempts[i]
    /\ \A d \in Drivers :
          pc[d] = "exec" => attempt[d] \in 1..MaxAttempts[idx[d]]

(* A handler runs only after every earlier step the loop was responsible   *)
(* for is ok, as far as the record saved for that attempt says: no step    *)
(* overtakes a failed, paused, cancelled or still running one.             *)
OrderedExecution ==
    \A d \in Drivers : pc[d] = "exec" =>
        \A j \in Steps :
            (replayAt[d] <= j /\ j < idx[d]) => mem[d].stepStatus[j] = "ok"

(* A handler is not started for a step that is already ok, outside of a    *)
(* replay.                                                                 *)
NoRedo ==
    [][\A d \in Drivers :
         pc[d] = "loaded" /\ pc'[d] = "exec" /\ replayAt[d] = 0
           => store.stepStatus[idx[d]] # "ok"]_vars

(* A cancel that was acknowledged to its caller is still in the record     *)
(* (CancelRun: "The request is honored on the next transition boundary").  *)
AckedCancelPersists == acked => store.cancelRequested

(* A driver has read the cancel flag.                                      *)
CancelSeen == \E d \in Drivers : pc[d] # "idle" /\ mem[d].cancelRequested

(* A cancel that a driver has seen is not lost any more, and no handler is *)
(* running or will be started: not by a retry, a later resume, or a driver *)
(* that takes over after a crash, and not when another canceller puts an   *)
(* older record back.  So the run ends cancelled, or with the verdict on   *)
(* the steps that had come to an end by then.  (A cancel that nobody has   *)
(* seen yet can be lost: AckedCancelPersists.)                             *)
SeenCancelStops ==
    [](CancelSeen =>
         [](store.cancelRequested /\ \A d \in Drivers : pc[d] # "exec"))

(* A run whose steps never wait for a human ends, however often its        *)
(* drivers crash (finitely often), retry or are cancelled.                 *)
RunEnds == <>[]IsWorkflowRunTerminal(store.status)

(* The run as its operators see it.                                        *)
Lifecycle == INSTANCE RunLifecycle WITH
    status <- store.status,
    done <- {i \in Steps : store.stepStatus[i] = "ok"},
    from <- store.replayFrom,
    asked <- \E d \in Drivers : pc[d] \in {"rsave", "asave"}

(* The runtime implements the abstract run lifecycle.                      *)
ImplementsLifecycle == Lifecycle!LifecycleSpec
=============================================================================
