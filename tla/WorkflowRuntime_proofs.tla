----------------------- MODULE WorkflowRuntime_proofs -----------------------
(***************************************************************************)
(* Theorems about the workflow runtime for every number of steps, drivers  *)
(* and cancellers and every budget of environment events.                  *)
(***************************************************************************)
EXTENDS WorkflowRuntime, TLAPS

(* The record updates of the runtime yield run records.                    *)
LEMMA FreshRunType == FreshRun \in Run
  BY NumStepsAssumption
  DEF FreshRun, Run, RunStatus, StepStatus

LEMMA RequeueInFlightType ==
  ASSUME NEW run \in Run, NEW i \in Steps
  PROVE  RequeueInFlight(run, i) \in Run
<1> DEFINE left == IF run.attempts[i] > 0
                   THEN run.attempts[i] - 1 ELSE run.attempts[i]
<1>1. run.attempts \in [Steps -> Nat]
  BY DEF Run
<1>2. left \in Nat
  BY <1>1
<1>3. RequeueInFlight(run, i) =
        [run EXCEPT !.stepStatus = [run.stepStatus EXCEPT ![i] = "pending"],
                    !.attempts = [run.attempts EXCEPT ![i] = left]]
  BY DEF RequeueInFlight, Run
<1> HIDE DEF left
<1>4. [run.attempts EXCEPT ![i] = left] \in [Steps -> Nat]
  BY <1>1, <1>2
<1>5. [run.stepStatus EXCEPT ![i] = "pending"] \in [Steps -> StepStatus]
  BY DEF Run, StepStatus
<1>6. QED
  BY <1>3, <1>4, <1>5 DEF Run

LEMMA MarkCancelledType ==
  ASSUME NEW run \in Run, NEW i \in Nat
  PROVE  MarkCancelled(run, i) \in Run
  BY DEF MarkCancelled, Run, RunStatus, StepStatus

LEMMA ResetFromType ==
  ASSUME NEW run \in Run, NEW i \in Steps
  PROVE  ResetFrom(run, i) \in Run
<1> DEFINE st == [j \in Steps |-> IF j >= i THEN "pending"
                                  ELSE run.stepStatus[j]]
           at == [j \in Steps |-> IF j >= i THEN 0 ELSE run.attempts[j]]
<1>1. st \in [Steps -> StepStatus] /\ at \in [Steps -> Nat]
  BY DEF Run, StepStatus
<1>2. i \in 0..NumSteps /\ "running" \in RunStatus
  BY NumStepsAssumption DEF Steps, RunStatus
<1>3. ResetFrom(run, i) =
        [run EXCEPT !.status = "running", !.cancelRequested = FALSE,
                    !.replayFrom = i, !.stepStatus = st, !.attempts = at]
  BY DEF ResetFrom
<1> HIDE DEF st, at
<1>4. QED
  BY <1>1, <1>2, <1>3 DEF Run

LEMMA WithDecisionType ==
  ASSUME NEW run \in Run, NEW i \in Steps, NEW dec \in Decisions
  PROVE  WithDecision(run, i, dec) \in Run
  BY DEF WithDecision, Run, RunStatus, StepStatus

LEMMA SetStatusType ==
  ASSUME NEW run \in Run, NEW s \in RunStatus
  PROVE  [run EXCEPT !.status = s] \in Run
  BY DEF Run

LEMMA SetStepType ==
  ASSUME NEW run \in Run, NEW s \in StepStatus, NEW i \in Steps
  PROVE  [run EXCEPT !.stepStatus[i] = s] \in Run
  BY DEF Run

LEMMA FinalRunType ==
  ASSUME NEW run \in Run
  PROVE  FinalRun(run) \in Run
<1> DEFINE s == IF AllStepsOk(run) THEN "ok"
                ELSE FailureStatus(run.stepStatus[FirstUnsuccessfulStep(run)])
<1>1. s \in RunStatus
  BY DEF FailureStatus, RunStatus
<1>2. FinalRun(run) = [run EXCEPT !.replayFrom = 0, !.status = s]
  BY DEF FinalRun
<1> HIDE DEF s
<1>3. 0 \in 0..NumSteps
  BY NumStepsAssumption
<1>4. QED
  BY <1>1, <1>2, <1>3 DEF Run

-----------------------------------------------------------------------------
(* Type correctness.  The loop index is a step wherever executeStep uses   *)
(* it, and only there: that is what makes TypeOK inductive.                *)

InStep == {"check", "loaded", "exec", "result", "retry", "backoff", "fail"}

DriverType ==
    /\ lock \in Drivers \cup {NoDriver}
    /\ pc \in [Drivers -> PC]
    /\ mem \in [Drivers -> Run]
    /\ idx \in [Drivers -> 1..(NumSteps + 1)]
    /\ attempt \in [Drivers -> Nat]
    /\ replayAt \in [Drivers -> 0..NumSteps]
    /\ ctx \in [Drivers -> {"live", "deadline", "cancelled"}]
    /\ \A d \in Drivers : pc[d] \in InStep => idx[d] \in Steps

OtherType ==
    /\ store \in Run
    /\ cpc \in [Cancellers -> {"idle", "loaded"}]
    /\ cmem \in [Cancellers -> Run]
    /\ acked \in BOOLEAN
    /\ budget \in [Events -> Nat]

TypeInv == DriverType /\ OtherType

LEMMA ReturnType ==
  ASSUME TypeInv, NEW d \in Drivers, Return(d)
  PROVE  DriverType'
  BY FreshRunType, NumStepsAssumption
  DEF TypeInv, DriverType, Return, Goto, SetMem, Mutex!Release, PC, InStep

LEMMA NextStepType ==
  ASSUME TypeInv, NEW d \in Drivers, idx[d] \in Steps,
         NEW run \in Run, NextStep(d, run)
  PROVE  DriverType'
  BY NumStepsAssumption
  DEF TypeInv, DriverType, NextStep, Goto, SetMem, PC, InStep, Steps

LEMMA AfterStepType ==
  ASSUME TypeInv, NEW d \in Drivers, idx[d] \in Steps,
         NEW run \in Run, AfterStep(d, run)
  PROVE  DriverType'
  BY ReturnType, NextStepType DEF AfterStep

(* A step the loop is about to execute is a step of the workflow.          *)
LEMMA ReadyIndex ==
  ASSUME TypeInv, NEW d \in Drivers, StepReady(d)
  PROVE  idx[d] \in Steps
  BY DEF TypeInv, DriverType, StepReady, AtStep, InStep

LEMMA SpendType ==
  ASSUME TypeInv, NEW e \in Events, Spend(e)
  PROVE  budget' \in [Events -> Nat]
  BY DEF TypeInv, OtherType, Spend

LEMMA TypeInvInit == Init => TypeInv
<1> SUFFICES ASSUME Init PROVE TypeInv
  OBVIOUS
<1>1. 1 \in 1..(NumSteps + 1) /\ 0 \in 0..NumSteps
  BY NumStepsAssumption
<1>2. DriverType
  BY <1>1, FreshRunType DEF Init, DriverType, Mutex!MutexInit, PC, InStep
<1>3. OtherType
  BY FreshRunType, BudgetAssumption DEF Init, OtherType
<1>4. QED
  BY <1>2, <1>3 DEF TypeInv

LEMMA TypeInvStep == TypeInv /\ [Next]_vars => TypeInv'
<1> SUFFICES ASSUME TypeInv, [Next]_vars PROVE TypeInv'
  OBVIOUS
<1> USE DEF TypeInv
<1>u. CASE UNCHANGED vars
  BY <1>u DEF vars, driverVars, cancelVars, DriverType, OtherType
<1>a. ASSUME NEW d \in Drivers, ResumeRun(d) PROVE TypeInv'
  BY <1>a, NumStepsAssumption
  DEF ResumeRun, EnterLoop, Goto, SetMem, Mutex!Acquire, cancelVars,
      DriverType, OtherType, PC, InStep, Run
<1>b. ASSUME NEW d \in Drivers, NEW i \in Steps, ReplayRunFromStep(d, i)
      PROVE  TypeInv'
  <2>1. ResetFrom(store, i) \in Run
    BY ResetFromType DEF OtherType
  <2>2. budget' \in [Events -> Nat]
    BY <1>b, SpendType DEF ReplayRunFromStep, Events
  <2>3. QED
    BY <1>b, <2>1, <2>2
    DEF ReplayRunFromStep, Goto, SetMem, Mutex!Acquire, cancelVars,
        DriverType, OtherType, PC, InStep
<1>c. ASSUME NEW d \in Drivers, NEW i \in Steps, NEW dec \in Decisions,
             ResolveApproval(d, i, dec)
      PROVE  TypeInv'
  <2>1. WithDecision(store, i, dec) \in Run
    BY WithDecisionType DEF OtherType
  <2>2. budget' \in [Events -> Nat]
    BY <1>c, SpendType DEF ResolveApproval, Events
  <2>3. QED
    BY <1>c, <2>1, <2>2
    DEF ResolveApproval, Goto, SetMem, Mutex!Acquire, cancelVars,
        DriverType, OtherType, PC, InStep
<1>d. ASSUME NEW d \in Drivers, CreateRun(d) PROVE TypeInv'
  <2>1. budget' \in [Events -> Nat]
    BY <1>d, SpendType DEF CreateRun, Events
  <2>2. QED
    BY <1>d, <2>1, FreshRunType
    DEF CreateRun, Save, driverVars, DriverType, OtherType
<1>e. ASSUME NEW d \in Drivers, DriverStep(d) PROVE TypeInv'
  <2>1. CASE ResumeLocked(d)
    <3>1. CASE EnterLoop(d) /\ UNCHANGED <<attempt, ctx, lock>>
      BY <2>1, <3>1, NumStepsAssumption
      DEF ResumeLocked, EnterLoop, Goto, SetMem, cancelVars,
          DriverType, OtherType, PC, InStep, Run
    <3>2. CASE Return(d)
      BY <2>1, <3>2, ReturnType DEF ResumeLocked, cancelVars, OtherType
    <3>3. QED
      BY <2>1, <3>1, <3>2 DEF ResumeLocked
  <2>2. CASE SaveReplay(d)
    BY <2>2 DEF SaveReplay, Save, Goto, DriverType, OtherType, PC, InStep
  <2>3. CASE SaveApproval(d)
    BY <2>3, ReturnType
    DEF SaveApproval, Save, cancelVars, DriverType, OtherType
  <2>4. CASE SkipStep(d)
    BY <2>4, NextStepType DEF SkipStep, cancelVars, DriverType, OtherType
  <2>5. CASE AwaitApproval(d)
    <3>1. [mem[d] EXCEPT !.status = "paused"] \in Run
      BY SetStatusType DEF DriverType, RunStatus
    <3>2. QED
      BY <2>5, <3>1, ReturnType
      DEF AwaitApproval, Save, cancelVars, OtherType
  <2>6. CASE RequeueStep(d)
    <3>1. idx[d] \in Steps /\ mem[d] \in Run
      BY <2>6 DEF RequeueStep, AtStep, DriverType
    <3>2. /\ RequeueInFlight(mem[d], idx[d]) \in Run
          /\ [mem[d] EXCEPT !.stepStatus[idx[d]] = "pending"] \in Run
      BY <3>1, RequeueInFlightType, SetStepType DEF StepStatus
    <3>3. QED
      BY <2>6, <3>1, <3>2
      DEF RequeueStep, SetMem, Save, Goto, cancelVars,
          DriverType, OtherType, PC, InStep
  <2>7. CASE CancelBeforeStep(d)
    <3>1. MarkCancelled(mem[d], idx[d]) \in Run
      BY MarkCancelledType, NumStepsAssumption DEF DriverType
    <3>2. QED
      BY <2>7, <3>1, ReturnType
      DEF CancelBeforeStep, Save, cancelVars, OtherType
  <2>8. CASE FinishRun(d)
    <3>1. FinalRun(mem[d]) \in Run
      BY FinalRunType DEF DriverType
    <3>2. QED
      BY <2>8, <3>1, ReturnType DEF FinishRun, Save, cancelVars, OtherType
  <2>9. CASE AttemptsExhausted(d)
    <3> DEFINE s == mem[d].stepStatus[idx[d]]
    <3>1. idx[d] \in Steps /\ mem[d] \in Run
      BY <2>9, ReadyIndex DEF AttemptsExhausted, DriverType
    <3>2. [mem[d] EXCEPT !.status = FailureStatus(s)] \in Run
      BY <3>1, SetStatusType DEF FailureStatus, RunStatus
    <3>3. CASE Save([mem[d] EXCEPT !.status = FailureStatus(s)]) /\ Return(d)
      BY <2>9, <3>2, <3>3, ReturnType
      DEF AttemptsExhausted, Save, cancelVars, OtherType
    <3>4. CASE UNCHANGED store /\ AfterStep(d, mem[d])
      BY <2>9, <3>1, <3>4, AfterStepType
      DEF AttemptsExhausted, cancelVars, OtherType
    <3>5. QED
      BY <2>9, <3>3, <3>4 DEF AttemptsExhausted
  <2>10. CASE LoadForAttempt(d)
    <3>1. idx[d] \in Steps
      BY <2>10, ReadyIndex DEF LoadForAttempt, DriverType, InStep
    <3>2. mem[d].attempts[idx[d]] + 1 \in Nat /\ attempt[d] + 1 \in Nat
      BY <3>1 DEF DriverType, Run
    <3>3. attempt' \in [Drivers -> Nat]
      BY <2>10, <3>2 DEF LoadForAttempt, DriverType
    <3>4. QED
      BY <2>10, <3>1, <3>3
      DEF LoadForAttempt, SetMem, Goto, cancelVars,
          DriverType, OtherType, PC, InStep
  <2>11. CASE CancelAtAttempt(d)
    <3>1. idx[d] \in Steps /\ MarkCancelled(mem[d], idx[d]) \in Run
      BY <2>11, MarkCancelledType, NumStepsAssumption
      DEF CancelAtAttempt, DriverType, InStep, Steps
    <3>2. QED
      BY <2>11, <3>1, NextStepType
      DEF CancelAtAttempt, Save, cancelVars, OtherType
  <2>12. CASE StartAttempt(d)
    <3> DEFINE started == [mem[d] EXCEPT !.status = "running",
                                         !.stepStatus[idx[d]] = "running",
                                         !.attempts[idx[d]] = attempt[d]]
    <3>1. idx[d] \in Steps /\ attempt[d] \in Nat /\ mem[d] \in Run
      BY <2>12 DEF StartAttempt, DriverType, InStep
    <3>2. started \in Run
      BY <3>1 DEF Run, RunStatus, StepStatus
    <3>3. store' = started /\ mem' = [mem EXCEPT ![d] = started]
      BY <2>12 DEF StartAttempt, Save, SetMem
    <3> HIDE DEF started
    <3>4. QED
      BY <2>12, <3>1, <3>2, <3>3
      DEF StartAttempt, Goto, cancelVars, DriverType, OtherType, PC, InStep
  <2>13. CASE HandlerReturns(d)
    <3>1. PICK o \in HandlerOutcomes(d) :
            SetMem(d, [store EXCEPT
                         !.stepStatus[idx[d]] = o,
                         !.status = IF o = "paused" THEN "paused" ELSE @])
      BY <2>13 DEF HandlerReturns
    <3>2. o \in StepStatus
      BY DEF HandlerOutcomes, StepStatus
    <3>3. idx[d] \in Steps
      BY <2>13 DEF HandlerReturns, DriverType, InStep
    <3>4. [store EXCEPT !.stepStatus[idx[d]] = o,
                        !.status = IF o = "paused" THEN "paused" ELSE @] \in Run
      BY <3>2, <3>3 DEF OtherType, Run, RunStatus
    <3>5. QED
      BY <2>13, <3>1, <3>3, <3>4
      DEF HandlerReturns, SetMem, Goto, cancelVars,
          DriverType, OtherType, PC, InStep
  <2>14. CASE SaveResult(d)
    <3>1. idx[d] \in Steps /\ mem[d] \in Run
      BY <2>14 DEF SaveResult, DriverType, InStep
    <3>2. CASE Return(d)
      BY <2>14, <3>1, <3>2, ReturnType
      DEF SaveResult, Save, cancelVars, OtherType
    <3>3. CASE AfterStep(d, mem[d])
      BY <2>14, <3>1, <3>3, AfterStepType
      DEF SaveResult, Save, cancelVars, OtherType
    <3>4. CASE /\ Goto(d, IF attempt[d] < MaxAttempts[idx[d]]
                          THEN "retry" ELSE "fail")
               /\ UNCHANGED <<lock, mem, idx, attempt, replayAt, ctx>>
      BY <2>14, <3>1, <3>4
      DEF SaveResult, Save, Goto, cancelVars, DriverType, OtherType, PC, InStep
    <3>5. QED
      BY <2>14, <3>2, <3>3, <3>4 DEF SaveResult
  <2>15. CASE RequeueForRetry(d)
    <3>1. idx[d] \in Steps /\ mem[d] \in Run
      BY <2>15 DEF RequeueForRetry, DriverType, InStep
    <3>2. [mem[d] EXCEPT !.stepStatus[idx[d]] = "pending"] \in Run
      BY <3>1, SetStepType DEF StepStatus
    <3>3. QED
      BY <2>15, <3>1, <3>2
      DEF RequeueForRetry, SetMem, Save, Goto, cancelVars,
          DriverType, OtherType, PC, InStep
  <2>16. CASE AbortRetry(d)
    <3>1. idx[d] \in Steps /\ mem[d] \in Run
      BY <2>16 DEF AbortRetry, DriverType, InStep
    <3>2. PICK s \in {"timed_out", "cancelled"} :
            store' = [mem[d] EXCEPT !.status = s, !.stepStatus[idx[d]] = s]
      BY <2>16 DEF AbortRetry, Save
    <3>3. store' \in Run
      BY <3>1, <3>2 DEF Run, RunStatus, StepStatus
    <3>4. QED
      BY <2>16, <3>3, ReturnType DEF AbortRetry, cancelVars, OtherType
  <2>17. CASE FailRun(d)
    <3>1. [mem[d] EXCEPT !.status = FailureStatus(mem[d].stepStatus[idx[d]])]
            \in Run
      BY SetStatusType DEF FailureStatus, RunStatus, DriverType
    <3>2. QED
      BY <2>17, <3>1, ReturnType DEF FailRun, Save, cancelVars, OtherType
  <2>18. QED
    BY <1>e, <2>1, <2>2, <2>3, <2>4, <2>5, <2>6, <2>7, <2>8, <2>9, <2>10,
       <2>11, <2>12, <2>13, <2>14, <2>15, <2>16, <2>17 DEF DriverStep
<1>f. ASSUME NEW d \in Drivers, Crash(d) PROVE TypeInv'
  BY <1>f, ReturnType, SpendType DEF Crash, Events, cancelVars, OtherType
<1>g. ASSUME NEW d \in Drivers, ContextDone(d) PROVE TypeInv'
  <2>1. budget' \in [Events -> Nat]
    BY <1>g, SpendType DEF ContextDone, Events
  <2>2. QED
    BY <1>g, <2>1 DEF ContextDone, cancelVars, DriverType, OtherType
<1>h. ASSUME NEW d \in Drivers, LeaseLapses(d) PROVE TypeInv'
  <2>1. budget' \in [Events -> Nat]
    BY <1>h, SpendType DEF LeaseLapses, Events
  <2>2. QED
    BY <1>h, <2>1
    DEF LeaseLapses, Mutex!Lapse, driverVars, cancelVars, DriverType, OtherType
<1>i. ASSUME NEW c \in Cancellers, CancelLoad(c) PROVE TypeInv'
  <2>1. budget' \in [Events -> Nat]
    BY <1>i, SpendType DEF CancelLoad, Events
  <2>2. QED
    BY <1>i, <2>1 DEF CancelLoad, driverVars, DriverType, OtherType
<1>j. ASSUME NEW c \in Cancellers, CancelSave(c) PROVE TypeInv'
  <2>1. [cmem[c] EXCEPT !.cancelRequested = TRUE] \in Run
    BY DEF OtherType, Run
  <2>2. QED
    BY <1>j, <2>1, FreshRunType
    DEF CancelSave, Save, driverVars, DriverType, OtherType
<1>q. QED
  BY <1>u, <1>a, <1>b, <1>c, <1>d, <1>e, <1>f, <1>g, <1>h, <1>i, <1>j DEF Next

(* Every reachable state is well typed: in particular the loop index never *)
(* leaves the step table and no attempt count becomes negative, however    *)
(* the calls, crashes, cancels and lapsed leases interleave.               *)
THEOREM TypeCorrect == Spec => []TypeOK
<1>1. TypeInv => TypeOK
  BY DEF TypeInv, DriverType, OtherType, TypeOK
<1>2. QED
  BY <1>1, TypeInvInit, TypeInvStep, PTL DEF Spec

-----------------------------------------------------------------------------
(* The run lock.                                                           *)

(* How one step moves the drivers and the lock: it begins or continues the *)
(* call of one driver, ends it, or lets a lease lapse.                     *)
Begins(d) == pc[d] = "idle" /\ lock = NoDriver /\ lock' = d
Continues(d) == pc[d] # "idle" /\ lock' = lock
Ends(d) ==
    /\ pc[d] # "idle"
    /\ pc'[d] = "idle"
    /\ lock' = IF lock = d THEN NoDriver ELSE lock

LEMMA ReturnEnds ==
  ASSUME TypeInv, NEW d \in Drivers, pc[d] # "idle", Return(d)
  PROVE  Ends(d) /\ \A e \in Drivers \ {d} : pc'[e] = pc[e]
  BY DEF TypeInv, DriverType, Return, Goto, Mutex!Release, Ends

LEMMA DriverStepMoves ==
  ASSUME TypeInv, NEW d \in Drivers, DriverStep(d)
  PROVE  /\ Continues(d) \/ Ends(d)
         /\ \A e \in Drivers \ {d} : pc'[e] = pc[e]
         /\ budget' = budget
<1>1. pc[d] # "idle" /\ budget' = budget
  BY DEF DriverStep, ResumeLocked, SaveReplay, SaveApproval, SkipStep,
         AwaitApproval, RequeueStep, CancelBeforeStep, FinishRun,
         AttemptsExhausted, LoadForAttempt, CancelAtAttempt, StartAttempt,
         HandlerReturns, SaveResult, RequeueForRetry, AbortRetry, FailRun,
         StepReady, AtStep
<1>2. \/ Return(d)
      \/ lock' = lock /\ \E l \in PC : Goto(d, l)
  BY DEF DriverStep, ResumeLocked, SaveReplay, SaveApproval, SkipStep,
         AwaitApproval, RequeueStep, CancelBeforeStep, FinishRun,
         AttemptsExhausted, LoadForAttempt, CancelAtAttempt, StartAttempt,
         HandlerReturns, SaveResult, RequeueForRetry, AbortRetry, FailRun,
         EnterLoop, NextStep, AfterStep, PC
<1>3. CASE Return(d)
  BY <1>1, <1>3, ReturnEnds
<1>4. CASE lock' = lock /\ \E l \in PC : Goto(d, l)
  BY <1>1, <1>4 DEF Goto, Continues, TypeInv, DriverType
<1>5. QED
  BY <1>1, <1>2, <1>3, <1>4

LEMMA NextMoves ==
  ASSUME TypeInv, [Next]_vars
  PROVE  \/ /\ \E d \in Drivers :
                 /\ Begins(d) \/ Continues(d) \/ Ends(d)
                 /\ \A e \in Drivers \ {d} : pc'[e] = pc[e]
            /\ budget'["lapse"] = budget["lapse"]
         \/ /\ pc' = pc /\ lock' = lock
            /\ budget'["lapse"] = budget["lapse"]
         \/ /\ budget["lapse"] > 0
            /\ budget'["lapse"] = budget["lapse"] - 1
<1>u. CASE UNCHANGED vars
  BY <1>u DEF vars, driverVars
<1>a. ASSUME NEW d \in Drivers, ResumeRun(d)
      PROVE  /\ Begins(d) /\ budget' = budget
             /\ \A e \in Drivers \ {d} : pc'[e] = pc[e]
  BY <1>a DEF ResumeRun, EnterLoop, Goto, Mutex!Acquire, Begins, TypeInv,
              DriverType
<1>b. ASSUME NEW d \in Drivers, NEW i \in Steps, ReplayRunFromStep(d, i)
      PROVE  /\ Begins(d) /\ budget'["lapse"] = budget["lapse"]
             /\ \A e \in Drivers \ {d} : pc'[e] = pc[e]
  BY <1>b DEF ReplayRunFromStep, Goto, Mutex!Acquire, Begins, Spend, Events,
              TypeInv, DriverType, OtherType
<1>c. ASSUME NEW d \in Drivers, NEW i \in Steps, NEW dec \in Decisions,
             ResolveApproval(d, i, dec)
      PROVE  /\ Begins(d) /\ budget'["lapse"] = budget["lapse"]
             /\ \A e \in Drivers \ {d} : pc'[e] = pc[e]
  BY <1>c DEF ResolveApproval, Goto, Mutex!Acquire, Begins, Spend, Events,
              TypeInv, DriverType, OtherType
<1>d. ASSUME NEW d \in Drivers, CreateRun(d)
      PROVE  pc' = pc /\ lock' = lock /\ budget'["lapse"] = budget["lapse"]
  BY <1>d DEF CreateRun, driverVars, Spend, Events, TypeInv, OtherType
<1>f. ASSUME NEW d \in Drivers, Crash(d)
      PROVE  /\ Ends(d) /\ budget'["lapse"] = budget["lapse"]
             /\ \A e \in Drivers \ {d} : pc'[e] = pc[e]
  BY <1>f, ReturnEnds DEF Crash, Spend, Events, TypeInv, OtherType
<1>g. ASSUME NEW d \in Drivers, ContextDone(d)
      PROVE  pc' = pc /\ lock' = lock /\ budget'["lapse"] = budget["lapse"]
  BY <1>g DEF ContextDone, Spend, Events, TypeInv, OtherType
<1>h. ASSUME NEW d \in Drivers, LeaseLapses(d)
      PROVE  budget["lapse"] > 0 /\ budget'["lapse"] = budget["lapse"] - 1
  BY <1>h DEF LeaseLapses, Spend, Events, TypeInv, OtherType
<1>i. ASSUME NEW c \in Cancellers, CancelLoad(c) \/ CancelSave(c)
      PROVE  pc' = pc /\ lock' = lock /\ budget'["lapse"] = budget["lapse"]
  BY <1>i DEF CancelLoad, CancelSave, driverVars, Spend, Events, TypeInv,
              OtherType
<1>q. QED
  BY <1>u, <1>a, <1>b, <1>c, <1>d, <1>f, <1>g, <1>h, <1>i, DriverStepMoves
  DEF Next

LockInv ==
    Budget["lapse"] = 0 =>
        /\ budget["lapse"] = 0
        /\ \A d \in Drivers : pc[d] # "idle" => lock = d

LEMMA LockInvInit == Init => LockInv
  BY DEF Init, LockInv

LEMMA LockInvStep == TypeInv /\ LockInv /\ [Next]_vars => LockInv'
  BY NextMoves, NoDriverAssumption
  DEF LockInv, Begins, Continues, Ends, TypeInv, DriverType

(* While no lease lapses one process at a time drives the run: every call  *)
(* in progress holds the run lock.                                         *)
THEOREM LockHeldByDriver == Spec => []SingleDriver
<1>1. LockInv => SingleDriver
  BY DEF LockInv, SingleDriver
<1>2. QED
  BY <1>1, TypeInvInit, TypeInvStep, LockInvInit, LockInvStep, PTL DEF Spec

(* No process ever frees a lock that another one holds, not even after its *)
(* own lease has lapsed and been taken over.                               *)
THEOREM LockOwnership == Spec => OthersLockUntouched
<1>1. TypeInv /\ [Next]_vars =>
        [\A d \in Drivers : lock = d /\ lock' # d =>
            \/ pc[d] # "idle" /\ pc'[d] = "idle"
            \/ budget'["lapse"] < budget["lapse"]]_vars
  BY NextMoves, NoDriverAssumption
  DEF Begins, Continues, Ends, TypeInv, OtherType, Events
<1>2. QED
  BY <1>1, TypeInvInit, TypeInvStep, PTL DEF Spec, OthersLockUntouched

-----------------------------------------------------------------------------
(* How one step moves the locals of the drivers.                            *)

(* A step of driver d leaves the locals of the other drivers alone.        *)
OthersUnchanged(d) ==
    \A e \in Drivers \ {d} :
        /\ pc'[e] = pc[e] /\ mem'[e] = mem[e]
        /\ idx'[e] = idx[e] /\ attempt'[e] = attempt[e]

(* The locals of a driver whose call ended.                                *)
Reset(d) == pc'[d] = "idle" /\ mem'[d] = FreshRun

LEMMA ReturnResets ==
  ASSUME TypeInv, NEW d \in Drivers, Return(d)
  PROVE  Reset(d) /\ OthersUnchanged(d)
  BY DEF TypeInv, DriverType, Return, Goto, SetMem, Reset, OthersUnchanged

LEMMA NextStepMoves ==
  ASSUME TypeInv, NEW d \in Drivers, NEW run, NextStep(d, run)
  PROVE  pc'[d] = "loop" /\ mem'[d] = run /\ OthersUnchanged(d)
  BY DEF TypeInv, DriverType, NextStep, Goto, SetMem, OthersUnchanged

LEMMA AfterStepMoves ==
  ASSUME TypeInv, NEW d \in Drivers, NEW run, AfterStep(d, run)
  PROVE  /\ Reset(d) \/ (pc'[d] = "loop" /\ mem'[d] = run)
         /\ OthersUnchanged(d)
  BY ReturnResets, NextStepMoves DEF AfterStep

-----------------------------------------------------------------------------
(* Attempts.                                                               *)

Bounded(run) == \A i \in Steps : run.attempts[i] <= MaxAttempts[i]

InAttempt == {"loaded", "exec", "result", "retry", "backoff", "fail"}

(* The attempt counter of a driver inside executeStep's loop.              *)
AttemptOf(d) ==
    /\ Bounded(mem[d])
    /\ pc[d] \in InAttempt => attempt[d] \in 1..MaxAttempts[idx[d]]
    /\ pc[d] \in {"retry", "backoff"} => attempt[d] < MaxAttempts[idx[d]]

(* Every copy of the record has to be bounded: any of them may be saved.   *)
AttemptInv ==
    /\ Bounded(store)
    /\ \A d \in Drivers : AttemptOf(d)
    /\ \A c \in Cancellers : Bounded(cmem[c])

LEMMA FreshRunBounded == Bounded(FreshRun)
  BY MaxAttemptsAssumption DEF Bounded, FreshRun

(* Only the attempt counts decide whether a record is bounded.             *)
LEMMA SameAttempts ==
  ASSUME NEW run, NEW other, Bounded(run), other.attempts = run.attempts
  PROVE  Bounded(other)
  BY DEF Bounded

LEMMA ResetFromBounded ==
  ASSUME NEW run \in Run, NEW i \in Steps, Bounded(run)
  PROVE  Bounded(ResetFrom(run, i))
  BY MaxAttemptsAssumption DEF Bounded, ResetFrom, Run

LEMMA WithDecisionBounded ==
  ASSUME NEW run \in Run, NEW i \in Steps, NEW dec, Bounded(run)
  PROVE  Bounded(WithDecision(run, i, dec))
  BY MaxAttemptsAssumption DEF Bounded, WithDecision, Run

LEMMA RequeueInFlightBounded ==
  ASSUME NEW run \in Run, NEW i \in Steps, Bounded(run)
  PROVE  Bounded(RequeueInFlight(run, i))
<1> DEFINE left == IF run.attempts[i] > 0
                   THEN run.attempts[i] - 1 ELSE run.attempts[i]
<1>1. RequeueInFlight(run, i).attempts = [run.attempts EXCEPT ![i] = left]
  BY DEF RequeueInFlight, Run
<1>2. left <= run.attempts[i] /\ left \in Nat
  BY DEF Run
<1> HIDE DEF left
<1>3. QED
  BY <1>1, <1>2, MaxAttemptsAssumption DEF Bounded, Run

(* A step that ends the call of d and saves a bounded record.              *)
LEMMA AttemptReturn ==
  ASSUME TypeInv, AttemptInv, NEW d \in Drivers, Return(d), Bounded(store'),
         cmem' = cmem
  PROVE  AttemptInv'
  BY ReturnResets, FreshRunBounded
  DEF AttemptInv, AttemptOf, Reset, OthersUnchanged, InAttempt

LEMMA AttemptLoop ==
  ASSUME TypeInv, AttemptInv, NEW d \in Drivers, NEW run, Bounded(run),
         AfterStep(d, run) \/ NextStep(d, run), Bounded(store'), cmem' = cmem
  PROVE  AttemptInv'
  BY AfterStepMoves, NextStepMoves, FreshRunBounded
  DEF AttemptInv, AttemptOf, Reset, OthersUnchanged, InAttempt

LEMMA AttemptInit == Init => AttemptInv
  BY FreshRunBounded DEF Init, AttemptInv, AttemptOf, InAttempt

LEMMA AttemptStep == TypeInv /\ AttemptInv /\ [Next]_vars => AttemptInv'
<1> SUFFICES ASSUME TypeInv, AttemptInv, [Next]_vars PROVE AttemptInv'
  OBVIOUS
<1>u. CASE UNCHANGED vars
  BY <1>u DEF vars, driverVars, cancelVars, AttemptInv, AttemptOf, Bounded
<1>a. ASSUME NEW d \in Drivers, ResumeRun(d) PROVE AttemptInv'
  BY <1>a
  DEF ResumeRun, EnterLoop, Goto, SetMem, cancelVars, AttemptInv, AttemptOf,
      Bounded, InAttempt, TypeInv, DriverType
<1>b. ASSUME NEW d \in Drivers, NEW i \in Steps, ReplayRunFromStep(d, i)
      PROVE  AttemptInv'
  <2>1. Bounded(ResetFrom(store, i))
    BY ResetFromBounded DEF AttemptInv, TypeInv, OtherType
  <2>2. QED
    BY <1>b, <2>1
    DEF ReplayRunFromStep, Goto, SetMem, cancelVars, AttemptInv, AttemptOf,
        Bounded, InAttempt, TypeInv, DriverType
<1>c. ASSUME NEW d \in Drivers, NEW i \in Steps, NEW dec \in Decisions,
             ResolveApproval(d, i, dec)
      PROVE  AttemptInv'
  <2>1. Bounded(WithDecision(store, i, dec))
    BY WithDecisionBounded DEF AttemptInv, TypeInv, OtherType
  <2>2. QED
    BY <1>c, <2>1
    DEF ResolveApproval, Goto, SetMem, cancelVars, AttemptInv, AttemptOf,
        Bounded, InAttempt, TypeInv, DriverType
<1>d. ASSUME NEW d \in Drivers, CreateRun(d) PROVE AttemptInv'
  BY <1>d, FreshRunBounded
  DEF CreateRun, Save, driverVars, AttemptInv, AttemptOf, Bounded
<1>e. ASSUME NEW d \in Drivers, DriverStep(d) PROVE AttemptInv'
  <2>0. /\ mem[d] \in Run /\ Bounded(mem[d])
        /\ store \in Run /\ Bounded(store)
    BY DEF AttemptInv, AttemptOf, TypeInv, DriverType, OtherType
  <2>1. CASE ResumeLocked(d)
    <3>1. CASE EnterLoop(d) /\ UNCHANGED <<attempt, ctx, lock>>
      BY <2>1, <3>1
      DEF ResumeLocked, EnterLoop, Goto, SetMem, cancelVars, AttemptInv,
          AttemptOf, Bounded, InAttempt, TypeInv, DriverType
    <3>2. CASE Return(d)
      BY <2>0, <2>1, <3>2, AttemptReturn
      DEF ResumeLocked, cancelVars, Bounded
    <3>3. QED
      BY <2>1, <3>1, <3>2 DEF ResumeLocked
  <2>2. CASE SaveReplay(d)
    BY <2>0, <2>2
    DEF SaveReplay, Save, Goto, AttemptInv, AttemptOf, Bounded, InAttempt,
        TypeInv, DriverType
  <2>3. CASE SaveApproval(d)
    BY <2>0, <2>3, AttemptReturn DEF SaveApproval, Save, cancelVars, Bounded
  <2>4. CASE SkipStep(d)
    BY <2>0, <2>4, AttemptLoop DEF SkipStep, cancelVars, Bounded
  <2>5. CASE AwaitApproval(d)
    BY <2>0, <2>5, AttemptReturn
    DEF AwaitApproval, Save, cancelVars, Bounded, Run
  <2>6. CASE RequeueStep(d)
    <3>1. idx[d] \in Steps
      BY <2>6 DEF RequeueStep, AtStep
    <3>2. /\ Bounded(RequeueInFlight(mem[d], idx[d]))
          /\ Bounded([mem[d] EXCEPT !.stepStatus[idx[d]] = "pending"])
      BY <2>0, <3>1, RequeueInFlightBounded, SameAttempts DEF Run
    <3>3. QED
      BY <2>6, <3>2
      DEF RequeueStep, SetMem, Save, Goto, cancelVars, AttemptInv, AttemptOf,
          Bounded, InAttempt, TypeInv, DriverType
  <2>7. CASE CancelBeforeStep(d)
    BY <2>0, <2>7, AttemptReturn
    DEF CancelBeforeStep, MarkCancelled, Save, cancelVars, Bounded, Run
  <2>8. CASE FinishRun(d)
    BY <2>0, <2>8, AttemptReturn
    DEF FinishRun, FinalRun, Save, cancelVars, Bounded, Run
  <2>9. CASE AttemptsExhausted(d)
    <3> DEFINE s == mem[d].stepStatus[idx[d]]
    <3>1. CASE Save([mem[d] EXCEPT !.status = FailureStatus(s)]) /\ Return(d)
      BY <2>0, <2>9, <3>1, AttemptReturn
      DEF AttemptsExhausted, Save, cancelVars, Bounded, Run
    <3>2. CASE UNCHANGED store /\ AfterStep(d, mem[d])
      BY <2>0, <2>9, <3>2, AttemptLoop
      DEF AttemptsExhausted, cancelVars, Bounded
    <3>3. QED
      BY <2>9, <3>1, <3>2 DEF AttemptsExhausted
  <2>10. CASE LoadForAttempt(d)
    <3>1. idx[d] \in Steps
      BY <2>10, ReadyIndex DEF LoadForAttempt, TypeInv, DriverType, InStep
    <3>2. /\ attempt'[d] \in 1..MaxAttempts[idx[d]]
          /\ \A e \in Drivers \ {d} : attempt'[e] = attempt[e]
      BY <2>10, <2>0, <3>1, MaxAttemptsAssumption
      DEF LoadForAttempt, Exhausted, AttemptInv, AttemptOf, InAttempt, TypeInv,
          DriverType, Run
    <3>3. QED
      BY <2>0, <2>10, <3>2
      DEF LoadForAttempt, SetMem, Goto, cancelVars, AttemptInv, AttemptOf,
          Bounded, InAttempt, TypeInv, DriverType
  <2>11. CASE CancelAtAttempt(d)
    <3>1. Bounded(MarkCancelled(mem[d], idx[d]))
      BY <2>0 DEF MarkCancelled, Bounded, Run
    <3>2. QED
      BY <2>11, <3>1, AttemptLoop DEF CancelAtAttempt, Save, cancelVars, Bounded
  <2>12. CASE StartAttempt(d)
    <3> DEFINE started == [mem[d] EXCEPT !.status = "running",
                                         !.stepStatus[idx[d]] = "running",
                                         !.attempts[idx[d]] = attempt[d]]
    <3>1. idx[d] \in Steps /\ attempt[d] \in 1..MaxAttempts[idx[d]]
      BY <2>12
      DEF StartAttempt, TypeInv, DriverType, InStep, AttemptInv, AttemptOf,
          InAttempt
    <3>2. Bounded(started)
      BY <2>0, <3>1, MaxAttemptsAssumption DEF Bounded, Run
    <3>3. store' = started /\ mem' = [mem EXCEPT ![d] = started]
      BY <2>12 DEF StartAttempt, Save, SetMem
    <3> HIDE DEF started
    <3>4. QED
      BY <2>12, <3>1, <3>2, <3>3
      DEF StartAttempt, Goto, cancelVars, AttemptInv, AttemptOf, Bounded,
          InAttempt, TypeInv, DriverType
  <2>13. CASE HandlerReturns(d)
    <3>1. PICK o : mem' = [mem EXCEPT ![d] =
                      [store EXCEPT
                         !.stepStatus[idx[d]] = o,
                         !.status = IF o = "paused" THEN "paused" ELSE @]]
      BY <2>13 DEF HandlerReturns, SetMem
    <3>2. Bounded(mem'[d]) /\ \A e \in Drivers \ {d} : mem'[e] = mem[e]
      BY <2>0, <3>1 DEF Bounded, Run, TypeInv, DriverType
    <3>3. QED
      BY <2>13, <3>2
      DEF HandlerReturns, Goto, cancelVars, AttemptInv, AttemptOf, Bounded,
          InAttempt, TypeInv, DriverType
  <2>14. CASE SaveResult(d)
    <3>1. Bounded(store') /\ cmem' = cmem
      BY <2>0, <2>14 DEF SaveResult, Save, cancelVars, Bounded
    <3>2. CASE Return(d)
      BY <3>1, <3>2, AttemptReturn
    <3>3. CASE AfterStep(d, mem[d])
      BY <2>0, <3>1, <3>3, AttemptLoop
    <3>4. CASE /\ Goto(d, IF attempt[d] < MaxAttempts[idx[d]]
                          THEN "retry" ELSE "fail")
               /\ UNCHANGED <<lock, mem, idx, attempt, replayAt, ctx>>
      BY <2>14, <3>1, <3>4
      DEF SaveResult, Goto, AttemptInv, AttemptOf, Bounded, InAttempt, TypeInv,
          DriverType
    <3>5. QED
      BY <2>14, <3>2, <3>3, <3>4 DEF SaveResult
  <2>15. CASE RequeueForRetry(d)
    <3>1. Bounded([mem[d] EXCEPT !.stepStatus[idx[d]] = "pending"])
      BY <2>0, SameAttempts DEF Run
    <3>2. QED
      BY <2>15, <3>1
      DEF RequeueForRetry, SetMem, Save, Goto, cancelVars, AttemptInv,
          AttemptOf, Bounded, InAttempt, TypeInv, DriverType
  <2>16. CASE AbortRetry(d)
    <3>1. PICK s : store' = [mem[d] EXCEPT !.status = s,
                                           !.stepStatus[idx[d]] = s]
      BY <2>16 DEF AbortRetry, Save
    <3>2. Bounded(store')
      BY <2>0, <3>1 DEF Bounded, Run
    <3>3. QED
      BY <2>16, <3>2, AttemptReturn DEF AbortRetry, cancelVars
  <2>17. CASE FailRun(d)
    BY <2>0, <2>17, AttemptReturn DEF FailRun, Save, cancelVars, Bounded, Run
  <2>18. QED
    BY <1>e, <2>1, <2>2, <2>3, <2>4, <2>5, <2>6, <2>7, <2>8, <2>9, <2>10,
       <2>11, <2>12, <2>13, <2>14, <2>15, <2>16, <2>17 DEF DriverStep
<1>f. ASSUME NEW d \in Drivers, Crash(d) PROVE AttemptInv'
  BY <1>f, AttemptReturn DEF Crash, cancelVars, AttemptInv, Bounded
<1>g. ASSUME NEW d \in Drivers, ContextDone(d) PROVE AttemptInv'
  BY <1>g DEF ContextDone, cancelVars, AttemptInv, AttemptOf, Bounded
<1>h. ASSUME NEW d \in Drivers, LeaseLapses(d) PROVE AttemptInv'
  BY <1>h
  DEF LeaseLapses, driverVars, cancelVars, AttemptInv, AttemptOf, Bounded
<1>i. ASSUME NEW c \in Cancellers, CancelLoad(c) PROVE AttemptInv'
  BY <1>i
  DEF CancelLoad, driverVars, AttemptInv, AttemptOf, Bounded, TypeInv, OtherType
<1>j. ASSUME NEW c \in Cancellers, CancelSave(c) PROVE AttemptInv'
  <2>1. Bounded([cmem[c] EXCEPT !.cancelRequested = TRUE])
    BY DEF AttemptInv, Bounded, TypeInv, OtherType, Run
  <2>2. QED
    BY <1>j, <2>1, FreshRunBounded
    DEF CancelSave, Save, driverVars, AttemptInv, AttemptOf, Bounded, TypeInv,
        OtherType
<1>q. QED
  BY <1>u, <1>a, <1>b, <1>c, <1>d, <1>e, <1>f, <1>g, <1>h, <1>i, <1>j DEF Next

(* No handler is called more often than the step's limit allows within one *)
(* count, and no stored count exceeds the limit: for every mixture of      *)
(* crashes, requeues, replays, approvals, lapsed leases and stale saves.   *)
THEOREM AttemptsWithinLimit == Spec => []AttemptsBounded
<1>1. AttemptInv => AttemptsBounded
  BY DEF AttemptInv, AttemptOf, AttemptsBounded, Bounded, InAttempt
<1>2. QED
  BY <1>1, TypeInvInit, TypeInvStep, AttemptInit, AttemptStep, PTL DEF Spec

-----------------------------------------------------------------------------
(* The verdict.  A canceller writes back whole records without the lock    *)
(* and a lapsed lease lets two drivers write, so both are excluded.        *)

OnlyLockedWriters == Cancellers = {} /\ Budget["lapse"] = 0

(* What the in-memory record of a driver says of the run, by position.     *)
VerdictOf(d) ==
    /\ pc[d] \in {"loop", "check"} => mem[d].status # "ok"
    /\ pc[d] = "exec" => store.status = "running"
    /\ pc[d] \in {"result", "retry", "backoff", "fail"} =>
          mem[d].status \in {"running", "paused"}
    /\ pc[d] = "fail" => mem[d].stepStatus[idx[d]] \in {"failed", "timed_out"}
    /\ pc[d] \in {"rsave", "asave"} => mem[d].status = "running"

(* A finished replay clears its starting point, so ResumeRun never drives  *)
(* a run that is ok.                                                       *)
VerdictInv ==
    /\ Verdict(store)
    /\ store.status = "ok" => store.replayFrom = 0
    /\ \A d \in Drivers : VerdictOf(d)

(* The records that may be stored.                                         *)
Sound(run) == Verdict(run) /\ (run.status = "ok" => run.replayFrom = 0)

LEMMA FreshRunSound == Sound(FreshRun)
  BY DEF Sound, Verdict, FreshRun, AllStepsOk, Steps

LEMMA OpenRunSound ==
  ASSUME NEW run, run.status \in {"running", "paused", "cancelled"}
  PROVE  Sound(run)
  BY DEF Sound, Verdict

LEMMA UnfinishedRunSound ==
  ASSUME NEW run, run.status # "ok", NEW i \in Steps, run.stepStatus[i] # "ok"
  PROVE  Sound(run)
  BY DEF Sound, Verdict, AllStepsOk

LEMMA FinalRunSound ==
  ASSUME NEW run \in Run
  PROVE  Sound(FinalRun(run))
<1> DEFINE s == FailureStatus(run.stepStatus[FirstUnsuccessfulStep(run)])
<1>1. s \in {"failed", "timed_out"}
  BY DEF FailureStatus
<1>2. /\ FinalRun(run).status = IF AllStepsOk(run) THEN "ok" ELSE s
      /\ FinalRun(run).replayFrom = 0
      /\ FinalRun(run).stepStatus = run.stepStatus
  BY DEF FinalRun, Run
<1> HIDE DEF s
<1>3. AllStepsOk(FinalRun(run)) <=> AllStepsOk(run)
  BY <1>2 DEF AllStepsOk
<1>4. QED
  BY <1>1, <1>2, <1>3 DEF Sound, Verdict

(* While no lease lapses the driver that works is the only one.            *)
LEMMA HolderAlone ==
  ASSUME LockInv, Budget["lapse"] = 0, NEW d \in Drivers, pc[d] # "idle"
  PROVE  \A e \in Drivers \ {d} : pc[e] = "idle"
  BY NoDriverAssumption DEF LockInv

(* While d holds the lock every other driver is idle.                      *)
LEMMA OthersIdle ==
  ASSUME LockInv, OnlyLockedWriters, NEW d \in Drivers, pc[d] # "idle"
  PROVE  \A e \in Drivers \ {d} : pc[e] = "idle"
  BY HolderAlone DEF OnlyLockedWriters

(* A step of d that leaves the others idle and stores a sound record only  *)
(* has to re-establish VerdictOf(d).                                       *)
LEMMA VerdictFrame ==
  ASSUME NEW d \in Drivers, \A e \in Drivers \ {d} : pc'[e] = "idle",
         Sound(store)', VerdictOf(d)'
  PROVE  VerdictInv'
  BY DEF VerdictInv, VerdictOf, Sound

LEMMA VerdictReturn ==
  ASSUME TypeInv, LockInv, OnlyLockedWriters, NEW d \in Drivers,
         pc[d] # "idle", Return(d), Sound(store)'
  PROVE  VerdictInv'
<1>1. \A e \in Drivers \ {d} : pc'[e] = "idle"
  BY OthersIdle, ReturnResets DEF OthersUnchanged
<1>2. VerdictOf(d)'
  BY ReturnResets DEF Reset, VerdictOf
<1>3. QED
  BY <1>1, <1>2, VerdictFrame

LEMMA VerdictLoop ==
  ASSUME TypeInv, LockInv, OnlyLockedWriters, NEW d \in Drivers, NEW run,
         pc[d] # "idle", run.status # "ok",
         AfterStep(d, run) \/ NextStep(d, run), Sound(store)'
  PROVE  VerdictInv'
<1>1. \A e \in Drivers \ {d} : pc'[e] = "idle"
  BY OthersIdle, AfterStepMoves, NextStepMoves DEF OthersUnchanged
<1>2. VerdictOf(d)'
  BY AfterStepMoves, NextStepMoves DEF Reset, VerdictOf
<1>3. QED
  BY <1>1, <1>2, VerdictFrame

LEMMA VerdictInit == Init => VerdictInv
  BY FreshRunSound DEF Init, VerdictInv, VerdictOf, Sound

LEMMA VerdictStep ==
  ASSUME OnlyLockedWriters
  PROVE  TypeInv /\ LockInv /\ VerdictInv /\ [Next]_vars => VerdictInv'
<1> SUFFICES ASSUME TypeInv, LockInv, VerdictInv, [Next]_vars
             PROVE  VerdictInv'
  OBVIOUS
<1>s. Sound(store)
  BY DEF VerdictInv, Sound
<1>u. CASE UNCHANGED vars
  BY <1>u DEF vars, driverVars, VerdictInv, VerdictOf, Verdict, AllStepsOk
<1>x. ASSUME NEW d \in Drivers, pc[d] = "idle", lock = NoDriver
      PROVE  \A e \in Drivers : pc[e] = "idle"
  BY <1>x, NoDriverAssumption DEF LockInv, OnlyLockedWriters
<1>a. ASSUME NEW d \in Drivers, ResumeRun(d) PROVE VerdictInv'
  <2>1. \A e \in Drivers \ {d} : pc'[e] = "idle"
    BY <1>a, <1>x
    DEF ResumeRun, EnterLoop, Goto, Mutex!Acquire, TypeInv, DriverType
  <2>2. store.status # "ok"
    BY <1>a
    DEF ResumeRun, EnterLoop, NothingToResume, IsWorkflowRunTerminal, VerdictInv
  <2>3. pc'[d] = "loop" /\ mem'[d] = store /\ store' = store
    BY <1>a
    DEF ResumeRun, EnterLoop, Goto, SetMem, TypeInv, DriverType
  <2>4. VerdictOf(d)' /\ Sound(store)'
    BY <1>s, <2>2, <2>3 DEF VerdictOf, Sound, Verdict, AllStepsOk
  <2>5. QED
    BY <2>1, <2>4, VerdictFrame
<1>b. ASSUME NEW d \in Drivers, NEW i \in Steps, ReplayRunFromStep(d, i)
      PROVE  VerdictInv'
  <2>1. \A e \in Drivers \ {d} : pc'[e] = "idle"
    BY <1>b, <1>x
    DEF ReplayRunFromStep, Goto, Mutex!Acquire, TypeInv, DriverType
  <2>2. ResetFrom(store, i).status = "running"
    BY DEF ResetFrom, TypeInv, OtherType, Run
  <2>3. /\ pc'[d] = "rsave" /\ mem'[d] = ResetFrom(store, i)
        /\ store' = store
    BY <1>b DEF ReplayRunFromStep, Goto, SetMem, TypeInv, DriverType
  <2>4. VerdictOf(d)' /\ Sound(store)'
    BY <1>s, <2>2, <2>3 DEF VerdictOf, Sound, Verdict, AllStepsOk
  <2>5. QED
    BY <2>1, <2>4, VerdictFrame
<1>c. ASSUME NEW d \in Drivers, NEW i \in Steps, NEW dec \in Decisions,
             ResolveApproval(d, i, dec)
      PROVE  VerdictInv'
  <2>1. \A e \in Drivers \ {d} : pc'[e] = "idle"
    BY <1>c, <1>x
    DEF ResolveApproval, Goto, Mutex!Acquire, TypeInv, DriverType
  <2>2. WithDecision(store, i, dec).status = "running"
    BY DEF WithDecision, TypeInv, OtherType, Run
  <2>3. /\ pc'[d] = "asave" /\ mem'[d] = WithDecision(store, i, dec)
        /\ store' = store
    BY <1>c DEF ResolveApproval, Goto, SetMem, TypeInv, DriverType
  <2>4. VerdictOf(d)' /\ Sound(store)'
    BY <1>s, <2>2, <2>3 DEF VerdictOf, Sound, Verdict, AllStepsOk
  <2>5. QED
    BY <2>1, <2>4, VerdictFrame
<1>d. ASSUME NEW d \in Drivers, CreateRun(d) PROVE VerdictInv'
  <2>1. \A e \in Drivers : pc[e] = "exec" => FreshRun.status = "running"
    BY NumStepsAssumption
    DEF FreshRun, TypeInv, DriverType, InStep, Steps
  <2>2. QED
    BY <1>d, <2>1, FreshRunSound
    DEF CreateRun, Save, driverVars, VerdictInv, VerdictOf, Sound, Verdict,
        AllStepsOk
<1>e. ASSUME NEW d \in Drivers, DriverStep(d) PROVE VerdictInv'
  <2>0. pc[d] # "idle"
    BY <1>e, DriverStepMoves DEF Continues, Ends
  <2>i. /\ \A e \in Drivers \ {d} : pc'[e] = "idle"
        /\ mem[d] \in Run /\ store \in Run /\ VerdictOf(d)
    BY <1>e, <2>0, OthersIdle, DriverStepMoves
    DEF TypeInv, DriverType, OtherType, VerdictInv
  <2>r. ASSUME Return(d), Sound(store)' PROVE VerdictInv'
    BY <2>0, <2>r, VerdictReturn
  <2>1. CASE ResumeLocked(d)
    <3>1. store' = store /\ Sound(store)'
      BY <1>s, <2>1 DEF ResumeLocked, Sound, Verdict, AllStepsOk
    <3>2. CASE EnterLoop(d)
      <4>1. store.status # "ok" /\ pc'[d] = "loop" /\ mem'[d] = store
        BY <3>2
        DEF EnterLoop, NothingToResume, IsWorkflowRunTerminal, VerdictInv,
            Goto, SetMem, TypeInv, DriverType
      <4>2. VerdictOf(d)'
        BY <4>1 DEF VerdictOf
      <4>3. QED
        BY <2>i, <3>1, <4>2, VerdictFrame
    <3>3. QED
      BY <2>1, <2>r, <3>1, <3>2 DEF ResumeLocked
  <2>2. CASE SaveReplay(d)
    <3>1. Sound(store)' /\ pc'[d] = "load"
      BY <2>2, <2>i, OpenRunSound
      DEF SaveReplay, Save, Goto, VerdictOf, Sound, Verdict, AllStepsOk,
          TypeInv, DriverType
    <3>2. QED
      BY <2>i, <3>1, VerdictFrame DEF VerdictOf
  <2>3. CASE SaveApproval(d)
    BY <2>3, <2>i, <2>r, OpenRunSound
    DEF SaveApproval, Save, VerdictOf, Sound, Verdict, AllStepsOk
  <2>4. CASE SkipStep(d)
    BY <1>s, <2>0, <2>4, <2>i, VerdictLoop
    DEF SkipStep, VerdictOf, Sound, Verdict, AllStepsOk
  <2>5. CASE AwaitApproval(d)
    <3>1. store'.status = "paused"
      BY <2>5, <2>i DEF AwaitApproval, Save, Run
    <3>2. QED
      BY <2>5, <2>r, <3>1 DEF AwaitApproval, Sound, Verdict
  <2>6. CASE RequeueStep(d)
    <3>1. idx[d] \in Steps
      BY <2>6 DEF RequeueStep, AtStep
    <3>2. /\ store'.status = mem[d].status
          /\ store'.stepStatus[idx[d]] = "pending"
          /\ mem'[d] = store' /\ pc'[d] = "check"
      BY <2>6, <2>i, <3>1
      DEF RequeueStep, RequeueInFlight, SetMem, Save, Goto, TypeInv, DriverType,
          Run
    <3>3. mem[d].status # "ok"
      BY <2>6, <2>i DEF RequeueStep, AtStep, VerdictOf
    <3>4. Sound(store)' /\ VerdictOf(d)'
      BY <3>1, <3>2, <3>3 DEF Sound, Verdict, AllStepsOk, VerdictOf
    <3>5. QED
      BY <2>i, <3>4, VerdictFrame
  <2>7. CASE CancelBeforeStep(d)
    <3>1. store'.status = "cancelled"
      BY <2>7, <2>i DEF CancelBeforeStep, MarkCancelled, Save, Run
    <3>2. QED
      BY <2>7, <2>r, <3>1 DEF CancelBeforeStep, Sound, Verdict
  <2>8. CASE FinishRun(d)
    BY <2>8, <2>i, <2>r, FinalRunSound
    DEF FinishRun, Save, Sound, Verdict, AllStepsOk
  <2>9. CASE AttemptsExhausted(d)
    <3> DEFINE s == mem[d].stepStatus[idx[d]]
    <3>1. idx[d] \in Steps /\ mem[d].status # "ok"
      BY <2>9, <2>i, ReadyIndex
      DEF AttemptsExhausted, StepReady, AtStep, VerdictOf
    <3>2. CASE /\ s \in {"failed", "timed_out"}
               /\ Save([mem[d] EXCEPT !.status = FailureStatus(s)])
               /\ Return(d)
      <4>1. /\ store'.status \in {"failed", "timed_out"}
            /\ store'.stepStatus[idx[d]] # "ok"
        BY <2>i, <3>2 DEF Save, FailureStatus, Run
      <4>2. Sound(store)'
        BY <3>1, <4>1 DEF Sound, Verdict, AllStepsOk
      <4>3. QED
        BY <2>r, <3>2, <4>2
    <3>3. CASE UNCHANGED store /\ AfterStep(d, mem[d])
      BY <1>s, <2>0, <3>1, <3>3, VerdictLoop DEF Sound, Verdict, AllStepsOk
    <3>4. QED
      BY <2>9, <3>2, <3>3 DEF AttemptsExhausted
  <2>10. CASE LoadForAttempt(d)
    <3>1. pc'[d] = "loaded" /\ store' = store
      BY <2>10 DEF LoadForAttempt, Goto, TypeInv, DriverType
    <3>2. QED
      BY <1>s, <2>i, <3>1, VerdictFrame
      DEF VerdictOf, Sound, Verdict, AllStepsOk
  <2>11. CASE CancelAtAttempt(d)
    <3>1. MarkCancelled(mem[d], idx[d]).status = "cancelled"
      BY <2>i DEF MarkCancelled, Run
    <3>2. Sound(store)'
      BY <2>11, <3>1 DEF CancelAtAttempt, Save, Sound, Verdict
    <3>3. QED
      BY <2>0, <2>11, <3>1, <3>2, VerdictLoop DEF CancelAtAttempt
  <2>12. CASE StartAttempt(d)
    <3>1. store'.status = "running" /\ pc'[d] = "exec"
      BY <2>12, <2>i DEF StartAttempt, Save, Goto, Run, TypeInv, DriverType
    <3>2. QED
      BY <2>i, <3>1, VerdictFrame DEF VerdictOf, Sound, Verdict
  <2>13. CASE HandlerReturns(d)
    <3>1. PICK o : mem' = [mem EXCEPT ![d] =
                      [store EXCEPT
                         !.stepStatus[idx[d]] = o,
                         !.status = IF o = "paused" THEN "paused" ELSE @]]
      BY <2>13 DEF HandlerReturns, SetMem
    <3>2. mem'[d].status \in {"running", "paused"}
      BY <2>13, <2>i, <3>1
      DEF HandlerReturns, VerdictOf, Run, TypeInv, DriverType
    <3>3. pc'[d] = "result" /\ store' = store
      BY <2>13 DEF HandlerReturns, Goto, TypeInv, DriverType
    <3>4. QED
      BY <1>s, <2>i, <3>2, <3>3, VerdictFrame
      DEF VerdictOf, Sound, Verdict, AllStepsOk
  <2>14. CASE SaveResult(d)
    <3>1. store' = mem[d] /\ mem[d].status \in {"running", "paused"}
      BY <2>14, <2>i DEF SaveResult, Save, VerdictOf
    <3>2. Sound(store)'
      BY <3>1 DEF Sound, Verdict
    <3>3. CASE AfterStep(d, mem[d])
      BY <2>0, <3>1, <3>2, <3>3, VerdictLoop
    <3>4. CASE /\ mem[d].stepStatus[idx[d]] \in {"failed", "timed_out"}
               /\ Goto(d, IF attempt[d] < MaxAttempts[idx[d]]
                          THEN "retry" ELSE "fail")
               /\ UNCHANGED <<lock, mem, idx, attempt, replayAt, ctx>>
      <4>1. VerdictOf(d)'
        BY <3>1, <3>4 DEF Goto, VerdictOf, TypeInv, DriverType
      <4>2. QED
        BY <2>i, <3>2, <4>1, VerdictFrame
    <3>5. QED
      BY <2>14, <2>r, <3>2, <3>3, <3>4 DEF SaveResult
  <2>15. CASE RequeueForRetry(d)
    <3>1. /\ store'.status \in {"running", "paused"}
          /\ mem'[d] = store' /\ pc'[d] = "backoff"
      BY <2>15, <2>i
      DEF RequeueForRetry, SetMem, Save, Goto, VerdictOf, Run, TypeInv,
          DriverType
    <3>2. QED
      BY <2>i, <3>1, VerdictFrame DEF VerdictOf, Sound, Verdict
  <2>16. CASE AbortRetry(d)
    <3>1. idx[d] \in Steps
      BY <2>16 DEF AbortRetry, TypeInv, DriverType, InStep
    <3>2. PICK s \in {"timed_out", "cancelled"} :
            store' = [mem[d] EXCEPT !.status = s, !.stepStatus[idx[d]] = s]
      BY <2>16 DEF AbortRetry, Save
    <3>3. store'.status # "ok" /\ store'.stepStatus[idx[d]] # "ok"
      BY <2>i, <3>1, <3>2 DEF Run
    <3>4. Sound(store)'
      BY <3>1, <3>3 DEF Sound, Verdict, AllStepsOk
    <3>5. QED
      BY <2>16, <2>r, <3>4 DEF AbortRetry
  <2>17. CASE FailRun(d)
    <3>1. idx[d] \in Steps
      BY <2>17 DEF FailRun, TypeInv, DriverType, InStep
    <3>2. store'.status # "ok" /\ store'.stepStatus[idx[d]] # "ok"
      BY <2>17, <2>i DEF FailRun, Save, FailureStatus, VerdictOf, Run
    <3>3. Sound(store)'
      BY <3>1, <3>2 DEF Sound, Verdict, AllStepsOk
    <3>4. QED
      BY <2>17, <2>r, <3>3 DEF FailRun
  <2>18. QED
    BY <1>e, <2>1, <2>2, <2>3, <2>4, <2>5, <2>6, <2>7, <2>8, <2>9, <2>10,
       <2>11, <2>12, <2>13, <2>14, <2>15, <2>16, <2>17 DEF DriverStep
<1>f. ASSUME NEW d \in Drivers, Crash(d) PROVE VerdictInv'
  <2>1. Sound(store)' /\ Return(d) /\ pc[d] # "idle"
    BY <1>f, <1>s DEF Crash, Sound, Verdict, AllStepsOk
  <2>2. QED
    BY <2>1, VerdictReturn
<1>g. ASSUME NEW d \in Drivers, ContextDone(d) PROVE VerdictInv'
  BY <1>g DEF ContextDone, VerdictInv, VerdictOf, Verdict, AllStepsOk
<1>h. ASSUME NEW d \in Drivers, LeaseLapses(d) PROVE VerdictInv'
  BY <1>h DEF LeaseLapses, Spend, LockInv, OnlyLockedWriters
<1>i. ASSUME NEW c \in Cancellers PROVE FALSE
  BY <1>i DEF OnlyLockedWriters
<1>q. QED
  BY <1>u, <1>a, <1>b, <1>c, <1>d, <1>e, <1>f, <1>g, <1>h, <1>i DEF Next

(* As long as only holders of the run lock write the record (runs created  *)
(* anew under the same id excepted), the stored verdict agrees with the    *)
(* stored steps, for every number of drivers, steps, attempts, crashes,    *)
(* replays and approvals.                                                  *)
THEOREM VerdictUnderLock ==
  ASSUME OnlyLockedWriters
  PROVE  Spec => []RunVerdictMatchesSteps
<1>1. VerdictInv => RunVerdictMatchesSteps
  BY DEF VerdictInv, RunVerdictMatchesSteps
<1>2. QED
  BY <1>1, TypeInvInit, TypeInvStep, LockInvInit, LockInvStep, VerdictInit,
     VerdictStep, PTL DEF Spec
-----------------------------------------------------------------------------
(* The verdict of a run that is resumed and cancelled, and neither         *)
(* replayed, approved nor created anew.  A canceller still writes a whole  *)
(* stale record without the lock, but only a replay or an approval reopens *)
(* a finished run: once any copy of the record says that the run is over,  *)
(* every driver has seen the cancel flag and only winds its call up.       *)

OnlyResumedAndCancelled ==
    \A e \in {"lapse", "replay", "approve", "create"} : Budget[e] = 0

(* The records that may be stored or written back by a canceller.          *)
Settled(run) == Verdict(run) /\ run.replayFrom = 0

Over(run) == IsWorkflowRunTerminal(run.status)

SomeCopyOver ==
    NumSteps = 0 \/ Over(store) \/ \E c \in Cancellers : Over(cmem[c])

WindsUp(d) ==
    pc[d] # "idle" => pc[d] \in {"loop", "check"} /\ mem[d].cancelRequested

Stopping ==
    /\ Over(store) \/ store.cancelRequested
    /\ \A d \in Drivers : WindsUp(d)

(* A driver works on an open run, unless it has just cancelled it.         *)
CancelOf(d) ==
    /\ pc[d] # "idle" => mem[d].replayFrom = 0
    /\ pc[d] \notin {"load", "rsave", "asave"}
    /\ pc[d] \in {"loop", "check"} /\ Over(mem[d]) =>
          mem[d].status = "cancelled" /\ mem[d].cancelRequested
    /\ pc[d] \notin {"idle", "loop", "check"} => ~Over(mem[d])
    /\ pc[d] \in {"retry", "fail"} =>
          mem[d].stepStatus[idx[d]] \in {"failed", "timed_out"}

CancelInv ==
    /\ \A e \in {"replay", "approve", "create"} : budget[e] = 0
    /\ Settled(store)
    /\ \A c \in Cancellers : Settled(cmem[c])
    /\ \A d \in Drivers : CancelOf(d)
    /\ SomeCopyOver => Stopping

LEMMA FreshRunSettled ==
  /\ Settled(FreshRun)
  /\ NumSteps # 0 => ~Over(FreshRun)
  /\ NumSteps = 0 => Over(FreshRun)
  BY FreshRunSound
  DEF Settled, Sound, FreshRun, Over, IsWorkflowRunTerminal

LEMMA FinalRunSettled ==
  ASSUME NEW run \in Run
  PROVE  Settled(FinalRun(run)) /\ Over(FinalRun(run))
<1>1. FinalRun(run).replayFrom = 0
  BY DEF FinalRun, Run
<1>2. FinalRun(run).status \in {"ok", "failed", "timed_out"}
  BY DEF FinalRun, FailureStatus, Run
<1>3. QED
  BY <1>1, <1>2, FinalRunSound
  DEF Settled, Sound, Over, IsWorkflowRunTerminal

(* A step of the driver that holds the lock.                               *)
LEMMA CancelFrame ==
  ASSUME CancelInv, NEW d \in Drivers, cmem' = cmem,
         \A e \in Drivers \ {d} : pc'[e] = "idle",
         \A e \in {"replay", "approve", "create"} : budget'[e] = 0,
         Settled(store)', CancelOf(d)',
         SomeCopyOver' => Over(store)' \/ store'.cancelRequested,
         SomeCopyOver' => WindsUp(d)'
  PROVE  CancelInv'
<1>1. \A e \in Drivers : CancelOf(e)'
  BY DEF CancelOf
<1>2. SomeCopyOver' => Stopping'
  BY DEF Stopping, WindsUp
<1>3. \A c \in Cancellers : Settled(cmem[c])'
  BY DEF CancelInv, Settled, Verdict, AllStepsOk
<1>4. QED
  BY <1>1, <1>2, <1>3 DEF CancelInv

LEMMA CancelInit ==
  ASSUME OnlyResumedAndCancelled PROVE Init => CancelInv
<1> SUFFICES ASSUME Init PROVE CancelInv
  OBVIOUS
<1>1. Settled(store) /\ \A c \in Cancellers : Settled(cmem[c])
  BY FreshRunSettled DEF Init
<1>2. \A d \in Drivers : CancelOf(d) /\ WindsUp(d)
  BY DEF Init, CancelOf, WindsUp
<1>3. SomeCopyOver => Over(store)
  BY FreshRunSettled DEF Init, SomeCopyOver
<1>4. QED
  BY <1>1, <1>2, <1>3
  DEF CancelInv, Stopping, OnlyResumedAndCancelled, Init

LEMMA CancelStep ==
  ASSUME OnlyResumedAndCancelled
  PROVE  TypeInv /\ LockInv /\ CancelInv /\ [Next]_vars => CancelInv'
<1> SUFFICES ASSUME TypeInv, LockInv, CancelInv, [Next]_vars
             PROVE  CancelInv'
  OBVIOUS
<1>l. /\ Budget["lapse"] = 0 /\ budget["lapse"] = 0
      /\ \A e \in {"replay", "approve", "create"} : budget[e] = 0
      /\ store \in Run /\ Settled(store)
  BY DEF OnlyResumedAndCancelled, LockInv, CancelInv, TypeInv, OtherType
<1>u. CASE UNCHANGED vars
  BY <1>u
  DEF vars, driverVars, cancelVars, CancelInv, CancelOf, Stopping, WindsUp,
      SomeCopyOver, Over, Settled, Verdict, AllStepsOk
<1>a. ASSUME NEW d \in Drivers, ResumeRun(d) PROVE CancelInv'
  <2>1. \A e \in Drivers \ {d} : pc'[e] = "idle"
    BY <1>a, <1>l, NoDriverAssumption
    DEF ResumeRun, EnterLoop, Goto, Mutex!Acquire, LockInv, TypeInv, DriverType
  <2>2. /\ pc'[d] = "loop" /\ mem'[d] = store /\ store' = store
        /\ cmem' = cmem /\ budget' = budget /\ ~NothingToResume(store)
    BY <1>a
    DEF ResumeRun, EnterLoop, Goto, SetMem, cancelVars, TypeInv, DriverType
  <2>3. ~Over(store) /\ store.replayFrom = 0
    BY <1>l, <2>2 DEF NothingToResume, Over, Settled
  <2>4. SomeCopyOver' => store.cancelRequested
    BY <2>2, <2>3 DEF SomeCopyOver, Over, CancelInv, Stopping
  <2>5. CancelOf(d)'
    BY <2>2, <2>3 DEF CancelOf, Over
  <2>6. Settled(store)' /\ (SomeCopyOver' => WindsUp(d)')
    BY <1>l, <2>2, <2>4 DEF Settled, Verdict, AllStepsOk, WindsUp
  <2>7. QED
    BY <1>l, <2>1, <2>2, <2>4, <2>5, <2>6, CancelFrame
<1>b. ASSUME NEW d \in Drivers,
             \/ \E i \in Steps : ReplayRunFromStep(d, i)
             \/ \E i \in Steps, dec \in Decisions : ResolveApproval(d, i, dec)
             \/ CreateRun(d) \/ LeaseLapses(d)
      PROVE  FALSE
  BY <1>b, <1>l
  DEF ReplayRunFromStep, ResolveApproval, CreateRun, LeaseLapses, Spend
<1>e. ASSUME NEW d \in Drivers, DriverStep(d) \/ Crash(d) PROVE CancelInv'
  <2>0. /\ pc[d] # "idle"
        /\ \A e \in {"replay", "approve", "create"} : budget'[e] = 0
        /\ \A e \in Drivers \ {d} : pc'[e] = "idle"
        /\ mem[d] \in Run /\ mem[d].replayFrom = 0 /\ CancelOf(d)
    <3>1. pc[d] # "idle" /\ \A e \in Drivers \ {d} : pc'[e] = pc[e]
      BY <1>e, DriverStepMoves, ReturnEnds DEF Continues, Ends, Crash
    <3>2. \A e \in {"replay", "approve", "create"} : budget'[e] = 0
      BY <1>e, <1>l, DriverStepMoves
      DEF Crash, Spend, Events, TypeInv, OtherType
    <3>3. QED
      BY <1>l, <3>1, <3>2, HolderAlone
      DEF CancelInv, CancelOf, TypeInv, DriverType
  <2>w. /\ SomeCopyOver => pc[d] \in {"loop", "check"} /\ mem[d].cancelRequested
        /\ SomeCopyOver => Over(store) \/ store.cancelRequested
    BY <2>0 DEF CancelInv, Stopping, WindsUp
  <2>c. ASSUME cmem' = cmem, SomeCopyOver' PROVE SomeCopyOver \/ Over(store)'
    BY <2>c DEF SomeCopyOver
  (* The call ends with a record that is settled.                          *)
  <2>r. ASSUME Return(d), cmem' = cmem, Settled(store)',
               SomeCopyOver' => Over(store)' \/ store'.cancelRequested
        PROVE  CancelInv'
    <3>1. CancelOf(d)' /\ WindsUp(d)'
      BY <2>r, ReturnResets DEF Reset, CancelOf, WindsUp
    <3>2. QED
      BY <2>0, <2>r, <3>1, CancelFrame
  (* The loop goes on with the record run.                                 *)
  <2>n. ASSUME NEW run, AfterStep(d, run) \/ NextStep(d, run), cmem' = cmem,
               Settled(store)', run.replayFrom = 0,
               SomeCopyOver' => Over(store)' \/ store'.cancelRequested,
               SomeCopyOver' => run.cancelRequested,
               Over(run) => run.status = "cancelled" /\ run.cancelRequested
        PROVE  CancelInv'
    <3>1. Reset(d) \/ (pc'[d] = "loop" /\ mem'[d] = run)
      BY <2>n, AfterStepMoves, NextStepMoves
    <3>2. CancelOf(d)' /\ (SomeCopyOver' => WindsUp(d)')
      BY <2>n, <3>1 DEF Reset, CancelOf, WindsUp, Over
    <3>3. QED
      BY <2>0, <2>n, <3>2, CancelFrame
  (* The driver goes on inside executeStep while no copy is over.          *)
  <2>x. ASSUME ~SomeCopyOver, cmem' = cmem, Settled(store)', ~Over(store)',
               CancelOf(d)'
        PROVE  CancelInv'
    BY <2>0, <2>c, <2>x, CancelFrame
  <2>s. ASSUME store' = store PROVE Settled(store)' /\ (Over(store)' <=> Over(store))
    BY <1>l, <2>s DEF Settled, Verdict, AllStepsOk, Over
  <2>1. CASE ResumeLocked(d) \/ SaveReplay(d) \/ SaveApproval(d)
    BY <2>0, <2>1 DEF ResumeLocked, SaveReplay, SaveApproval, CancelOf
  <2>4. CASE SkipStep(d)
    <3>1. /\ pc[d] = "loop" /\ store' = store /\ cmem' = cmem
          /\ NextStep(d, mem[d])
      BY <2>4 DEF SkipStep, cancelVars
    <3>2. SomeCopyOver' => SomeCopyOver
      BY <2>c, <2>s, <3>1 DEF SomeCopyOver
    <3>3. QED
      BY <2>0, <2>n, <2>s, <2>w, <3>1, <3>2 DEF CancelOf
  <2>5. CASE AwaitApproval(d)
    <3>1. /\ Return(d) /\ cmem' = cmem
          /\ store' = [mem[d] EXCEPT !.status = "paused"]
      BY <2>5 DEF AwaitApproval, Save, cancelVars
    <3>2. /\ store'.status = "paused" /\ store'.replayFrom = 0
          /\ store'.cancelRequested = mem[d].cancelRequested
      BY <2>0, <3>1 DEF Run
    <3>3. Settled(store)' /\ ~Over(store)'
      BY <3>2 DEF Settled, Verdict, Over, IsWorkflowRunTerminal
    <3>4. QED
      BY <2>c, <2>r, <2>w, <3>1, <3>2, <3>3
  <2>6. CASE RequeueStep(d)
    <3>1. idx[d] \in Steps /\ pc[d] = "loop" /\ cmem' = cmem
      BY <2>6 DEF RequeueStep, AtStep, cancelVars
    <3>2. /\ store'.status = mem[d].status /\ store'.replayFrom = 0
          /\ store'.cancelRequested = mem[d].cancelRequested
          /\ mem'[d] = store' /\ pc'[d] = "check"
      BY <2>0, <2>6, <3>1
      DEF RequeueStep, RequeueInFlight, SetMem, Save, Goto, TypeInv, DriverType,
          Run
    <3>3. Over(mem[d]) => mem[d].status = "cancelled" /\ mem[d].cancelRequested
      BY <2>0, <3>1 DEF CancelOf
    <3>4. Settled(store)'
      BY <3>2, <3>3 DEF Settled, Verdict, Over, IsWorkflowRunTerminal
    <3>5. SomeCopyOver' => store'.cancelRequested
      BY <2>c, <2>w, <3>1, <3>2, <3>3 DEF Over
    <3>6. CancelOf(d)' /\ (SomeCopyOver' => WindsUp(d)')
      BY <3>2, <3>3, <3>5 DEF CancelOf, Over, WindsUp
    <3>7. QED
      BY <2>0, <3>1, <3>4, <3>5, <3>6, CancelFrame
  <2>7. CASE CancelBeforeStep(d)
    <3>1. Return(d) /\ cmem' = cmem /\ store' = MarkCancelled(mem[d], idx[d])
      BY <2>7 DEF CancelBeforeStep, Save, cancelVars
    <3>2. store'.status = "cancelled" /\ store'.replayFrom = 0
      BY <2>0, <3>1 DEF MarkCancelled, Run
    <3>3. Settled(store)' /\ Over(store)'
      BY <3>2 DEF Settled, Verdict, Over, IsWorkflowRunTerminal
    <3>4. QED
      BY <2>r, <3>1, <3>3
  <2>8. CASE FinishRun(d)
    <3>1. Return(d) /\ cmem' = cmem /\ store' = FinalRun(mem[d])
      BY <2>8 DEF FinishRun, Save, cancelVars
    <3>2. Settled(store)' /\ Over(store)'
      BY <2>0, <3>1, FinalRunSettled
      DEF Settled, Verdict, AllStepsOk, Over
    <3>3. QED
      BY <2>r, <3>1, <3>2
  <2>9. CASE AttemptsExhausted(d)
    <3> DEFINE s == mem[d].stepStatus[idx[d]]
    <3>1. /\ idx[d] \in Steps /\ pc[d] \in {"loop", "check"} /\ cmem' = cmem
          /\ ~mem[d].cancelRequested
      BY <2>9, ReadyIndex
      DEF AttemptsExhausted, StepReady, AtStep, cancelVars
    <3>2. CASE /\ s \in {"failed", "timed_out"}
               /\ Save([mem[d] EXCEPT !.status = FailureStatus(s)])
               /\ Return(d)
      <4>1. /\ store'.status \in {"failed", "timed_out"}
            /\ store'.stepStatus[idx[d]] # "ok" /\ store'.replayFrom = 0
        BY <2>0, <3>2 DEF Save, FailureStatus, Run
      <4>2. Settled(store)' /\ Over(store)'
        BY <3>1, <4>1
        DEF Settled, Verdict, AllStepsOk, Over, IsWorkflowRunTerminal
      <4>3. QED
        BY <2>r, <3>1, <3>2, <4>2
    <3>3. CASE UNCHANGED store /\ AfterStep(d, mem[d])
      <4>1. ~SomeCopyOver /\ ~SomeCopyOver'
        BY <2>c, <2>s, <2>w, <3>1, <3>3 DEF SomeCopyOver
      <4>2. QED
        BY <2>0, <2>n, <2>s, <3>1, <3>3, <4>1 DEF CancelOf
    <3>4. QED
      BY <2>9, <3>2, <3>3 DEF AttemptsExhausted
  <2>10. CASE LoadForAttempt(d)
    <3>1. /\ pc[d] \in {"loop", "check"} => ~mem[d].cancelRequested
          /\ cmem' = cmem /\ store' = store
          /\ mem'[d] = store /\ pc'[d] = "loaded"
      BY <2>10
      DEF LoadForAttempt, StepReady, AtStep, SetMem, Goto, cancelVars, TypeInv,
          DriverType
    <3>2. ~SomeCopyOver /\ ~Over(store)
      BY <2>w, <3>1 DEF SomeCopyOver
    <3>3. CancelOf(d)'
      BY <1>l, <3>1, <3>2 DEF CancelOf, Settled, Over
    <3>4. QED
      BY <2>s, <2>x, <3>1, <3>2, <3>3
  <2>11. CASE CancelAtAttempt(d)
    <3> DEFINE run == MarkCancelled(mem[d], idx[d])
    <3>1. /\ mem[d].cancelRequested /\ cmem' = cmem
          /\ store' = run /\ NextStep(d, run)
      BY <2>11 DEF CancelAtAttempt, Save, cancelVars
    <3>2. /\ run.status = "cancelled" /\ run.replayFrom = 0
          /\ run.cancelRequested = mem[d].cancelRequested
      BY <2>0 DEF MarkCancelled, Run
    <3> HIDE DEF run
    <3>3. Settled(store)' /\ Over(store)'
      BY <3>1, <3>2 DEF Settled, Verdict, Over, IsWorkflowRunTerminal
    <3>4. QED
      BY <2>n, <3>1, <3>2, <3>3
  <2>12. CASE StartAttempt(d)
    <3>1. /\ pc[d] = "loaded" /\ cmem' = cmem
          /\ store'.status = "running" /\ store'.replayFrom = 0
          /\ mem'[d] = store' /\ pc'[d] = "exec"
      BY <2>0, <2>12
      DEF StartAttempt, Save, SetMem, Goto, cancelVars, Run, TypeInv, DriverType
    <3>2. Settled(store)' /\ ~Over(store)' /\ CancelOf(d)'
      BY <3>1 DEF Settled, Verdict, Over, IsWorkflowRunTerminal, CancelOf
    <3>3. QED
      BY <2>w, <2>x, <3>1, <3>2
  <2>13. CASE HandlerReturns(d)
    <3>1. PICK o : mem' = [mem EXCEPT ![d] =
                      [store EXCEPT
                         !.stepStatus[idx[d]] = o,
                         !.status = IF o = "paused" THEN "paused" ELSE @]]
      BY <2>13 DEF HandlerReturns, SetMem
    <3>2. /\ pc[d] = "exec" /\ pc'[d] = "result" /\ store' = store
          /\ cmem' = cmem
      BY <2>13 DEF HandlerReturns, Goto, cancelVars, TypeInv, DriverType
    <3>3. ~SomeCopyOver /\ ~Over(store)
      BY <2>w, <3>2 DEF SomeCopyOver
    <3>4. /\ mem'[d].status \in {store.status, "paused"}
          /\ mem'[d].replayFrom = 0
      BY <1>l, <3>1 DEF Settled, Run, TypeInv, DriverType
    <3>5. CancelOf(d)'
      BY <3>2, <3>3, <3>4 DEF CancelOf, Over, IsWorkflowRunTerminal
    <3>6. QED
      BY <2>s, <2>x, <3>2, <3>3, <3>5
  <2>14. CASE SaveResult(d)
    <3>1. /\ pc[d] = "result" /\ store' = mem[d] /\ cmem' = cmem
          /\ ~Over(mem[d])
      BY <2>0, <2>14 DEF SaveResult, Save, cancelVars, CancelOf
    <3>2. Settled(store)' /\ ~Over(store)'
      BY <2>0, <3>1 DEF Settled, Verdict, Over, IsWorkflowRunTerminal
    <3>3. ~SomeCopyOver /\ ~SomeCopyOver'
      BY <2>c, <2>w, <3>1, <3>2
    <3>4. CASE Return(d)
      BY <2>r, <3>1, <3>2, <3>3, <3>4
    <3>5. CASE AfterStep(d, mem[d])
      BY <2>0, <2>n, <3>1, <3>2, <3>3, <3>5
    <3>6. CASE /\ mem[d].stepStatus[idx[d]] \in {"failed", "timed_out"}
               /\ Goto(d, IF attempt[d] < MaxAttempts[idx[d]]
                          THEN "retry" ELSE "fail")
               /\ UNCHANGED <<lock, mem, idx, attempt, replayAt, ctx>>
      <4>1. CancelOf(d)'
        BY <2>0, <3>1, <3>6 DEF Goto, CancelOf, Over, TypeInv, DriverType
      <4>2. QED
        BY <2>x, <3>1, <3>2, <3>3, <4>1
    <3>7. QED
      BY <2>14, <3>4, <3>5, <3>6 DEF SaveResult
  <2>15. CASE RequeueForRetry(d)
    <3>1. /\ pc[d] = "retry" /\ cmem' = cmem
          /\ store'.status = mem[d].status /\ store'.replayFrom = 0
          /\ mem'[d] = store' /\ pc'[d] = "backoff" /\ ~Over(mem[d])
      BY <2>0, <2>15
      DEF RequeueForRetry, SetMem, Save, Goto, cancelVars, CancelOf, Run,
          TypeInv, DriverType
    <3>2. Settled(store)' /\ ~Over(store)' /\ CancelOf(d)'
      BY <3>1 DEF Settled, Verdict, Over, IsWorkflowRunTerminal, CancelOf
    <3>3. QED
      BY <2>w, <2>x, <3>1, <3>2
  <2>16. CASE AbortRetry(d)
    <3>1. idx[d] \in Steps /\ Return(d) /\ cmem' = cmem
      BY <2>16 DEF AbortRetry, cancelVars, TypeInv, DriverType, InStep
    <3>2. PICK s \in {"timed_out", "cancelled"} :
            store' = [mem[d] EXCEPT !.status = s, !.stepStatus[idx[d]] = s]
      BY <2>16 DEF AbortRetry, Save
    <3>3. /\ store'.status \in {"timed_out", "cancelled"}
          /\ store'.stepStatus[idx[d]] # "ok" /\ store'.replayFrom = 0
      BY <2>0, <3>1, <3>2 DEF Run
    <3>4. Settled(store)' /\ Over(store)'
      BY <3>1, <3>3
      DEF Settled, Verdict, AllStepsOk, Over, IsWorkflowRunTerminal
    <3>5. QED
      BY <2>r, <3>1, <3>4
  <2>17. CASE FailRun(d)
    <3>1. idx[d] \in Steps /\ Return(d) /\ cmem' = cmem /\ pc[d] = "fail"
      BY <2>17 DEF FailRun, cancelVars, TypeInv, DriverType, InStep
    <3>2. /\ store'.status \in {"failed", "timed_out"}
          /\ store'.stepStatus[idx[d]] # "ok" /\ store'.replayFrom = 0
      BY <2>0, <2>17, <3>1 DEF FailRun, Save, FailureStatus, CancelOf, Run
    <3>3. Settled(store)' /\ Over(store)'
      BY <3>1, <3>2
      DEF Settled, Verdict, AllStepsOk, Over, IsWorkflowRunTerminal
    <3>4. QED
      BY <2>r, <3>1, <3>3
  <2>18. CASE Crash(d)
    <3>1. Return(d) /\ store' = store /\ cmem' = cmem
      BY <2>18 DEF Crash, cancelVars
    <3>2. SomeCopyOver' => SomeCopyOver
      BY <2>c, <2>s, <3>1 DEF SomeCopyOver
    <3>3. QED
      BY <2>r, <2>s, <2>w, <3>1, <3>2
  <2>19. QED
    BY <1>e, <2>1, <2>4, <2>5, <2>6, <2>7, <2>8, <2>9, <2>10, <2>11, <2>12,
       <2>13, <2>14, <2>15, <2>16, <2>17, <2>18 DEF DriverStep
<1>g. ASSUME NEW d \in Drivers, ContextDone(d) PROVE CancelInv'
  <2>1. /\ UNCHANGED <<store, pc, mem, idx, cmem>>
        /\ \A e \in {"replay", "approve", "create"} : budget'[e] = 0
    BY <1>g, <1>l
    DEF ContextDone, cancelVars, Spend, Events, TypeInv, OtherType
  <2>2. QED
    BY <2>1
    DEF CancelInv, CancelOf, Stopping, WindsUp, SomeCopyOver, Over, Settled,
        Verdict, AllStepsOk
<1>i. ASSUME NEW c \in Cancellers, CancelLoad(c) PROVE CancelInv'
  <2>1. /\ UNCHANGED <<store, pc, mem, idx>>
        /\ cmem' = [cmem EXCEPT ![c] = store]
        /\ \A e \in {"replay", "approve", "create"} : budget'[e] = 0
    BY <1>i, <1>l
    DEF CancelLoad, driverVars, Spend, Events, TypeInv, OtherType
  <2>2. \A k \in Cancellers : cmem'[k] = IF k = c THEN store ELSE cmem[k]
    BY <2>1 DEF TypeInv, OtherType
  <2>3. \A k \in Cancellers : Settled(cmem'[k])
    BY <1>l, <2>2 DEF CancelInv
  <2>4. SomeCopyOver' => SomeCopyOver
    BY <2>1, <2>2 DEF SomeCopyOver, Over
  <2>5. /\ Settled(store)' /\ \A d \in Drivers : CancelOf(d)'
        /\ \A k \in Cancellers : Settled(cmem[k])'
    BY <2>1, <2>3 DEF CancelInv, CancelOf, Over, Settled, Verdict, AllStepsOk
  <2>6. SomeCopyOver' => Stopping'
    BY <2>1, <2>4 DEF CancelInv, Stopping, WindsUp, Over
  <2>7. QED
    BY <2>1, <2>5, <2>6 DEF CancelInv
<1>j. ASSUME NEW c \in Cancellers, CancelSave(c) PROVE CancelInv'
  <2>1. /\ UNCHANGED <<pc, mem, idx, budget>>
        /\ store' = [cmem[c] EXCEPT !.cancelRequested = TRUE]
        /\ cmem' = [cmem EXCEPT ![c] = FreshRun]
    BY <1>j DEF CancelSave, Save, driverVars
  <2>2. \A k \in Cancellers : cmem'[k] = IF k = c THEN FreshRun ELSE cmem[k]
    BY <2>1 DEF TypeInv, OtherType
  <2>3. /\ store'.cancelRequested /\ store'.status = cmem[c].status
        /\ store'.stepStatus = cmem[c].stepStatus
        /\ store'.replayFrom = cmem[c].replayFrom
    BY <2>1 DEF TypeInv, OtherType, Run
  <2>4. Settled(cmem[c])
    BY DEF CancelInv
  <2>5. Settled(store)'
    BY <2>3, <2>4 DEF Settled, Verdict, AllStepsOk
  <2>6. \A k \in Cancellers : Settled(cmem'[k])
    BY <2>2, FreshRunSettled DEF CancelInv
  <2>7. \A k \in Cancellers : Settled(cmem[k])'
    BY <2>6 DEF Settled, Verdict, AllStepsOk
  <2>8. SomeCopyOver' => SomeCopyOver
    BY <2>2, <2>3, FreshRunSettled DEF SomeCopyOver, Over
  <2>9. SomeCopyOver' => Stopping'
    BY <2>1, <2>3, <2>8 DEF CancelInv, Stopping, WindsUp
  <2>10. \A d \in Drivers : CancelOf(d)'
    BY <2>1 DEF CancelInv, CancelOf, Over
  <2>11. QED
    BY <1>l, <2>1, <2>5, <2>7, <2>9, <2>10 DEF CancelInv
<1>q. QED
  BY <1>u, <1>a, <1>b, <1>e, <1>g, <1>i, <1>j DEF Next

(* Cancellers write stale records without the lock, and still the stored   *)
(* verdict agrees with the stored steps, for any number of cancels,        *)
(* drivers, crashes and ended contexts: it takes a replay or an approval,  *)
(* which reopens a finished run, for a stale cancel to break it.           *)
THEOREM VerdictDespiteCancels ==
  ASSUME OnlyResumedAndCancelled
  PROVE  Spec => []RunVerdictMatchesSteps
<1>1. CancelInv => RunVerdictMatchesSteps
  BY DEF CancelInv, Settled, RunVerdictMatchesSteps
<1>2. QED
  BY <1>1, TypeInvInit, TypeInvStep, LockInvInit, LockInvStep, CancelInit,
     CancelStep, PTL DEF Spec
=============================================================================
