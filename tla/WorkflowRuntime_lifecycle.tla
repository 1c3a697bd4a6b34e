--------------------- MODULE WorkflowRuntime_lifecycle ---------------------
(***************************************************************************)
(* The order in which the workflow runtime executes steps, and the         *)
(* refinement of the run lifecycle.  Both need more than the run lock: a   *)
(* run created anew under the same id, or a canceller's stale save,        *)
(* changes the record under a working driver.  The refinement is proved    *)
(* for one writer at a time; the order of the steps also for cancellers.   *)
(***************************************************************************)
EXTENDS WorkflowRuntime_proofs

(* Only the holder of the run lock writes the record.                      *)
OneWriter == OnlyLockedWriters /\ Budget["create"] = 0

Unsuccessful == {"failed", "timed_out", "cancelled"}

(* The positions inside resumeRunLocked's loop.                            *)
InCall == {"loop"} \cup InStep

(* The steps from "from" up to step k are ok.                              *)
OkBetween(run, from, k) ==
    \A j \in Steps : from <= j /\ j < k => run.stepStatus[j] = "ok"

(* The records that are stored: no cancel flag; a step that may be tried   *)
(* has an attempt left; a paused step waits for its decision; a replay     *)
(* that stopped stands at an unsuccessful step, the ones before it ok.     *)
Tidy(run) ==
    /\ ~run.cancelRequested
    /\ \A i \in Steps :
         /\ run.stepStatus[i] \in {"pending", "cancelled"} =>
              run.attempts[i] < MaxAttempts[i]
         /\ run.stepStatus[i] = "paused" => run.decision[i] = "none"
    /\ run.status \in Unsuccessful /\ run.replayFrom > 0 =>
         \E k \in Steps : /\ run.replayFrom <= k
                          /\ run.stepStatus[k] \in Unsuccessful
                          /\ OkBetween(run, run.replayFrom, k)

(* The record a handler's outcome o for step i makes of the stored one.    *)
WithOutcome(run, i, o) ==
    [run EXCEPT !.stepStatus[i] = o,
                !.status = IF o = "paused" THEN "paused" ELSE @]

(* How a driver's locals relate to the stored record, by position.  Until  *)
(* a result is saved the driver's copy is the stored record itself.        *)
WorkOf(d) ==
    /\ pc[d] \in InCall \ {"result"} => mem[d] = store
    /\ pc[d] \in InCall =>
         /\ replayAt[d] = store.replayFrom
         /\ store.status \in Lifecycle!Open \/ store.replayFrom > 0
         /\ OkBetween(store, store.replayFrom, idx[d])
    /\ pc[d] \in InStep => store.replayFrom <= idx[d]
    /\ pc[d] \in {"check", "backoff"} => store.stepStatus[idx[d]] = "pending"
    /\ pc[d] = "loaded" /\ store.replayFrom = 0 =>
         store.stepStatus[idx[d]] # "ok"
    /\ pc[d] \in {"exec", "result"} =>
         store.stepStatus[idx[d]] = "running" /\ store.status = "running"
    /\ pc[d] \in {"exec", "result", "retry", "backoff"} =>
         store.attempts[idx[d]] = attempt[d]
    /\ pc[d] = "result" =>
         \E o \in {"ok", "failed", "timed_out", "paused"} :
            /\ mem[d] = WithOutcome(store, idx[d], o)
            /\ o = "paused" => store.decision[idx[d]] = "none"
    /\ pc[d] \in {"retry", "fail"} =>
         store.stepStatus[idx[d]] \in {"failed", "timed_out"}
    /\ pc[d] = "rsave" => \E i \in Steps : mem[d] = ResetFrom(store, i)
    /\ pc[d] = "asave" => \E i \in Steps, dec \in Decisions :
                             mem[d] = WithDecision(store, i, dec)

WorkInv ==
    /\ Tidy(store)
    /\ budget["create"] = 0
    /\ \A d \in Drivers : WorkOf(d)

-----------------------------------------------------------------------------
(* The records that are stored.                                            *)

LEMMA FreshRunTidy == Tidy(FreshRun)
  BY MaxAttemptsAssumption DEF Tidy, FreshRun, Unsuccessful

LEMMA ResetFromTidy ==
  ASSUME NEW run \in Run, NEW i \in Steps, Tidy(run)
  PROVE  Tidy(ResetFrom(run, i))
  BY MaxAttemptsAssumption DEF Tidy, ResetFrom, Unsuccessful, Run

LEMMA WithDecisionTidy ==
  ASSUME NEW run \in Run, NEW i \in Steps, NEW dec \in Decisions, Tidy(run)
  PROVE  Tidy(WithDecision(run, i, dec))
  BY MaxAttemptsAssumption DEF Tidy, WithDecision, Unsuccessful, Run

LEMMA FinalRunTidy ==
  ASSUME NEW run \in Run, Tidy(run)
  PROVE  Tidy(FinalRun(run))
<1>1. /\ FinalRun(run).replayFrom = 0
      /\ FinalRun(run).cancelRequested = run.cancelRequested
      /\ FinalRun(run).stepStatus = run.stepStatus
      /\ FinalRun(run).attempts = run.attempts
      /\ FinalRun(run).decision = run.decision
  BY DEF FinalRun, Run
<1>2. QED
  BY <1>1 DEF Tidy

(* other is run with a new status for the run and for step i.              *)
OnlyStep(run, other, i) ==
    /\ other.cancelRequested = run.cancelRequested
    /\ other.replayFrom = run.replayFrom
    /\ other.decision = run.decision
    /\ \A j \in Steps : j # i => /\ other.stepStatus[j] = run.stepStatus[j]
                                 /\ other.attempts[j] = run.attempts[j]

LEMMA OnlyStepTidy ==
  ASSUME NEW run \in Run, NEW other \in Run, NEW i \in Steps,
         Tidy(run), OnlyStep(run, other, i),
         other.stepStatus[i] \in {"pending", "cancelled"} =>
            other.attempts[i] < MaxAttempts[i],
         other.stepStatus[i] = "paused" => run.decision[i] = "none",
         \/ other.status \in Lifecycle!Open
         \/ /\ run.replayFrom <= i
            /\ other.stepStatus[i] \in Unsuccessful
            /\ OkBetween(run, run.replayFrom, i)
  PROVE  Tidy(other)
<1>1. /\ ~other.cancelRequested
      /\ \A j \in Steps :
           /\ other.stepStatus[j] \in {"pending", "cancelled"} =>
                other.attempts[j] < MaxAttempts[j]
           /\ other.stepStatus[j] = "paused" => other.decision[j] = "none"
  BY DEF Tidy, OnlyStep
<1>2. ASSUME other.status \in Unsuccessful
      PROVE  /\ other.replayFrom <= i
             /\ other.stepStatus[i] \in Unsuccessful
             /\ OkBetween(other, other.replayFrom, i)
  BY <1>2 DEF OnlyStep, OkBetween, Unsuccessful, Lifecycle!Open, Steps
<1>3. QED
  BY <1>1, <1>2 DEF Tidy

-----------------------------------------------------------------------------
(* The shape of a step.                                                    *)

Quiet(d) == \A e \in Drivers \ {d} : pc[e] = "idle"

(* A step of d that leaves the others idle only has to re-establish the    *)
(* invariant for d.                                                        *)
LEMMA WorkFrame ==
  ASSUME NEW d \in Drivers, Quiet(d)', Tidy(store)', budget'["create"] = 0,
         WorkOf(d)'
  PROVE  WorkInv'
  BY DEF WorkInv, WorkOf, Quiet, InCall, InStep

LEMMA WorkIdle ==
  ASSUME NEW d \in Drivers, Quiet(d)', Tidy(store)', budget'["create"] = 0,
         pc'[d] = "idle"
  PROVE  WorkInv'
  BY DEF WorkInv, WorkOf, Quiet, InCall, InStep

(* The loop has passed step idx[d], which is ok or before the replay.      *)
LEMMA WorkPasses ==
  ASSUME TypeInv, NEW d \in Drivers, Quiet(d)', Tidy(store)',
         budget'["create"] = 0, pc[d] \in InCall, WorkOf(d), idx[d] \in Steps,
         store' \in Run, store'.replayFrom = store.replayFrom,
         store'.status \in Lifecycle!Open \/ store'.replayFrom > 0,
         \A j \in Steps : j # idx[d] => store'.stepStatus[j] = store.stepStatus[j],
         store'.stepStatus[idx[d]] = "ok" \/ idx[d] < store.replayFrom,
         NextStep(d, store')
  PROVE  WorkInv'
<1>1. /\ pc'[d] = "loop" /\ mem'[d] = store' /\ idx'[d] = idx[d] + 1
      /\ replayAt'[d] = replayAt[d]
  BY DEF NextStep, Goto, SetMem, TypeInv, DriverType
<1>2. OkBetween(store', store'.replayFrom, idx'[d])
  <2>1. OkBetween(store, store.replayFrom, idx[d])
    BY DEF WorkOf
  <2>2. store.replayFrom \in Int
    BY DEF TypeInv, OtherType, Run
  <2>3. QED
    BY <1>1, <2>1, <2>2 DEF OkBetween, Steps
<1>3. WorkOf(d)'
  BY <1>1, <1>2 DEF WorkOf, InCall, InStep
<1>4. QED
  BY <1>3, WorkFrame

(* The lifecycle's view of a state and of a step.                          *)
Done(run) == {i \in Steps : run.stepStatus[i] = "ok"}
Asked == \E d \in Drivers : pc[d] \in {"rsave", "asave"}

LifecycleStep ==
    [Lifecycle!LifecycleNext]_<<store.status,
                                {i \in Steps : store.stepStatus[i] = "ok"},
                                store.replayFrom,
                                \E d \in Drivers : pc[d] \in {"rsave", "asave"}>>

LEMMA AskedByOne ==
  ASSUME NEW d \in Drivers, Quiet(d)
  PROVE  Asked <=> pc[d] \in {"rsave", "asave"}
  BY DEF Asked, Quiet

LEMMA LifeStutter ==
  ASSUME store'.status = store.status, Done(store)' = Done(store),
         store'.replayFrom = store.replayFrom, Asked' <=> Asked
  PROVE  LifecycleStep
  BY DEF LifecycleStep, Done, Asked

LEMMA LifeContinue ==
  ASSUME store.status \in Lifecycle!Open \/ store.replayFrom > 0,
         store'.status = "running", Done(store)' = Done(store),
         store'.replayFrom = store.replayFrom, Asked' <=> Asked
  PROVE  LifecycleStep
  BY DEF LifecycleStep, Lifecycle!LifecycleNext, Lifecycle!Continue, Done, Asked

LEMMA LifeRedo ==
  ASSUME NEW i \in Steps, store.replayFrom > 0, store.replayFrom <= i,
         store'.status = "running", Done(store)' = Done(store) \ {i},
         store'.replayFrom = store.replayFrom, Asked' <=> Asked
  PROVE  LifecycleStep
  BY DEF LifecycleStep, Lifecycle!LifecycleNext, Lifecycle!RedoStep, Done, Asked, Steps

LEMMA LifeComplete ==
  ASSUME NEW i \in Steps, store.status = "running", store'.status = "running",
         OkBetween(store, store.replayFrom, i), store.replayFrom \in Int,
         Done(store)' = Done(store) \cup {i},
         store'.replayFrom = store.replayFrom, Asked' <=> Asked
  PROVE  LifecycleStep
<1>1. \A j \in 1..(i-1) : j >= store.replayFrom => j \in Done(store)
  BY NumStepsAssumption DEF OkBetween, Done, Steps
<1>2. Lifecycle!CompleteStep(i)
  BY <1>1 DEF Lifecycle!CompleteStep, Done, Asked
<1>3. QED
  BY <1>2 DEF LifecycleStep, Lifecycle!LifecycleNext, Steps

LEMMA LifePause ==
  ASSUME store.status \in Lifecycle!Open, store'.status = "paused",
         Done(store)' = Done(store), store'.replayFrom = store.replayFrom,
         Asked' <=> Asked
  PROVE  LifecycleStep
  BY DEF LifecycleStep, Lifecycle!LifecycleNext, Lifecycle!Pause, Done, Asked

LEMMA LifeEnd ==
  ASSUME store.status \in Lifecycle!Open \/ store.replayFrom > 0,
         \/ store'.status = "cancelled"
         \/ /\ store'.status \in {"failed", "timed_out"}
            /\ \E i \in Steps : i \notin Done(store),
         Done(store)' = Done(store),
         store'.replayFrom \in {store.replayFrom, 0}, Asked' <=> Asked
  PROVE  LifecycleStep
  BY DEF LifecycleStep, Lifecycle!LifecycleNext, Lifecycle!EndUnsuccessfully,
         Done, Asked, Steps

LEMMA LifeSucceed ==
  ASSUME store.status \in Lifecycle!Open \/ store.replayFrom > 0,
         store'.status = "ok", AllStepsOk(store), Done(store)' = Done(store),
         store'.replayFrom = 0, Asked' <=> Asked
  PROVE  LifecycleStep
  BY DEF LifecycleStep, Lifecycle!LifecycleNext, Lifecycle!Succeed, AllStepsOk,
         Done, Asked, Steps

LEMMA LifeAsk ==
  ASSUME ~Asked, Asked', store' = store
  PROVE  LifecycleStep
  BY DEF LifecycleStep, Lifecycle!LifecycleNext, Lifecycle!Ask, Asked

LEMMA LifeForget ==
  ASSUME Asked, ~Asked', store' = store
  PROVE  LifecycleStep
  BY DEF LifecycleStep, Lifecycle!LifecycleNext, Lifecycle!Forget, Asked

LEMMA LifeAnswer ==
  ASSUME Asked, ~Asked', store'.status = "running", Done(store)' = Done(store),
         store'.replayFrom = store.replayFrom
  PROVE  LifecycleStep
  BY DEF LifecycleStep, Lifecycle!LifecycleNext, Lifecycle!Answer, Done, Asked

LEMMA LifeReplay ==
  ASSUME Asked, ~Asked', NEW i \in Steps, store'.status = "running",
         Done(store)' = Done(store) \cap 1..(i-1), store'.replayFrom = i
  PROVE  LifecycleStep
  BY DEF LifecycleStep, Lifecycle!LifecycleNext, Lifecycle!Replay, Done, Asked,
         Steps

-----------------------------------------------------------------------------
(* Every step keeps the invariant and is a step of the lifecycle.          *)

(* A step that is waiting or in flight was not reached by a run that has   *)
(* stopped: such a run stands at an unsuccessful step.                     *)
LEMMA OpenAtStep ==
  ASSUME TypeInv, VerdictInv, Tidy(store), NEW d \in Drivers, WorkOf(d),
         AtStep(d), mem[d].stepStatus[idx[d]] \in {"running", "paused"}
  PROVE  store.status \in Lifecycle!Open
<1>1. /\ pc[d] = "loop" /\ idx[d] \in Steps /\ mem[d] = store
      /\ replayAt[d] = store.replayFrom
      /\ store.status \in Lifecycle!Open \/ store.replayFrom > 0
      /\ OkBetween(store, store.replayFrom, idx[d])
  BY DEF AtStep, WorkOf, InCall, InStep
<1>2. store.replayFrom <= idx[d] /\ store.replayFrom \in Int
  BY <1>1 DEF AtStep, Skips, Steps, TypeInv, OtherType, Run
<1>3. store.status # "ok"
  BY <1>1 DEF VerdictInv, VerdictOf
<1>4. ASSUME store.status \in Unsuccessful, store.replayFrom > 0 PROVE FALSE
  <2>1. PICK k \in Steps : /\ store.replayFrom <= k
                           /\ store.stepStatus[k] \in Unsuccessful
                           /\ OkBetween(store, store.replayFrom, k)
    BY <1>4 DEF Tidy
  <2>2. k = idx[d]
    BY <1>1, <1>2, <2>1 DEF OkBetween, Unsuccessful, Steps
  <2>3. QED
    BY <1>1, <2>1, <2>2 DEF Unsuccessful
<1>5. QED
  BY <1>1, <1>3, <1>4
  DEF Unsuccessful, Lifecycle!Open, TypeInv, OtherType, Run, RunStatus

(* What the loop knows when it is about to execute a step.                 *)
LEMMA AtReadyStep ==
  ASSUME TypeInv, NEW d \in Drivers, WorkOf(d), StepReady(d)
  PROVE  /\ pc[d] \in InCall /\ idx[d] \in Steps
         /\ mem[d] = store /\ replayAt[d] = store.replayFrom
         /\ store.status \in Lifecycle!Open \/ store.replayFrom > 0
         /\ OkBetween(store, store.replayFrom, idx[d])
         /\ store.replayFrom <= idx[d]
         /\ store.replayFrom = 0 => store.stepStatus[idx[d]] # "ok"
         /\ store.stepStatus[idx[d]] \notin {"paused", "running"}
<1>1. /\ idx[d] \in Steps /\ pc[d] \in {"loop", "check"}
      /\ store.replayFrom \in 0..NumSteps
  BY ReadyIndex DEF StepReady, AtStep, TypeInv, OtherType, Run
<1>2. /\ pc[d] \in InCall /\ mem[d] = store /\ replayAt[d] = store.replayFrom
      /\ store.status \in Lifecycle!Open \/ store.replayFrom > 0
      /\ OkBetween(store, store.replayFrom, idx[d])
  BY <1>1 DEF WorkOf, InCall, InStep
<1>3. CASE pc[d] = "check"
  BY <1>1, <1>2, <1>3 DEF WorkOf, InStep
<1>4. CASE AtStep(d) /\ mem[d].stepStatus[idx[d]] \notin {"paused", "running"}
  BY <1>1, <1>2, <1>4 DEF AtStep, Skips, Steps
<1>5. QED
  BY <1>1, <1>2, <1>3, <1>4 DEF StepReady

LEMMA WorkInit == OneWriter /\ Init => WorkInv
  BY FreshRunTidy DEF OneWriter, Init, WorkInv, WorkOf, InCall, InStep

LEMMA WorkStep ==
  ASSUME OneWriter, TypeInv, LockInv, VerdictInv, AttemptInv, WorkInv,
         [Next]_vars
  PROVE  WorkInv' /\ LifecycleStep
<1> DEFINE Good == WorkInv' /\ LifecycleStep
<1>t. Tidy(store) /\ store \in Run /\ budget["create"] = 0 /\ OnlyLockedWriters
  BY DEF WorkInv, TypeInv, OtherType, OneWriter
<1>u. CASE UNCHANGED vars
  <2>1. WorkInv'
    BY <1>u DEF vars, driverVars, WorkInv, WorkOf
  <2>2. LifecycleStep
    BY <1>u, LifeStutter DEF vars, driverVars, Done, Asked
  <2>3. QED
    BY <2>1, <2>2
<1>x. ASSUME NEW d \in Drivers, pc[d] = "idle", lock = NoDriver
      PROVE  \A e \in Drivers : pc[e] = "idle"
  BY <1>t, <1>x, NoDriverAssumption DEF LockInv, OnlyLockedWriters
<1>a. ASSUME NEW d \in Drivers, ResumeRun(d) PROVE Good
  <2>1. /\ Quiet(d) /\ Quiet(d)' /\ pc[d] = "idle"
        /\ store' = store /\ budget' = budget
        /\ pc'[d] = "loop" /\ mem'[d] = store /\ idx'[d] = 1
        /\ replayAt'[d] = store.replayFrom
        /\ ~NothingToResume(store)
    BY <1>a, <1>x
    DEF ResumeRun, EnterLoop, Goto, SetMem, Mutex!Acquire, TypeInv, DriverType,
        Quiet
  <2>2. store.status \in Lifecycle!Open \/ store.replayFrom > 0
    BY <1>t, <2>1
    DEF NothingToResume, IsWorkflowRunTerminal, Lifecycle!Open, Run, RunStatus
  <2>3. OkBetween(store, store.replayFrom, 1)
    BY <1>t DEF OkBetween, Steps
  <2>4. WorkInv'
    <3>1. WorkOf(d)'
      BY <2>1, <2>2, <2>3 DEF WorkOf, InCall, InStep
    <3>2. QED
      BY <1>t, <2>1, <3>1, WorkFrame
  <2>5. LifecycleStep
    BY <2>1, AskedByOne, LifeStutter DEF Asked, Done, Quiet
  <2>6. QED
    BY <2>4, <2>5
<1>b. ASSUME NEW d \in Drivers, NEW i \in Steps, ReplayRunFromStep(d, i)
      PROVE  Good
  <2>1. /\ Quiet(d) /\ Quiet(d)' /\ pc[d] = "idle"
        /\ store' = store /\ budget'["create"] = budget["create"]
        /\ pc'[d] = "rsave" /\ mem'[d] = ResetFrom(store, i)
    BY <1>b, <1>x
    DEF ReplayRunFromStep, Goto, SetMem, Mutex!Acquire, Spend, Events, TypeInv,
        DriverType, OtherType, Quiet
  <2>2. WorkOf(d)'
    BY <2>1 DEF WorkOf, InCall, InStep
  <2>3. WorkInv'
    BY <1>t, <2>1, <2>2, WorkFrame
  <2>4. LifecycleStep
    BY <2>1, LifeAsk DEF Asked, Quiet
  <2>5. QED
    BY <2>3, <2>4
<1>c. ASSUME NEW d \in Drivers, NEW i \in Steps, NEW dec \in Decisions,
             ResolveApproval(d, i, dec)
      PROVE  Good
  <2>1. /\ Quiet(d) /\ Quiet(d)' /\ pc[d] = "idle"
        /\ store' = store /\ budget'["create"] = budget["create"]
        /\ pc'[d] = "asave" /\ mem'[d] = WithDecision(store, i, dec)
    BY <1>c, <1>x
    DEF ResolveApproval, Goto, SetMem, Mutex!Acquire, Spend, Events, TypeInv,
        DriverType, OtherType, Quiet
  <2>2. WorkOf(d)'
    BY <2>1 DEF WorkOf, InCall, InStep
  <2>3. WorkInv'
    BY <1>t, <2>1, <2>2, WorkFrame
  <2>4. LifecycleStep
    BY <2>1, LifeAsk DEF Asked, Quiet
  <2>5. QED
    BY <2>3, <2>4
<1>d. ASSUME NEW d \in Drivers, CreateRun(d) PROVE FALSE
  BY <1>d, <1>t DEF CreateRun, Spend
<1>e. ASSUME NEW d \in Drivers, DriverStep(d) PROVE Good
  <2>0. /\ pc[d] # "idle" /\ budget' = budget
        /\ Quiet(d) /\ Quiet(d)' /\ mem[d] \in Run /\ WorkOf(d)
    BY <1>e, <1>t, OthersIdle, DriverStepMoves
    DEF Continues, Ends, Quiet, TypeInv, DriverType, WorkInv
  <2>k. /\ Asked <=> pc[d] \in {"rsave", "asave"}
        /\ Asked' <=> pc'[d] \in {"rsave", "asave"}
    BY <2>0 DEF Asked, Quiet
  <2>r. ASSUME Return(d) PROVE pc'[d] = "idle" /\ ~Asked'
    BY <2>k, <2>r, ReturnResets DEF Reset
  <2>q. ASSUME Return(d), Tidy(store)' PROVE WorkInv'
    BY <1>t, <2>0, <2>q, <2>r, WorkIdle
  <2>f. ASSUME Tidy(store)', WorkOf(d)' PROVE WorkInv'
    BY <1>t, <2>0, <2>f, WorkFrame
  <2>s. ASSUME store' = store, Asked' <=> Asked PROVE LifecycleStep
    BY <2>s, LifeStutter DEF Done
  <2>1. CASE ResumeLocked(d)
    <3>1. store' = store /\ pc[d] = "load"
      BY <2>1 DEF ResumeLocked
    <3>2. CASE EnterLoop(d)
      <4>1. /\ pc'[d] = "loop" /\ mem'[d] = store /\ idx'[d] = 1
            /\ replayAt'[d] = store.replayFrom
            /\ ~NothingToResume(store)
        BY <3>2 DEF EnterLoop, Goto, SetMem, TypeInv, DriverType
      <4>2. store.status \in Lifecycle!Open \/ store.replayFrom > 0
        BY <1>t, <4>1
        DEF NothingToResume, IsWorkflowRunTerminal, Lifecycle!Open, Run,
            RunStatus
      <4>3. OkBetween(store, store.replayFrom, 1)
        BY <1>t DEF OkBetween, Steps
      <4>4. WorkOf(d)'
        BY <3>1, <4>1, <4>2, <4>3 DEF WorkOf, InCall, InStep
      <4>5. QED
        BY <1>t, <2>f, <2>k, <2>s, <3>1, <4>1, <4>4
    <3>3. CASE Return(d)
      BY <1>t, <2>k, <2>q, <2>r, <2>s, <3>1, <3>3
    <3>4. QED
      BY <2>1, <3>2, <3>3 DEF ResumeLocked
  <2>2. CASE SaveReplay(d)
    <3>1. pc[d] = "rsave" /\ pc'[d] = "load" /\ store' = mem[d]
      BY <2>2 DEF SaveReplay, Save, Goto, TypeInv, DriverType
    <3>2. PICK i \in Steps : mem[d] = ResetFrom(store, i)
      BY <2>0, <3>1 DEF WorkOf
    <3>3. Tidy(store')
      BY <1>t, <3>1, <3>2, ResetFromTidy
    <3>4. WorkOf(d)'
      BY <3>1 DEF WorkOf, InCall, InStep
    <3>5. /\ store'.status = "running" /\ store'.replayFrom = i
          /\ Done(store') = Done(store) \cap 1..(i-1)
      BY <1>t, <3>1, <3>2, NumStepsAssumption
      DEF ResetFrom, Done, Run, Steps
    <3>6. LifecycleStep
      BY <2>k, <3>1, <3>5, LifeReplay
    <3>7. QED
      BY <2>f, <3>3, <3>4, <3>6
  <2>3. CASE SaveApproval(d)
    <3>1. pc[d] = "asave" /\ store' = mem[d] /\ Return(d)
      BY <2>3 DEF SaveApproval, Save
    <3>2. PICK i \in Steps, dec \in Decisions :
            mem[d] = WithDecision(store, i, dec)
      BY <2>0, <3>1 DEF WorkOf
    <3>3. Tidy(store')
      BY <1>t, <3>1, <3>2, WithDecisionTidy
    <3>4. /\ store'.status = "running"
          /\ store'.replayFrom = store.replayFrom
          /\ Done(store') = Done(store)
      BY <1>t, <3>1, <3>2 DEF WithDecision, Done, Run
    <3>5. LifecycleStep
      BY <2>k, <2>r, <3>1, <3>4, LifeAnswer
    <3>6. QED
      BY <2>q, <3>1, <3>3, <3>5
  <2>4. CASE SkipStep(d)
    <3>1. /\ pc[d] = "loop" /\ idx[d] \in Steps /\ store' = store
          /\ Skips(mem[d], replayAt[d], idx[d]) /\ NextStep(d, mem[d])
      BY <2>4 DEF SkipStep
    <3>2. /\ mem[d] = store /\ replayAt[d] = store.replayFrom
          /\ store.status \in Lifecycle!Open \/ store.replayFrom > 0
          /\ pc[d] \in InCall
      BY <2>0, <3>1 DEF WorkOf, InCall, InStep
    <3>3. store.stepStatus[idx[d]] = "ok" \/ idx[d] < store.replayFrom
      BY <3>1, <3>2 DEF Skips
    <3>4. WorkInv'
      BY <1>t, <2>0, <3>1, <3>2, <3>3, WorkPasses
    <3>5. pc'[d] = "loop"
      BY <3>1, NextStepMoves
    <3>6. QED
      BY <2>k, <2>s, <3>1, <3>4, <3>5
  <2>5. CASE AwaitApproval(d)
    <3>1. /\ AtStep(d) /\ mem[d].stepStatus[idx[d]] = "paused"
          /\ Return(d) /\ store' = [mem[d] EXCEPT !.status = "paused"]
      BY <2>5 DEF AwaitApproval, Save
    <3>2. mem[d] = store /\ idx[d] \in Steps /\ pc[d] = "loop"
      BY <2>0, <3>1 DEF AtStep, WorkOf, InCall, InStep
    <3>3. store.status \in Lifecycle!Open
      BY <1>t, <2>0, <3>1, OpenAtStep
    <3>4. /\ store' \in Run /\ OnlyStep(store, store', idx[d])
          /\ store'.status = "paused" /\ store'.stepStatus = store.stepStatus
          /\ store'.attempts = store.attempts
      BY <1>t, <3>1, <3>2 DEF OnlyStep, Run, RunStatus
    <3>5. Tidy(store')
      BY <1>t, <3>2, <3>4, OnlyStepTidy DEF Tidy, Lifecycle!Open
    <3>6. LifecycleStep
      BY <2>k, <2>r, <3>1, <3>2, <3>3, <3>4, LifePause DEF Done, OnlyStep
    <3>7. QED
      BY <2>q, <3>1, <3>5, <3>6
  <2>6. CASE RequeueStep(d)
    <3> DEFINE i == idx[d]
    <3>1. /\ AtStep(d) /\ mem[d].stepStatus[i] \in {"running", "paused"}
          /\ mem[d].stepStatus[i] = "paused" => mem[d].decision[i] # "none"
      BY <2>6 DEF RequeueStep
    <3>2. /\ mem[d] = store /\ i \in Steps /\ pc[d] = "loop"
          /\ replayAt[d] = store.replayFrom
          /\ store.status \in Lifecycle!Open \/ store.replayFrom > 0
          /\ OkBetween(store, store.replayFrom, i)
      BY <2>0, <3>1 DEF AtStep, WorkOf, InCall, InStep
    <3>3. store.status \in Lifecycle!Open
      BY <1>t, <2>0, <3>1, OpenAtStep
    <3>4. store.stepStatus[i] = "running"
      BY <1>t, <3>1, <3>2 DEF Tidy
    <3>5. /\ store' = RequeueInFlight(store, i) /\ mem'[d] = store'
          /\ pc'[d] = "check" /\ idx'[d] = i /\ replayAt'[d] = replayAt[d]
      BY <2>6, <3>2, <3>4
      DEF RequeueStep, SetMem, Save, Goto, TypeInv, DriverType
    <3>6. store' \in Run
      BY <1>t, <3>2, <3>5, RequeueInFlightType
    <3>7. /\ OnlyStep(store, store', i) /\ store'.status = store.status
          /\ store'.stepStatus[i] = "pending"
      BY <1>t, <3>2, <3>5 DEF RequeueInFlight, OnlyStep, Run
    <3>8. store'.attempts[i] < MaxAttempts[i]
      <4> DEFINE n == store.attempts[i]
      <4>1. store'.attempts[i] = IF n > 0 THEN n - 1 ELSE n
        BY <1>t, <3>2, <3>5 DEF RequeueInFlight, Run
      <4>2. n \in Nat /\ n <= MaxAttempts[i] /\ MaxAttempts[i] \in Nat \ {0}
        BY <1>t, <3>2, MaxAttemptsAssumption DEF AttemptInv, Bounded, Run
      <4>3. QED
        BY <4>1, <4>2
    <3>9. Tidy(store')
      BY <1>t, <3>2, <3>3, <3>6, <3>7, <3>8, OnlyStepTidy
    <3>10. store.replayFrom <= i
      BY <1>t, <3>1, <3>2 DEF AtStep, Skips, Run, Steps
    <3>11. OkBetween(store', store'.replayFrom, i)
      BY <3>2, <3>7 DEF OkBetween, OnlyStep, Steps
    <3> HIDE DEF i
    <3>12. WorkOf(d)'
      <4>1. /\ store'.replayFrom = store.replayFrom /\ store'.replayFrom <= i
            /\ replayAt'[d] = store'.replayFrom
            /\ store'.status \in Lifecycle!Open
        BY <3>2, <3>3, <3>5, <3>7, <3>10 DEF OnlyStep
      <4>2. QED
        BY <3>5, <3>7, <3>11, <4>1 DEF WorkOf, InCall, InStep
    <3>13. Done(store') = Done(store)
      BY <3>2, <3>4, <3>7 DEF Done, OnlyStep
    <3>14. LifecycleStep
      BY <2>k, <3>2, <3>5, <3>7, <3>13, LifeStutter DEF OnlyStep
    <3>15. QED
      BY <2>f, <3>9, <3>12, <3>14
  <2>7. CASE CancelBeforeStep(d)
    BY <1>t, <2>0, <2>7, AtReadyStep DEF CancelBeforeStep, Tidy
  <2>8. CASE FinishRun(d)
    <3>1. /\ pc[d] = "loop" /\ Return(d) /\ store' = FinalRun(mem[d])
      BY <2>8 DEF FinishRun, Save
    <3>2. /\ mem[d] = store
          /\ store.status \in Lifecycle!Open \/ store.replayFrom > 0
      BY <2>0, <3>1 DEF WorkOf, InCall, InStep
    <3>3. Tidy(store')
      BY <1>t, <3>1, <3>2, FinalRunTidy
    <3>4. /\ store'.replayFrom = 0 /\ store'.stepStatus = store.stepStatus
          /\ AllStepsOk(store) => store'.status = "ok"
          /\ ~AllStepsOk(store) => store'.status \in {"failed", "timed_out"}
      BY <1>t, <3>1, <3>2 DEF FinalRun, FailureStatus, Run
    <3>5. Done(store') = Done(store) /\ ~Asked /\ ~Asked'
      BY <2>k, <2>r, <3>1, <3>4 DEF Done
    <3>6. ASSUME AllStepsOk(store) PROVE LifecycleStep
      BY <3>2, <3>4, <3>5, <3>6, LifeSucceed
    <3>7. ASSUME ~AllStepsOk(store) PROVE LifecycleStep
      <4>1. \E i \in Steps : i \notin Done(store)
        BY <3>7 DEF AllStepsOk, Done
      <4>2. QED
        BY <3>2, <3>4, <3>5, <3>7, <4>1, LifeEnd
    <3>8. QED
      BY <2>q, <3>1, <3>3, <3>6, <3>7
  <2>9. CASE AttemptsExhausted(d)
    <3> DEFINE i == idx[d]
               s == mem[d].stepStatus[i]
    <3>1. /\ pc[d] \in InCall /\ i \in Steps /\ mem[d] = store
          /\ replayAt[d] = store.replayFrom
          /\ store.status \in Lifecycle!Open \/ store.replayFrom > 0
          /\ OkBetween(store, store.replayFrom, i)
          /\ store.replayFrom <= i
          /\ store.stepStatus[i] \notin {"paused", "running"}
      BY <2>0, <2>9, AtReadyStep DEF AttemptsExhausted
    <3>2. pc[d] \in {"loop", "check"} /\ store.attempts[i] >= MaxAttempts[i]
      BY <2>9, <3>1
      DEF AttemptsExhausted, StepReady, AtStep, Exhausted
    <3>3. CASE /\ s \in {"failed", "timed_out"}
               /\ Save([mem[d] EXCEPT !.status = FailureStatus(s)])
               /\ Return(d)
      <4>1. /\ store' \in Run /\ OnlyStep(store, store', i)
            /\ store'.status \in {"failed", "timed_out"}
            /\ store'.stepStatus = store.stepStatus
            /\ store'.attempts = store.attempts
        BY <1>t, <3>1, <3>3
        DEF Save, FailureStatus, OnlyStep, Run, RunStatus
      <4>2. Tidy(store')
        <5>1. store'.stepStatus[i] \in {"failed", "timed_out"}
          BY <3>1, <3>3, <4>1
        <5>2. QED
          BY <1>t, <3>1, <4>1, <5>1, OnlyStepTidy DEF Unsuccessful
      <4>3. Done(store') = Done(store) /\ i \notin Done(store)
        BY <3>1, <3>3, <4>1 DEF Done
      <4>4. LifecycleStep
        BY <2>k, <2>r, <3>1, <3>2, <3>3, <4>1, <4>3, LifeEnd DEF OnlyStep
      <4>5. QED
        BY <2>q, <3>3, <4>2, <4>4
    <3>4. CASE /\ s \notin {"failed", "timed_out"}
               /\ UNCHANGED store /\ AfterStep(d, mem[d])
      <4>1. store.stepStatus[i] = "ok"
        <5>1. store.stepStatus[i] \in StepStatus /\ store.attempts[i] \in Nat
          BY <1>t, <3>1 DEF Run
        <5>2. store.stepStatus[i] \notin {"pending", "cancelled"}
          BY <1>t, <3>1, <3>2, <5>1, MaxAttemptsAssumption DEF Tidy
        <5>3. QED
          BY <3>1, <3>4, <5>1, <5>2 DEF StepStatus
      <4>2. CASE Return(d)
        BY <1>t, <2>k, <2>q, <2>r, <2>s, <3>2, <3>4, <4>2
      <4>3. CASE NextStep(d, mem[d])
        <5>1. WorkInv'
          BY <1>t, <2>0, <3>1, <3>4, <4>1, <4>3, WorkPasses
        <5>2. pc'[d] = "loop"
          BY <4>3, NextStepMoves
        <5>3. QED
          BY <2>k, <2>s, <3>2, <3>4, <5>1, <5>2
      <4>4. QED
        BY <3>4, <4>2, <4>3 DEF AfterStep
    <3>5. QED
      BY <2>9, <3>3, <3>4 DEF AttemptsExhausted
  <2>10. CASE LoadForAttempt(d)
    <3>1. /\ store' = store /\ mem'[d] = store /\ pc'[d] = "loaded"
          /\ idx'[d] = idx[d] /\ replayAt'[d] = replayAt[d]
      BY <2>10 DEF LoadForAttempt, SetMem, Goto, TypeInv, DriverType
    <3>2. /\ replayAt[d] = store.replayFrom
          /\ store.status \in Lifecycle!Open \/ store.replayFrom > 0
          /\ OkBetween(store, store.replayFrom, idx[d])
          /\ store.replayFrom <= idx[d]
          /\ store.replayFrom = 0 => store.stepStatus[idx[d]] # "ok"
          /\ pc[d] \in {"loop", "check", "backoff"}
      <4>1. CASE StepReady(d)
        BY <2>0, <4>1, AtReadyStep DEF StepReady, AtStep
      <4>2. CASE pc[d] = "backoff"
        BY <2>0, <4>2 DEF WorkOf, InCall, InStep
      <4>3. QED
        BY <2>10, <4>1, <4>2 DEF LoadForAttempt
    <3>3. WorkOf(d)'
      BY <3>1, <3>2 DEF WorkOf, InCall, InStep
    <3>4. QED
      BY <1>t, <2>f, <2>k, <2>s, <3>1, <3>2, <3>3
  <2>11. CASE CancelAtAttempt(d)
    BY <1>t, <2>0, <2>11 DEF CancelAtAttempt, WorkOf, InCall, InStep, Tidy
  <2>12. CASE StartAttempt(d)
    <3> DEFINE i == idx[d]
    <3>1. /\ pc[d] = "loaded" /\ pc'[d] = "exec" /\ mem'[d] = store'
          /\ i' = i /\ replayAt'[d] = replayAt[d]
          /\ attempt'[d] = attempt[d]
          /\ store' = [mem[d] EXCEPT !.status = "running",
                                     !.stepStatus[i] = "running",
                                     !.attempts[i] = attempt[d]]
      BY <2>12 DEF StartAttempt, SetMem, Save, Goto, TypeInv, DriverType
    <3>2. /\ mem[d] = store /\ replayAt[d] = store.replayFrom /\ i \in Steps
          /\ store.status \in Lifecycle!Open \/ store.replayFrom > 0
          /\ OkBetween(store, store.replayFrom, i)
          /\ store.replayFrom <= i
          /\ store.replayFrom = 0 => store.stepStatus[i] # "ok"
      BY <2>0, <3>1 DEF WorkOf, InCall, InStep, TypeInv, DriverType
    <3>3. /\ store' \in Run /\ OnlyStep(store, store', i)
          /\ store'.status = "running" /\ store'.stepStatus[i] = "running"
          /\ store'.attempts[i] = attempt[d]
      <4>1. attempt[d] \in Nat
        BY DEF TypeInv, DriverType
      <4>2. store' \in Run
        BY TypeInvStep DEF TypeInv, OtherType
      <4>3. /\ store'.status = "running"
            /\ store'.stepStatus = [store.stepStatus EXCEPT ![i] = "running"]
            /\ store'.attempts = [store.attempts EXCEPT ![i] = attempt[d]]
            /\ store'.cancelRequested = store.cancelRequested
            /\ store'.replayFrom = store.replayFrom
            /\ store'.decision = store.decision
        BY <1>t, <3>1, <3>2 DEF Run
      <4>4. QED
        BY <1>t, <3>2, <4>2, <4>3 DEF OnlyStep, Run
    <3>4. Tidy(store')
      BY <1>t, <3>2, <3>3, OnlyStepTidy DEF Lifecycle!Open
    <3>5. OkBetween(store', store'.replayFrom, i)
      BY <3>2, <3>3 DEF OkBetween, OnlyStep, Steps
    <3>6. store'.replayFrom = store.replayFrom
      BY <3>3 DEF OnlyStep
    <3> HIDE DEF i
    <3>7. WorkOf(d)'
      BY <3>1, <3>2, <3>3, <3>5, <3>6
      DEF WorkOf, InCall, InStep, Lifecycle!Open, i
    <3>8. Done(store') = Done(store) \ {i}
      BY <3>2, <3>3 DEF Done, OnlyStep
    <3>9. LifecycleStep
      <4>1. CASE store.replayFrom > 0
        BY <2>k, <3>1, <3>2, <3>3, <3>6, <3>8, <4>1, LifeRedo
      <4>2. CASE store.replayFrom = 0
        <5>1. Done(store') = Done(store)
          BY <3>2, <3>8, <4>2 DEF Done
        <5>2. QED
          BY <2>k, <3>1, <3>2, <3>3, <3>6, <5>1, LifeContinue
      <4>3. QED
        BY <1>t, <4>1, <4>2 DEF Run
    <3>10. QED
      BY <2>f, <3>4, <3>7, <3>9
  <2>13. CASE HandlerReturns(d)
    <3>1. /\ pc[d] = "exec" /\ pc'[d] = "result" /\ store' = store
          /\ idx' = idx /\ replayAt' = replayAt /\ attempt' = attempt
      BY <2>13 DEF HandlerReturns, Goto, TypeInv, DriverType
    <3>2. PICK o \in HandlerOutcomes(d) :
            SetMem(d, WithOutcome(store, idx[d], o))
      BY <2>13 DEF HandlerReturns, WithOutcome
    <3>3. mem'[d] = WithOutcome(store, idx[d], o)
      BY <3>2 DEF SetMem, TypeInv, DriverType
    <3>4. /\ mem[d] = store /\ replayAt[d] = store.replayFrom
          /\ store.status = "running"
          /\ OkBetween(store, store.replayFrom, idx[d])
          /\ store.replayFrom <= idx[d]
          /\ store.stepStatus[idx[d]] = "running"
          /\ store.attempts[idx[d]] = attempt[d]
      BY <2>0, <3>1 DEF WorkOf, InCall, InStep
    <3>5. /\ o \in {"ok", "failed", "timed_out", "paused"}
          /\ o = "paused" => store.decision[idx[d]] = "none"
      BY <3>2, <3>4 DEF HandlerOutcomes
    <3>6. WorkOf(d)'
      BY <3>1, <3>3, <3>4, <3>5
      DEF WorkOf, InCall, InStep, Lifecycle!Open
    <3>7. QED
      BY <1>t, <2>f, <2>k, <2>s, <3>1, <3>6
  <2>14. CASE SaveResult(d)
    <3> DEFINE i == idx[d]
    <3>1. pc[d] = "result" /\ store' = mem[d]
      BY <2>14 DEF SaveResult, Save
    <3>2. /\ i \in Steps /\ replayAt[d] = store.replayFrom
          /\ OkBetween(store, store.replayFrom, i)
          /\ store.replayFrom <= i
          /\ store.stepStatus[i] = "running" /\ store.status = "running"
          /\ store.attempts[i] = attempt[d]
      BY <2>0, <3>1 DEF WorkOf, InCall, InStep, TypeInv, DriverType
    <3>3. PICK o \in {"ok", "failed", "timed_out", "paused"} :
            /\ mem[d] = WithOutcome(store, i, o)
            /\ o = "paused" => store.decision[i] = "none"
      BY <2>0, <3>1 DEF WorkOf
    <3>4. /\ store' \in Run /\ OnlyStep(store, store', i)
          /\ store'.status = IF o = "paused" THEN "paused" ELSE "running"
          /\ store'.stepStatus[i] = o
          /\ store'.attempts = store.attempts
      BY <1>t, <2>0, <3>1, <3>2, <3>3 DEF WithOutcome, OnlyStep, Run
    <3>5. Tidy(store')
      BY <1>t, <3>2, <3>3, <3>4, OnlyStepTidy DEF Lifecycle!Open
    <3>6. store'.replayFrom = store.replayFrom
      BY <3>4 DEF OnlyStep
    <3>7. \A j \in Steps : j # i => store'.stepStatus[j] = store.stepStatus[j]
      BY <3>4 DEF OnlyStep
    <3>8. o # "ok" => Done(store') = Done(store)
      BY <3>2, <3>4, <3>7 DEF Done
    <3>9. CASE o = "paused" /\ Return(d)
      <4>1. LifecycleStep
        BY <2>k, <2>r, <3>1, <3>2, <3>4, <3>6, <3>8, <3>9, LifePause
        DEF Lifecycle!Open
      <4>2. QED
        BY <2>q, <3>5, <3>9, <4>1
    <3>10. CASE o = "ok" /\ AfterStep(d, mem[d])
      <4>1. NextStep(d, store')
        BY <3>1, <3>4, <3>10 DEF AfterStep
      <4>2. WorkInv'
        BY <1>t, <2>0, <3>1, <3>2, <3>4, <3>5, <3>6, <3>7, <3>10, <4>1,
           WorkPasses
        DEF InCall, InStep, Lifecycle!Open
      <4>3. pc'[d] = "loop"
        BY <4>1, NextStepMoves
      <4>4. Done(store') = Done(store) \cup {i}
        BY <3>2, <3>4, <3>7, <3>10 DEF Done
      <4>5. LifecycleStep
        <5>1. store.replayFrom \in Int
          BY <1>t DEF Run
        <5>2. QED
          BY <2>k, <3>1, <3>2, <3>4, <3>6, <3>10, <4>3, <4>4, <5>1,
             LifeComplete
      <4>6. QED
        BY <4>2, <4>5
    <3>11. CASE /\ o \in {"failed", "timed_out"}
                /\ Goto(d, IF attempt[d] < MaxAttempts[i]
                           THEN "retry" ELSE "fail")
                /\ UNCHANGED <<lock, mem, idx, attempt, replayAt, ctx>>
      <4>1. /\ pc'[d] \in {"retry", "fail"} /\ mem'[d] = store'
            /\ i' = i /\ replayAt'[d] = replayAt[d]
            /\ attempt'[d] = attempt[d]
        BY <3>1, <3>11 DEF Goto, TypeInv, DriverType
      <4>2. OkBetween(store', store'.replayFrom, i)
        BY <3>2, <3>6, <3>7 DEF OkBetween, Steps
      <4> HIDE DEF i
      <4>3. WorkOf(d)'
        BY <3>2, <3>4, <3>6, <3>11, <4>1, <4>2
        DEF WorkOf, InCall, InStep, Lifecycle!Open, i
      <4>4. LifecycleStep
        BY <2>k, <3>1, <3>2, <3>4, <3>6, <3>8, <3>11, <4>1, LifeStutter
      <4>5. QED
        BY <2>f, <3>5, <4>3, <4>4
    <3>12. QED
      <4>1. mem[d].stepStatus[i] = o
        BY <3>1, <3>4
      <4>2. QED
        BY <2>14, <3>9, <3>10, <3>11, <4>1 DEF SaveResult
  <2>15. CASE RequeueForRetry(d)
    <3> DEFINE i == idx[d]
    <3>1. /\ pc[d] = "retry" /\ pc'[d] = "backoff" /\ mem'[d] = store'
          /\ i' = i /\ replayAt'[d] = replayAt[d]
          /\ attempt'[d] = attempt[d]
          /\ store' = [mem[d] EXCEPT !.stepStatus[i] = "pending"]
      BY <2>15 DEF RequeueForRetry, SetMem, Save, Goto, TypeInv, DriverType
    <3>2. /\ mem[d] = store /\ i \in Steps /\ replayAt[d] = store.replayFrom
          /\ OkBetween(store, store.replayFrom, i)
          /\ store.replayFrom <= i
          /\ store.stepStatus[i] \in {"failed", "timed_out"}
          /\ store.attempts[i] = attempt[d]
      BY <2>0, <3>1 DEF WorkOf, InCall, InStep, TypeInv, DriverType
    <3>3. store.status \in Lifecycle!Open
      BY <3>1, <3>2 DEF VerdictInv, VerdictOf, Lifecycle!Open
    <3>4. /\ store' \in Run /\ OnlyStep(store, store', i)
          /\ store'.status = store.status /\ store'.stepStatus[i] = "pending"
          /\ store'.attempts = store.attempts
      BY <1>t, <3>1, <3>2 DEF OnlyStep, Run, StepStatus
    <3>5. attempt[d] < MaxAttempts[i]
      BY <3>1 DEF AttemptInv, AttemptOf
    <3>6. Tidy(store')
      BY <1>t, <3>2, <3>3, <3>4, <3>5, OnlyStepTidy
    <3>7. store'.replayFrom = store.replayFrom
      BY <3>4 DEF OnlyStep
    <3>8. OkBetween(store', store'.replayFrom, i)
      BY <3>2, <3>4 DEF OkBetween, OnlyStep, Steps
    <3>9. Done(store') = Done(store)
      BY <3>2, <3>4 DEF Done, OnlyStep
    <3> HIDE DEF i
    <3>10. WorkOf(d)'
      BY <3>1, <3>2, <3>3, <3>4, <3>7, <3>8 DEF WorkOf, InCall, InStep, i
    <3>11. LifecycleStep
      BY <2>k, <3>1, <3>4, <3>7, <3>9, LifeStutter
    <3>12. QED
      BY <2>f, <3>6, <3>10, <3>11
  <2>16. CASE AbortRetry(d)
    <3> DEFINE i == idx[d]
    <3>1. pc[d] = "backoff" /\ Return(d)
      BY <2>16 DEF AbortRetry
    <3>2. PICK s \in {"timed_out", "cancelled"} :
            store' = [mem[d] EXCEPT !.status = s, !.stepStatus[i] = s]
      BY <2>16 DEF AbortRetry, Save
    <3>3. /\ mem[d] = store /\ i \in Steps
          /\ store.status \in Lifecycle!Open \/ store.replayFrom > 0
          /\ OkBetween(store, store.replayFrom, i)
          /\ store.replayFrom <= i
          /\ store.stepStatus[i] = "pending"
          /\ store.attempts[i] = attempt[d]
      BY <2>0, <3>1 DEF WorkOf, InCall, InStep, TypeInv, DriverType
    <3>4. /\ store' \in Run /\ OnlyStep(store, store', i)
          /\ store'.status = s /\ store'.stepStatus[i] = s
          /\ store'.attempts = store.attempts
      BY <1>t, <3>2, <3>3 DEF OnlyStep, Run, RunStatus, StepStatus
    <3>5. attempt[d] < MaxAttempts[i]
      BY <3>1 DEF AttemptInv, AttemptOf
    <3>6. Tidy(store')
      BY <1>t, <3>3, <3>4, <3>5, OnlyStepTidy DEF Unsuccessful
    <3>7. Done(store') = Done(store) /\ i \notin Done(store)
      BY <3>3, <3>4 DEF Done, OnlyStep
    <3>8. LifecycleStep
      BY <2>k, <2>r, <3>1, <3>3, <3>4, <3>7, LifeEnd DEF OnlyStep
    <3>9. QED
      BY <2>q, <3>1, <3>6, <3>8
  <2>17. CASE FailRun(d)
    <3> DEFINE i == idx[d]
    <3>1. /\ pc[d] = "fail" /\ Return(d)
          /\ store' = [mem[d] EXCEPT
                         !.status = FailureStatus(mem[d].stepStatus[i])]
      BY <2>17 DEF FailRun, Save
    <3>2. /\ mem[d] = store /\ i \in Steps
          /\ store.status \in Lifecycle!Open \/ store.replayFrom > 0
          /\ OkBetween(store, store.replayFrom, i)
          /\ store.replayFrom <= i
          /\ store.stepStatus[i] \in {"failed", "timed_out"}
      BY <2>0, <3>1 DEF WorkOf, InCall, InStep, TypeInv, DriverType
    <3>3. /\ store' \in Run /\ OnlyStep(store, store', i)
          /\ store'.status \in {"failed", "timed_out"}
          /\ store'.stepStatus = store.stepStatus
          /\ store'.attempts = store.attempts
      BY <1>t, <3>1, <3>2 DEF FailureStatus, OnlyStep, Run, RunStatus
    <3>4. Tidy(store')
      BY <1>t, <3>2, <3>3, OnlyStepTidy DEF Unsuccessful
    <3>5. Done(store') = Done(store) /\ i \notin Done(store)
      BY <3>2, <3>3 DEF Done
    <3>6. LifecycleStep
      BY <2>k, <2>r, <3>1, <3>2, <3>3, <3>5, LifeEnd DEF OnlyStep
    <3>7. QED
      BY <2>q, <3>1, <3>4, <3>6
  <2>18. QED
    BY <1>e, <2>1, <2>2, <2>3, <2>4, <2>5, <2>6, <2>7, <2>8, <2>9, <2>10,
       <2>11, <2>12, <2>13, <2>14, <2>15, <2>16, <2>17 DEF DriverStep
<1>f. ASSUME NEW d \in Drivers, Crash(d) PROVE Good
  <2>1. /\ pc[d] # "idle" /\ Return(d) /\ store' = store
        /\ budget'["create"] = budget["create"]
    BY <1>f DEF Crash, Spend, Events, TypeInv, OtherType
  <2>2. Quiet(d) /\ Quiet(d)' /\ pc'[d] = "idle"
    BY <1>t, <2>1, OthersIdle, ReturnResets DEF Reset, OthersUnchanged, Quiet
  <2>3. WorkInv'
    BY <1>t, <2>1, <2>2, WorkIdle
  <2>4. ~Asked'
    BY <2>2 DEF Asked, Quiet
  <2>5. LifecycleStep
    BY <2>1, <2>4, LifeForget, LifeStutter DEF Done
  <2>6. QED
    BY <2>3, <2>5
<1>g. ASSUME NEW d \in Drivers, ContextDone(d) PROVE Good
  <2>1. /\ UNCHANGED <<store, pc, mem, idx, attempt, replayAt>>
        /\ budget'["create"] = budget["create"]
    BY <1>g DEF ContextDone, Spend, Events, TypeInv, OtherType
  <2>2. WorkInv'
    BY <2>1 DEF WorkInv, WorkOf
  <2>3. LifecycleStep
    BY <2>1, LifeStutter DEF Done, Asked
  <2>4. QED
    BY <2>2, <2>3
<1>h. ASSUME NEW d \in Drivers, LeaseLapses(d) PROVE FALSE
  BY <1>t, <1>h DEF LeaseLapses, Spend, LockInv, OnlyLockedWriters
<1>i. ASSUME NEW c \in Cancellers PROVE FALSE
  BY <1>t, <1>i DEF OnlyLockedWriters
<1>q. QED
  BY <1>u, <1>a, <1>b, <1>c, <1>d, <1>e, <1>f, <1>g, <1>h, <1>i DEF Next

(* What the theorems below rest on, as one invariant.                      *)
OrderInv == TypeInv /\ LockInv /\ VerdictInv /\ AttemptInv /\ WorkInv

LEMMA OrderInvInit == OneWriter /\ Init => OrderInv
  BY TypeInvInit, LockInvInit, VerdictInit, AttemptInit, WorkInit DEF OrderInv

LEMMA OrderInvStep ==
  ASSUME OneWriter
  PROVE  OrderInv /\ [Next]_vars => OrderInv' /\ LifecycleStep
<1> SUFFICES ASSUME OrderInv, [Next]_vars PROVE OrderInv' /\ LifecycleStep
  OBVIOUS
<1>1. TypeInv' /\ LockInv' /\ AttemptInv'
  BY TypeInvStep, LockInvStep, AttemptStep DEF OrderInv
<1>2. VerdictInv'
  BY VerdictStep DEF OrderInv, OneWriter
<1>3. WorkInv' /\ LifecycleStep
  BY WorkStep DEF OrderInv
<1>4. QED
  BY <1>1, <1>2, <1>3 DEF OrderInv

LEMMA OrderInvariant == ASSUME OneWriter PROVE Spec => []OrderInv
  BY OrderInvInit, OrderInvStep, PTL DEF Spec

(* No handler runs before every earlier step the loop is responsible for   *)
(* is ok: with one writer at a time no step overtakes a failed, paused or  *)
(* unfinished one, whatever crashes, retries, replays and approvals lie    *)
(* between the moment the loop passed a step and the moment it executes a  *)
(* later one.                                                              *)
THEOREM StepsRunInOrder ==
  ASSUME OneWriter
  PROVE  Spec => []OrderedExecution
<1>1. OrderInv => OrderedExecution
  <2> SUFFICES ASSUME OrderInv, NEW d \in Drivers, pc[d] = "exec"
               PROVE  \A j \in Steps : replayAt[d] <= j /\ j < idx[d] =>
                         mem[d].stepStatus[j] = "ok"
    BY DEF OrderedExecution
  <2>1. WorkOf(d)
    BY DEF OrderInv, WorkInv
  <2>2. QED
    BY <2>1 DEF WorkOf, InCall, InStep, OkBetween
<1>2. QED
  BY <1>1, OrderInvariant, PTL

(* Outside of a replay no handler is started for a step that is ok: the    *)
(* record that executeStep reloads never shows the step completed.         *)
THEOREM OkStepsNotRedone ==
  ASSUME OneWriter
  PROVE  Spec => NoRedo
<1>1. OrderInv /\ [Next]_vars =>
        [\A d \in Drivers :
           pc[d] = "loaded" /\ pc'[d] = "exec" /\ replayAt[d] = 0
             => store.stepStatus[idx[d]] # "ok"]_vars
  <2> SUFFICES ASSUME OrderInv, NEW d \in Drivers, pc[d] = "loaded",
                      replayAt[d] = 0
               PROVE  store.stepStatus[idx[d]] # "ok"
    OBVIOUS
  <2>1. WorkOf(d)
    BY DEF OrderInv, WorkInv
  <2>2. QED
    BY <2>1 DEF WorkOf, InCall, InStep
<1>2. QED
  BY <1>1, OrderInvariant, PTL DEF Spec, NoRedo

(* The runtime, reduced to what an operator sees of the run, is the        *)
(* abstract lifecycle: steps complete one at a time and in order, "ok"     *)
(* means that all of them did, a finished run is reopened only on request, *)
(* and a request that dies with its process changes nothing.               *)
THEOREM RuntimeImplementsLifecycle ==
  ASSUME OneWriter
  PROVE  Spec => ImplementsLifecycle
<1>1. Init => Lifecycle!LifecycleInit
  BY DEF Init, Lifecycle!LifecycleInit, FreshRun
<1>2. OrderInv /\ [Next]_vars => LifecycleStep
  BY OrderInvStep
<1>3. QED
  BY <1>1, <1>2, OrderInvariant, PTL
  DEF Spec, ImplementsLifecycle, Lifecycle!LifecycleSpec, LifecycleStep
-----------------------------------------------------------------------------
(* Cancellers.  They write whole records without the lock, so a driver's   *)
(* copy is no longer the stored record.  But every record they write has   *)
(* the cancel flag set, a driver that holds a flagged record starts no     *)
(* handler any more, and only a replay clears the flag: the unflagged      *)
(* records descend from the saves of lock holders.                         *)

(* Replays and approvals are not mixed.  A replay can clear the flag of a  *)
(* stale record in which a cancelled step before its starting point has no *)
(* attempt left; an approval that reopens such a run lets the loop pass    *)
(* that step and execute a later one.                                      *)
OneKindOfRequest ==
    /\ Budget["lapse"] = 0 /\ Budget["create"] = 0
    /\ Budget["replay"] = 0 \/ Budget["approve"] = 0

NoReplays == Budget["replay"] = 0

(* From its replay point on, a step that may be tried has an attempt left  *)
(* and a paused step waits for its decision.                               *)
Orderly(run) ==
    \A i \in Steps : run.replayFrom <= i =>
        /\ run.stepStatus[i] \in {"pending", "cancelled"} =>
             run.attempts[i] < MaxAttempts[i]
        /\ run.stepStatus[i] = "paused" => run.decision[i] = "none"

(* The records that are stored.                                            *)
Fits(run) ==
    \/ run.cancelRequested
    \/ Orderly(run)
    \/ Budget["approve"] = 0 /\ NothingToResume(run)

(* Every step that is ok in the store or in a canceller's copy is in run.  *)
Ahead(run) ==
    /\ Done(store) \subseteq Done(run)
    /\ \A c \in Cancellers : Done(cmem[c]) \subseteq Done(run)

(* The step a driver works on, as its unflagged record shows it.           *)
StepOf(d) ==
    /\ replayAt[d] <= idx[d]
    /\ pc[d] \in {"check", "backoff"} => mem[d].stepStatus[idx[d]] = "pending"
    /\ pc[d] = "exec" => mem[d].stepStatus[idx[d]] = "running"
    /\ pc[d] \in {"retry", "fail"} =>
         mem[d].stepStatus[idx[d]] \in {"failed", "timed_out"}
    /\ pc[d] = "loaded" /\ replayAt[d] = 0 =>
         mem[d].stepStatus[idx[d]] # "ok"
    /\ pc[d] \in {"exec", "result", "retry", "backoff"} =>
         mem[d].attempts[idx[d]] = attempt[d]

PlaceOf(d) ==
    /\ replayAt[d] = mem[d].replayFrom
    /\ Orderly(mem[d])
    /\ OkBetween(mem[d], replayAt[d], idx[d])
    /\ pc[d] # "result" /\ ~store.cancelRequested => mem[d] = store
    /\ pc[d] \in InStep => StepOf(d)

GrowthOf(d) ==
    /\ pc[d] \notin {"load", "rsave"}
    /\ pc[d] # "idle" => mem[d].replayFrom = 0
    /\ pc[d] \in InCall \cup {"asave"} /\ ~mem[d].cancelRequested =>
         Ahead(mem[d])

CallOf(d) ==
    /\ pc[d] # "idle" /\ mem[d].cancelRequested => store.cancelRequested
    /\ pc[d] = "exec" => ~mem[d].cancelRequested
    /\ pc[d] \in {"rsave", "asave"} => mem[d].cancelRequested \/ Orderly(mem[d])
    /\ pc[d] \in InCall /\ ~mem[d].cancelRequested => PlaceOf(d)
    /\ NoReplays => GrowthOf(d)

Requests ==
    /\ budget["create"] = 0
    /\ \A e \in {"replay", "approve"} : Budget[e] = 0 => budget[e] = 0

Unreplayed ==
    NoReplays =>
        /\ store.replayFrom = 0
        /\ \A c \in Cancellers : cmem[c].replayFrom = 0
        /\ ~store.cancelRequested =>
             \A c \in Cancellers : Done(cmem[c]) \subseteq Done(store)

FlagInv ==
    /\ Requests
    /\ Fits(store)
    /\ Unreplayed
    /\ \A d \in Drivers : CallOf(d)

LEMMA FreshRunOrderly ==
  Orderly(FreshRun) /\ Done(FreshRun) = {} /\ FreshRun.replayFrom = 0
  BY MaxAttemptsAssumption DEF Orderly, FreshRun, Done

LEMMA ResetFromOrderly ==
  ASSUME NEW run \in Run, NEW i \in Steps
  PROVE  Orderly(ResetFrom(run, i)) /\ ~ResetFrom(run, i).cancelRequested
  BY MaxAttemptsAssumption DEF Orderly, ResetFrom, Run

LEMMA WithDecisionOrderly ==
  ASSUME NEW run \in Run, NEW i \in Steps, NEW dec \in Decisions
  PROVE  /\ Orderly(run) => Orderly(WithDecision(run, i, dec))
         /\ WithDecision(run, i, dec).cancelRequested = run.cancelRequested
         /\ WithDecision(run, i, dec).replayFrom = run.replayFrom
         /\ Done(WithDecision(run, i, dec)) = Done(run)
<1> DEFINE other == WithDecision(run, i, dec)
<1>1. /\ other.attempts = [run.attempts EXCEPT ![i] = 0]
      /\ other.decision = [run.decision EXCEPT ![i] = dec]
      /\ other.stepStatus = [run.stepStatus EXCEPT ![i] =
            IF run.stepStatus[i] = "paused" THEN "pending"
            ELSE run.stepStatus[i]]
      /\ other.cancelRequested = run.cancelRequested
      /\ other.replayFrom = run.replayFrom
  BY DEF WithDecision, Run
<1> HIDE DEF other
<1>2. Orderly(run) => Orderly(other)
  BY <1>1, MaxAttemptsAssumption DEF Orderly, Run
<1>3. Done(other) = Done(run)
  BY <1>1 DEF Done, Run
<1>4. QED
  BY <1>1, <1>2, <1>3 DEF other

(* What a change of one step keeps.                                        *)
LEMMA OnlyStepOrderly ==
  ASSUME NEW run \in Run, NEW other \in Run, NEW i \in Steps,
         Orderly(run), OnlyStep(run, other, i),
         other.stepStatus[i] \in {"pending", "cancelled"} =>
            other.attempts[i] < MaxAttempts[i],
         other.stepStatus[i] = "paused" => other.decision[i] = "none"
  PROVE  Orderly(other)
  BY DEF Orderly, OnlyStep

LEMMA OnlyStepBetween ==
  ASSUME NEW run, NEW other, NEW i \in Steps, NEW from,
         OnlyStep(run, other, i), OkBetween(run, from, i)
  PROVE  OkBetween(other, from, i)
  BY DEF OkBetween, OnlyStep, Steps

LEMMA OnlyStepDone ==
  ASSUME NEW run, NEW other, NEW i \in Steps,
         OnlyStep(run, other, i), run.stepStatus[i] # "ok"
  PROVE  Done(run) \subseteq Done(other)
  BY DEF Done, OnlyStep

-----------------------------------------------------------------------------
(* The shape of a step in the presence of cancellers.                      *)

LEMMA FlagFrame ==
  ASSUME NEW d \in Drivers, Quiet(d)', Requests', Fits(store)', Unreplayed',
         CallOf(d)'
  PROVE  FlagInv'
  BY DEF FlagInv, CallOf, GrowthOf, Quiet, InCall, InStep

LEMMA FlagIdle ==
  ASSUME NEW d \in Drivers, pc'[d] = "idle"
  PROVE  CallOf(d)'
  BY DEF CallOf, GrowthOf, InCall, InStep

(* resumeRunLocked enters its loop with the stored record.                 *)
LEMMA FlagEnters ==
  ASSUME TypeInv, Fits(store), Unreplayed, NEW d \in Drivers, EnterLoop(d),
         UNCHANGED <<store, cmem>>
  PROVE  CallOf(d)'
<1>1. /\ pc'[d] = "loop" /\ mem'[d] = store /\ idx'[d] = 1
      /\ replayAt'[d] = store.replayFrom /\ ~NothingToResume(store)
  BY DEF EnterLoop, Goto, SetMem, TypeInv, DriverType
<1>2. store \in Run /\ OkBetween(store, store.replayFrom, 1)
  BY DEF OkBetween, Steps, TypeInv, OtherType
<1>3. ~store.cancelRequested => Orderly(store)
  BY <1>1 DEF Fits
<1>4. ~store.cancelRequested => PlaceOf(d)'
  BY <1>1, <1>2, <1>3 DEF PlaceOf, Orderly, OkBetween, InStep
<1>5. NoReplays => GrowthOf(d)'
  BY <1>1 DEF Unreplayed, GrowthOf, Ahead, Done
<1>6. QED
  BY <1>1, <1>4, <1>5 DEF CallOf

(* The loop passes a step that is ok or before the replay, or goes on with *)
(* a flagged record.                                                       *)
LEMMA FlagPasses ==
  ASSUME TypeInv, NEW d \in Drivers, CallOf(d), pc[d] \in InCall,
         idx[d] \in Steps, NextStep(d, mem[d]), cmem' = cmem,
         store' \in {store, mem[d]}, pc[d] = "result" => store' = mem[d],
         ~mem[d].cancelRequested =>
            mem[d].stepStatus[idx[d]] = "ok" \/ idx[d] < replayAt[d]
  PROVE  CallOf(d)'
<1>1. /\ pc'[d] = "loop" /\ mem'[d] = mem[d] /\ idx'[d] = idx[d] + 1
      /\ replayAt'[d] = replayAt[d]
  BY DEF NextStep, Goto, SetMem, TypeInv, DriverType
<1>2. pc[d] # "idle" /\ replayAt[d] \in Int
  BY DEF InCall, InStep, TypeInv, DriverType
<1>3. mem[d].cancelRequested => store'.cancelRequested
  BY <1>2 DEF CallOf
<1>4. ASSUME ~mem[d].cancelRequested PROVE PlaceOf(d)'
  <2>1. PlaceOf(d)
    BY <1>4 DEF CallOf
  <2>2. OkBetween(mem[d], replayAt[d], idx[d] + 1)
    BY <1>2, <1>4, <2>1 DEF PlaceOf, OkBetween, Steps
  <2>3. ~store'.cancelRequested => mem[d] = store'
    BY <2>1 DEF PlaceOf
  <2>4. QED
    BY <1>1, <2>1, <2>2, <2>3 DEF PlaceOf, Orderly, OkBetween, InStep
<1>5. ASSUME NoReplays PROVE GrowthOf(d)'
  <2>1. ~mem[d].cancelRequested => Ahead(mem[d])
    BY <1>5 DEF CallOf, GrowthOf
  <2>2. ~mem[d].cancelRequested => Ahead(mem[d])'
    BY <1>1, <2>1 DEF Ahead, Done
  <2>3. mem[d].replayFrom = 0
    BY <1>2, <1>5 DEF CallOf, GrowthOf
  <2>4. QED
    BY <1>1, <2>2, <2>3 DEF GrowthOf
<1>6. QED
  BY <1>1, <1>3, <1>4, <1>5 DEF CallOf

(* The driver saves its record with the step it works on changed.          *)
LEMMA FlagWrites ==
  ASSUME TypeInv, NEW d \in Drivers, CallOf(d), pc[d] \in InCall,
         pc[d] \in InStep \/ replayAt[d] <= idx[d], idx[d] \in Steps, cmem' = cmem,
         mem[d] \in Run, store' \in Run, mem'[d] = store',
         idx'[d] = idx[d], replayAt'[d] = replayAt[d],
         pc'[d] \in InStep \ {"result"}, OnlyStep(mem[d], store', idx[d]),
         store'.stepStatus[idx[d]] \in {"pending", "running"},
         ~mem[d].cancelRequested /\ store'.stepStatus[idx[d]] = "pending" =>
            store'.attempts[idx[d]] < MaxAttempts[idx[d]],
         ~mem[d].cancelRequested /\ NoReplays =>
            mem[d].stepStatus[idx[d]] # "ok",
         pc'[d] = "exec" => ~mem[d].cancelRequested,
         ~mem[d].cancelRequested /\ replayAt[d] <= idx[d] => StepOf(d)'
  PROVE  CallOf(d)' /\ Fits(store)' /\ (Unreplayed => Unreplayed')
<1>1. /\ store'.cancelRequested = mem[d].cancelRequested
      /\ store'.replayFrom = mem[d].replayFrom /\ pc[d] # "idle"
  BY DEF OnlyStep, InCall, InStep
<1>2. ASSUME ~mem[d].cancelRequested PROVE PlaceOf(d)' /\ Orderly(store')
  <2>1. PlaceOf(d)
    BY <1>2 DEF CallOf
  <2>2. Orderly(store')
    BY <1>2, <2>1, OnlyStepOrderly DEF PlaceOf
  <2>3. OkBetween(store', replayAt[d], idx[d])
    BY <2>1, OnlyStepBetween DEF PlaceOf
  <2>4. replayAt[d] <= idx[d]
    BY <2>1 DEF PlaceOf, StepOf, InCall
  <2>5. PlaceOf(d)'
    BY <1>1, <1>2, <2>1, <2>2, <2>3, <2>4
    DEF PlaceOf, Orderly, OkBetween
  <2>6. QED
    BY <2>2, <2>5
<1>3. ASSUME NoReplays
      PROVE  /\ mem[d].replayFrom = 0
             /\ ~mem[d].cancelRequested =>
                  \A c \in Cancellers : Done(cmem[c]) \subseteq Done(store')
  <2>1. ~mem[d].cancelRequested => Ahead(mem[d])
    BY <1>3 DEF CallOf, GrowthOf
  <2>2. ~mem[d].cancelRequested => Done(mem[d]) \subseteq Done(store')
    BY <1>3, OnlyStepDone
  <2>3. mem[d].replayFrom = 0
    BY <1>1, <1>3 DEF CallOf, GrowthOf
  <2>4. QED
    BY <2>1, <2>2, <2>3 DEF Ahead
<1>4. NoReplays => GrowthOf(d)'
  BY <1>1, <1>3 DEF GrowthOf, Ahead, Done, InStep
<1>5. CallOf(d)'
  BY <1>1, <1>2, <1>4 DEF CallOf, InStep, InCall
<1>6. Fits(store)'
  BY <1>1, <1>2 DEF Fits, Orderly
<1>7. Unreplayed => Unreplayed'
  BY <1>1, <1>3 DEF Unreplayed, Done
<1>8. QED
  BY <1>5, <1>6, <1>7

-----------------------------------------------------------------------------
(* Every step keeps the invariant.                                         *)

LEMMA FlagInit == OneKindOfRequest /\ Init => FlagInv
<1> SUFFICES ASSUME OneKindOfRequest, Init PROVE FlagInv
  OBVIOUS
<1>1. Requests
  BY DEF Init, OneKindOfRequest, Requests
<1>2. Fits(store) /\ Unreplayed
  BY FreshRunOrderly DEF Init, Fits, Unreplayed
<1>3. \A d \in Drivers : CallOf(d)
  BY DEF Init, CallOf, GrowthOf, InCall, InStep
<1>4. QED
  BY <1>1, <1>2, <1>3 DEF FlagInv

(* What the loop knows of an unflagged record before it executes a step.   *)
LEMMA ReadyUnflagged ==
  ASSUME TypeInv, NEW d \in Drivers, CallOf(d), StepReady(d),
         ~mem[d].cancelRequested
  PROVE  /\ pc[d] \in {"loop", "check"} /\ idx[d] \in Steps /\ PlaceOf(d)
         /\ replayAt[d] <= idx[d]
         /\ replayAt[d] = 0 => mem[d].stepStatus[idx[d]] # "ok"
         /\ mem[d].stepStatus[idx[d]] \notin {"paused", "running"}
<1>1. idx[d] \in Steps /\ pc[d] \in {"loop", "check"} /\ replayAt[d] \in Nat
  BY ReadyIndex, NumStepsAssumption
  DEF StepReady, AtStep, TypeInv, DriverType
<1>2. PlaceOf(d)
  BY <1>1 DEF CallOf, InCall, InStep
<1>3. CASE pc[d] = "check"
  BY <1>1, <1>2, <1>3 DEF PlaceOf, StepOf, InStep
<1>4. CASE AtStep(d) /\ mem[d].stepStatus[idx[d]] \notin {"paused", "running"}
  BY <1>1, <1>2, <1>4 DEF AtStep, Skips, Steps
<1>5. QED
  BY <1>1, <1>2, <1>3, <1>4 DEF StepReady

LEMMA FlagDriverStep ==
  ASSUME OneKindOfRequest, TypeInv, TypeInv', LockInv, AttemptInv, FlagInv,
         NEW d \in Drivers, DriverStep(d)
  PROVE  FlagInv'
<1>0. /\ pc[d] # "idle" /\ Quiet(d)' /\ Requests'
      /\ mem[d] \in Run /\ CallOf(d) /\ Fits(store) /\ Unreplayed
      /\ store \in Run /\ store' \in Run
  <2>1. pc[d] # "idle" /\ budget' = budget /\ Quiet(d)'
    BY DriverStepMoves, HolderAlone
    DEF Continues, Ends, Quiet, OneKindOfRequest
  <2>2. QED
    BY <2>1 DEF FlagInv, Requests, TypeInv, DriverType, OtherType
<1>c. cmem' = cmem
  BY DEF DriverStep, ResumeLocked, SaveReplay, SaveApproval, SkipStep,
         AwaitApproval, RequeueStep, CancelBeforeStep, FinishRun,
         AttemptsExhausted, LoadForAttempt, CancelAtAttempt, StartAttempt,
         HandlerReturns, SaveResult, RequeueForRetry, AbortRetry, FailRun,
         cancelVars
<1>f. ASSUME Fits(store)', Unreplayed', CallOf(d)' PROVE FlagInv'
  BY <1>0, <1>f, FlagFrame
<1>s. ASSUME store' = store PROVE Fits(store)' /\ Unreplayed'
  BY <1>0, <1>c, <1>s
  DEF Fits, Orderly, NothingToResume, Unreplayed, Done
(* The call ends with a record that is its copy up to the statuses.        *)
<1>r. ASSUME Return(d), Fits(store)', Unreplayed' PROVE FlagInv'
  <2>1. CallOf(d)'
    BY <1>r, ReturnResets, FlagIdle DEF Reset
  <2>2. QED
    BY <1>f, <1>r, <2>1
(* The saved record shows as ok what the driver's copy shows as ok.        *)
<1>g. ASSUME pc[d] \in InCall \cup {"asave"},
             store'.cancelRequested = mem[d].cancelRequested,
             store'.replayFrom \in {mem[d].replayFrom, 0},
             ~mem[d].cancelRequested => Done(mem[d]) \subseteq Done(store')
      PROVE  Unreplayed'
  <2> SUFFICES ASSUME NoReplays
               PROVE  /\ store'.replayFrom = 0
                      /\ \A c \in Cancellers : cmem'[c].replayFrom = 0
                      /\ ~store'.cancelRequested =>
                           \A c \in Cancellers :
                              Done(cmem[c])' \subseteq Done(store)'
    BY DEF Unreplayed
  <2>1. /\ mem[d].replayFrom = 0
        /\ ~mem[d].cancelRequested => Ahead(mem[d])
        /\ \A c \in Cancellers : cmem[c].replayFrom = 0
    BY <1>0, <1>g DEF CallOf, GrowthOf, Unreplayed
  <2>2. ~store'.cancelRequested =>
          \A c \in Cancellers : Done(cmem[c]) \subseteq Done(store')
    BY <1>g, <2>1 DEF Ahead
  <2>3. QED
    BY <1>c, <1>g, <2>1, <2>2 DEF Done
<1>1. CASE ResumeLocked(d)
  <2>1. store' = store
    BY <1>1 DEF ResumeLocked
  <2>2. CASE EnterLoop(d)
    BY <1>0, <1>c, <1>f, <1>s, <2>1, <2>2, FlagEnters
  <2>3. CASE Return(d)
    BY <1>r, <1>s, <2>1, <2>3
  <2>4. QED
    BY <1>1, <2>2, <2>3 DEF ResumeLocked
<1>2. CASE SaveReplay(d)
  <2>1. /\ pc[d] = "rsave" /\ pc'[d] = "load" /\ store' = mem[d]
        /\ mem'[d] = mem[d]
    BY <1>2 DEF SaveReplay, Save, Goto, TypeInv, DriverType
  <2>2. ~NoReplays
    BY <1>0, <2>1 DEF CallOf, GrowthOf
  <2>3. Fits(store)'
    BY <1>0, <2>1 DEF CallOf, Fits, Orderly
  <2>4. Unreplayed' /\ CallOf(d)'
    BY <2>1, <2>2 DEF Unreplayed, NoReplays, CallOf, InCall, InStep
  <2>5. QED
    BY <1>f, <2>3, <2>4
<1>3. CASE SaveApproval(d)
  <2>1. pc[d] = "asave" /\ store' = mem[d] /\ Return(d)
    BY <1>3 DEF SaveApproval, Save
  <2>2. Fits(store)'
    BY <1>0, <2>1 DEF CallOf, Fits, Orderly
  <2>3. QED
    BY <1>g, <1>r, <2>1, <2>2
<1>4. CASE SkipStep(d)
  <2>1. /\ pc[d] = "loop" /\ idx[d] \in Steps /\ store' = store
        /\ Skips(mem[d], replayAt[d], idx[d]) /\ NextStep(d, mem[d])
    BY <1>4 DEF SkipStep
  <2>2. CallOf(d)'
    BY <1>0, <1>c, <2>1, FlagPasses DEF Skips, InCall
  <2>3. QED
    BY <1>f, <1>s, <2>1, <2>2
<1>5. CASE AwaitApproval(d)
  <2>1. /\ pc[d] = "loop" /\ Return(d)
        /\ store' = [mem[d] EXCEPT !.status = "paused"]
    BY <1>5 DEF AwaitApproval, AtStep, Save
  <2>2. /\ store'.cancelRequested = mem[d].cancelRequested
        /\ store'.replayFrom = mem[d].replayFrom
        /\ store'.stepStatus = mem[d].stepStatus
        /\ store'.attempts = mem[d].attempts
        /\ store'.decision = mem[d].decision
    BY <1>0, <2>1 DEF Run
  <2>3. ~mem[d].cancelRequested => Orderly(mem[d])
    BY <1>0, <2>1 DEF CallOf, PlaceOf, InCall
  <2>4. Fits(store)'
    BY <2>2, <2>3 DEF Fits, Orderly
  <2>5. Done(store') = Done(mem[d])
    BY <2>2 DEF Done
  <2>6. QED
    BY <1>g, <1>r, <2>1, <2>2, <2>4, <2>5 DEF InCall
<1>6. CASE RequeueStep(d)
  <2> DEFINE i == idx[d]
  <2>1. /\ pc[d] = "loop" /\ i \in Steps
        /\ ~Skips(mem[d], replayAt[d], i)
        /\ mem[d].stepStatus[i] \in {"running", "paused"}
        /\ mem[d].stepStatus[i] = "paused" => mem[d].decision[i] # "none"
    BY <1>6 DEF RequeueStep, AtStep
  <2>2. replayAt[d] <= i
    BY <2>1 DEF Skips, Steps, TypeInv, DriverType
  <2>3. /\ pc'[d] = "check" /\ mem'[d] = store'
        /\ idx'[d] = i /\ replayAt'[d] = replayAt[d]
        /\ store' = IF mem[d].stepStatus[i] = "running"
                    THEN RequeueInFlight(mem[d], i)
                    ELSE [mem[d] EXCEPT !.stepStatus[i] = "pending"]
    BY <1>6 DEF RequeueStep, SetMem, Save, Goto, TypeInv, DriverType
  <2>4. OnlyStep(mem[d], store', i) /\ store'.stepStatus[i] = "pending"
    BY <1>0, <2>1, <2>3 DEF RequeueInFlight, OnlyStep, Run
  <2>5. ASSUME ~mem[d].cancelRequested
        PROVE  store'.attempts[i] < MaxAttempts[i]
    <3> DEFINE n == mem[d].attempts[i]
    <3>1. PlaceOf(d)
      BY <1>0, <2>1, <2>5 DEF CallOf, InCall
    <3>2. mem[d].stepStatus[i] = "running"
      BY <2>1, <2>2, <3>1 DEF PlaceOf, Orderly
    <3>3. store'.attempts[i] = IF n > 0 THEN n - 1 ELSE n
      BY <1>0, <2>1, <2>3, <3>2 DEF RequeueInFlight, Run
    <3>4. n \in Nat /\ n <= MaxAttempts[i] /\ MaxAttempts[i] \in Nat \ {0}
      BY <1>0, <2>1, MaxAttemptsAssumption
      DEF AttemptInv, AttemptOf, Bounded, Run
    <3>5. QED
      BY <3>3, <3>4
  <2>6. StepOf(d)'
    BY <2>2, <2>3, <2>4 DEF StepOf
  <2>7. QED
    BY <1>0, <1>c, <1>f, <2>1, <2>2, <2>3, <2>4, <2>5, <2>6, FlagWrites
    DEF InCall, InStep
<1>7. CASE CancelBeforeStep(d)
  <2>1. /\ pc[d] \in {"loop", "check"} /\ Return(d)
        /\ mem[d].cancelRequested /\ store' = MarkCancelled(mem[d], idx[d])
    BY <1>7 DEF CancelBeforeStep, StepReady, AtStep, Save
  <2>2. /\ store'.cancelRequested = mem[d].cancelRequested
        /\ store'.replayFrom = mem[d].replayFrom
    BY <1>0, <2>1 DEF MarkCancelled, Run
  <2>3. Fits(store)'
    BY <2>1, <2>2 DEF Fits
  <2>4. QED
    BY <1>g, <1>r, <2>1, <2>2, <2>3 DEF InCall, InStep
<1>8. CASE FinishRun(d)
  <2>1. pc[d] = "loop" /\ Return(d) /\ store' = FinalRun(mem[d])
    BY <1>8 DEF FinishRun, Save
  <2>2. /\ store'.cancelRequested = mem[d].cancelRequested
        /\ store'.replayFrom = 0
        /\ store'.stepStatus = mem[d].stepStatus
        /\ store'.attempts = mem[d].attempts
        /\ store'.decision = mem[d].decision
        /\ NothingToResume(store')
    BY <1>0, <2>1
    DEF FinalRun, FailureStatus, NothingToResume, IsWorkflowRunTerminal, Run
  <2>3. Fits(store)'
    <3>1. CASE Budget["approve"] = 0
      BY <2>2, <3>1 DEF Fits, NothingToResume
    <3>2. CASE NoReplays
      <4>1. mem[d].replayFrom = 0
        BY <1>0, <2>1, <3>2 DEF CallOf, GrowthOf
      <4>2. ~mem[d].cancelRequested => Orderly(mem[d])
        BY <1>0, <2>1 DEF CallOf, PlaceOf, InCall
      <4>3. QED
        BY <2>2, <4>1, <4>2 DEF Fits, Orderly
    <3>3. QED
      BY <3>1, <3>2 DEF OneKindOfRequest, NoReplays
  <2>4. Done(store') = Done(mem[d])
    BY <2>2 DEF Done
  <2>5. QED
    BY <1>g, <1>r, <2>1, <2>2, <2>3, <2>4 DEF InCall
<1>9. CASE AttemptsExhausted(d)
  <2> DEFINE i == idx[d]
             s == mem[d].stepStatus[i]
  <2>1. ~mem[d].cancelRequested /\ StepReady(d)
    BY <1>9 DEF AttemptsExhausted
  <2>2. /\ pc[d] \in {"loop", "check"} /\ i \in Steps /\ PlaceOf(d)
        /\ replayAt[d] <= i /\ s \notin {"paused", "running"}
    BY <1>0, <2>1, ReadyUnflagged
  <2>3. CASE /\ s \in {"failed", "timed_out"}
             /\ Save([mem[d] EXCEPT !.status = FailureStatus(s)])
             /\ Return(d)
    <3>1. /\ store'.cancelRequested = mem[d].cancelRequested
          /\ store'.replayFrom = mem[d].replayFrom
          /\ store'.stepStatus = mem[d].stepStatus
          /\ store'.attempts = mem[d].attempts
          /\ store'.decision = mem[d].decision
      BY <1>0, <2>3 DEF Save, Run
    <3>2. Fits(store)'
      BY <2>2, <3>1 DEF PlaceOf, Fits, Orderly
    <3>3. Done(store') = Done(mem[d])
      BY <3>1 DEF Done
    <3>4. QED
      BY <1>g, <1>r, <2>2, <2>3, <3>1, <3>2, <3>3 DEF InCall, InStep
  <2>4. CASE /\ s \notin {"failed", "timed_out"}
             /\ UNCHANGED store /\ AfterStep(d, mem[d])
    <3>1. mem[d].attempts[i] >= MaxAttempts[i]
      BY <1>9 DEF AttemptsExhausted, Exhausted
    <3>2. s = "ok"
      <4>1. s \in StepStatus /\ mem[d].attempts[i] \in Nat
        BY <1>0, <2>2 DEF Run
      <4>2. s \notin {"pending", "cancelled"}
        BY <2>2, <3>1, <4>1, MaxAttemptsAssumption DEF PlaceOf, Orderly
      <4>3. QED
        BY <2>2, <2>4, <4>1, <4>2 DEF StepStatus
    <3>3. CASE Return(d)
      BY <1>r, <1>s, <2>4, <3>3
    <3>4. CASE NextStep(d, mem[d])
      <4>1. CallOf(d)'
        BY <1>0, <1>c, <2>2, <2>4, <3>2, <3>4, FlagPasses DEF InCall, InStep
      <4>2. QED
        BY <1>f, <1>s, <2>4, <4>1
    <3>5. QED
      BY <2>4, <3>3, <3>4 DEF AfterStep
  <2>5. QED
    BY <1>9, <2>3, <2>4 DEF AttemptsExhausted
<1>10. CASE LoadForAttempt(d)
  <2>1. /\ store' = store /\ mem'[d] = store /\ pc'[d] = "loaded"
        /\ idx'[d] = idx[d] /\ replayAt'[d] = replayAt[d]
    BY <1>10 DEF LoadForAttempt, SetMem, Goto, TypeInv, DriverType
  <2>2. \/ StepReady(d) /\ ~mem[d].cancelRequested
        \/ pc[d] = "backoff"
    BY <1>10 DEF LoadForAttempt
  (* An unflagged record in the store is the driver's own.                 *)
  <2>3. ASSUME ~store.cancelRequested
        PROVE  /\ mem[d] = store /\ PlaceOf(d) /\ replayAt[d] <= idx[d]
               /\ replayAt[d] = 0 => store.stepStatus[idx[d]] # "ok"
    <3>1. ~mem[d].cancelRequested
      BY <1>0, <2>3 DEF CallOf
    <3>2. CASE StepReady(d)
      <4>1. /\ PlaceOf(d) /\ replayAt[d] <= idx[d]
            /\ pc[d] \in {"loop", "check"}
            /\ replayAt[d] = 0 => mem[d].stepStatus[idx[d]] # "ok"
        BY <1>0, <3>1, <3>2, ReadyUnflagged
      <4>2. QED
        BY <2>3, <4>1 DEF PlaceOf
    <3>3. CASE pc[d] = "backoff"
      <4>1. PlaceOf(d)
        BY <1>0, <3>1, <3>3 DEF CallOf, InCall, InStep
      <4>2. QED
        BY <2>3, <3>3, <4>1 DEF PlaceOf, StepOf, InStep
    <3>4. QED
      BY <2>2, <3>2, <3>3
  <2>4. ASSUME ~store.cancelRequested PROVE PlaceOf(d)'
    <3>1. StepOf(d)'
      BY <2>1, <2>3, <2>4 DEF StepOf
    <3>2. QED
      BY <2>1, <2>3, <2>4, <3>1 DEF PlaceOf, Orderly, OkBetween
  <2>5. NoReplays => GrowthOf(d)'
    BY <1>0, <1>c, <2>1 DEF Unreplayed, GrowthOf, Ahead, Done
  <2>6. CallOf(d)'
    BY <2>1, <2>4, <2>5 DEF CallOf
  <2>7. QED
    BY <1>f, <1>s, <2>1, <2>6
<1>11. CASE CancelAtAttempt(d)
  <2> DEFINE run == MarkCancelled(mem[d], idx[d])
  <2>1. /\ pc[d] = "loaded" /\ mem[d].cancelRequested
        /\ store' = run /\ NextStep(d, run)
    BY <1>11 DEF CancelAtAttempt, Save
  <2>2. /\ run.cancelRequested = mem[d].cancelRequested
        /\ run.replayFrom = mem[d].replayFrom
    BY <1>0 DEF MarkCancelled, Run
  <2> HIDE DEF run
  <2>3. pc'[d] = "loop" /\ mem'[d] = run
    BY <2>1, NextStepMoves
  <2>4. NoReplays => run.replayFrom = 0
    BY <1>0, <2>2 DEF CallOf, GrowthOf
  <2>5. CallOf(d)'
    BY <2>1, <2>2, <2>3, <2>4 DEF CallOf, GrowthOf
  <2>6. Fits(store)'
    BY <2>1, <2>2 DEF Fits
  <2>7. Unreplayed'
    BY <1>g, <2>1, <2>2 DEF InCall, InStep
  <2>8. QED
    BY <1>f, <2>5, <2>6, <2>7
<1>12. CASE StartAttempt(d)
  <2> DEFINE i == idx[d]
  <2>1. /\ pc[d] = "loaded" /\ ~mem[d].cancelRequested
        /\ pc'[d] = "exec" /\ mem'[d] = store'
        /\ idx'[d] = i /\ replayAt'[d] = replayAt[d]
        /\ attempt'[d] = attempt[d]
        /\ store' = [mem[d] EXCEPT !.status = "running",
                                   !.stepStatus[i] = "running",
                                   !.attempts[i] = attempt[d]]
    BY <1>12 DEF StartAttempt, SetMem, Save, Goto, TypeInv, DriverType
  <2>2. i \in Steps /\ PlaceOf(d) /\ StepOf(d)
    BY <1>0, <2>1 DEF CallOf, PlaceOf, InCall, InStep, TypeInv, DriverType
  <2>3. /\ store'.stepStatus = [mem[d].stepStatus EXCEPT ![i] = "running"]
        /\ store'.attempts = [mem[d].attempts EXCEPT ![i] = attempt[d]]
        /\ store'.cancelRequested = mem[d].cancelRequested
        /\ store'.replayFrom = mem[d].replayFrom
        /\ store'.decision = mem[d].decision
    BY <1>0, <2>1, <2>2 DEF Run
  <2>4. /\ OnlyStep(mem[d], store', i) /\ store'.stepStatus[i] = "running"
        /\ store'.attempts[i] = attempt[d]
    BY <1>0, <2>2, <2>3 DEF OnlyStep, Run
  <2>5. NoReplays => mem[d].stepStatus[i] # "ok"
    BY <1>0, <2>1, <2>2 DEF CallOf, GrowthOf, PlaceOf, StepOf
  <2>6. StepOf(d)'
    BY <2>1, <2>2, <2>4 DEF StepOf
  <2>7. QED
    BY <1>0, <1>c, <1>f, <2>1, <2>2, <2>4, <2>5, <2>6, FlagWrites
    DEF InCall, InStep
<1>13. CASE HandlerReturns(d)
  <2>1. /\ pc[d] = "exec" /\ pc'[d] = "result" /\ store' = store
        /\ idx'[d] = idx[d] /\ replayAt'[d] = replayAt[d]
        /\ attempt'[d] = attempt[d]
    BY <1>13 DEF HandlerReturns, Goto, TypeInv, DriverType
  <2>2. PICK o \in HandlerOutcomes(d) :
          SetMem(d, WithOutcome(store, idx[d], o))
    BY <1>13 DEF HandlerReturns, WithOutcome
  <2>3. mem'[d] = WithOutcome(store, idx[d], o)
    BY <2>2 DEF SetMem, TypeInv, DriverType
  <2>4. /\ idx[d] \in Steps /\ ~mem[d].cancelRequested
        /\ PlaceOf(d) /\ StepOf(d)
    BY <1>0, <2>1 DEF CallOf, PlaceOf, InCall, InStep, TypeInv, DriverType
  <2>5. /\ OnlyStep(store, mem'[d], idx[d]) /\ mem'[d].stepStatus[idx[d]] = o
        /\ mem'[d].attempts = store.attempts
    BY <1>0, <2>3, <2>4 DEF WithOutcome, OnlyStep, Run
  <2>6. /\ o \in {"ok", "failed", "timed_out", "paused"}
        /\ o = "paused" => mem[d].decision[idx[d]] = "none"
    BY <2>2 DEF HandlerOutcomes
  <2>7. /\ mem'[d].cancelRequested = store.cancelRequested
        /\ mem'[d].replayFrom = store.replayFrom
        /\ mem'[d].decision = store.decision
        /\ mem'[d] \in Run
    BY <2>5 DEF OnlyStep, TypeInv, DriverType
  <2>8. ASSUME ~store.cancelRequested
        PROVE  /\ PlaceOf(d)'
               /\ Done(store) \subseteq Done(mem'[d])
    <3>1. mem[d] = store /\ store.stepStatus[idx[d]] = "running"
      BY <2>1, <2>4, <2>8 DEF PlaceOf, StepOf
    <3>2. Orderly(mem'[d])
      BY <1>0, <2>4, <2>5, <2>6, <2>7, <3>1, OnlyStepOrderly DEF PlaceOf
    <3>3. OkBetween(mem'[d], replayAt[d], idx[d])
      BY <2>4, <2>5, <3>1, OnlyStepBetween DEF PlaceOf
    <3>4. Done(store) \subseteq Done(mem'[d])
      BY <2>4, <2>5, <3>1, OnlyStepDone
    <3>5. StepOf(d)'
      BY <2>1, <2>4, <2>5, <3>1 DEF StepOf
    <3>6. QED
      BY <2>1, <2>4, <2>7, <3>1, <3>2, <3>3, <3>4, <3>5
      DEF PlaceOf, Orderly, OkBetween
  <2>9. NoReplays => GrowthOf(d)'
    <3>1. ASSUME NoReplays, ~store.cancelRequested PROVE Ahead(mem[d])'
      <4>1. /\ Done(store) \subseteq Done(mem'[d])
            /\ \A c \in Cancellers : Done(cmem[c]) \subseteq Done(mem'[d])
        BY <1>0, <2>8, <3>1 DEF Unreplayed
      <4>2. QED
        BY <1>c, <2>1, <4>1 DEF Ahead, Done
    <3>2. QED
      BY <1>0, <2>1, <2>7, <3>1 DEF Unreplayed, GrowthOf
  <2>10. CallOf(d)'
    BY <2>1, <2>7, <2>8, <2>9 DEF CallOf
  <2>11. QED
    BY <1>f, <1>s, <2>1, <2>10
<1>14. CASE SaveResult(d)
  <2> DEFINE i == idx[d]
             s == mem[d].stepStatus[i]
  <2>1. pc[d] = "result" /\ store' = mem[d] /\ i \in Steps
    BY <1>14 DEF SaveResult, Save, TypeInv, DriverType, InStep
  <2>2. ~mem[d].cancelRequested => PlaceOf(d)
    BY <1>0, <2>1 DEF CallOf, InCall, InStep
  <2>3. Fits(store)'
    BY <2>1, <2>2 DEF PlaceOf, Fits, Orderly
  <2>4. Unreplayed'
    BY <1>g, <2>1 DEF InCall, InStep
  <2>5. CASE Return(d)
    BY <1>r, <2>3, <2>4, <2>5
  <2>6. CASE s = "ok" /\ NextStep(d, mem[d])
    <3>1. CallOf(d)'
      BY <1>0, <1>c, <2>1, <2>6, FlagPasses DEF InCall, InStep
    <3>2. QED
      BY <1>f, <2>3, <2>4, <3>1
  <2>7. CASE /\ s \in {"failed", "timed_out"}
             /\ Goto(d, IF attempt[d] < MaxAttempts[i] THEN "retry" ELSE "fail")
             /\ UNCHANGED <<lock, mem, idx, attempt, replayAt, ctx>>
    <3>1. pc'[d] \in {"retry", "fail"} /\ pc[d] # "idle"
      BY <2>1, <2>7 DEF Goto, TypeInv, DriverType
    <3>2. ASSUME ~mem[d].cancelRequested PROVE PlaceOf(d)'
      <4>1. StepOf(d)'
        BY <2>1, <2>2, <2>7, <3>1, <3>2 DEF PlaceOf, StepOf, InStep
      <4>2. QED
        BY <2>1, <2>2, <2>7, <3>2, <4>1 DEF PlaceOf, Orderly, OkBetween
    <3>3. NoReplays => GrowthOf(d)'
      <4>1. ASSUME NoReplays, ~mem[d].cancelRequested PROVE Ahead(mem[d])'
        <5>1. Ahead(mem[d])
          BY <1>0, <2>1, <4>1 DEF CallOf, GrowthOf, InCall, InStep
        <5>2. QED
          BY <1>c, <2>1, <2>7, <5>1 DEF Ahead, Done
      <4>2. QED
        BY <1>0, <2>7, <3>1, <4>1 DEF CallOf, GrowthOf
    <3>4. CallOf(d)'
      BY <2>1, <2>7, <3>1, <3>2, <3>3 DEF CallOf
    <3>5. QED
      BY <1>f, <2>3, <2>4, <3>4
  <2>8. QED
    BY <1>14, <2>5, <2>6, <2>7 DEF SaveResult, AfterStep
<1>15. CASE RequeueForRetry(d)
  <2> DEFINE i == idx[d]
  <2>1. /\ pc[d] = "retry" /\ pc'[d] = "backoff" /\ mem'[d] = store'
        /\ idx'[d] = i /\ replayAt'[d] = replayAt[d]
        /\ attempt'[d] = attempt[d]
        /\ store' = [mem[d] EXCEPT !.stepStatus[i] = "pending"]
    BY <1>15 DEF RequeueForRetry, SetMem, Save, Goto, TypeInv, DriverType
  <2>2. /\ i \in Steps /\ attempt[d] < MaxAttempts[i]
        /\ ~mem[d].cancelRequested => PlaceOf(d) /\ StepOf(d)
    BY <1>0, <2>1
    DEF CallOf, PlaceOf, InCall, InStep, TypeInv, DriverType, AttemptInv,
        AttemptOf
  <2>3. /\ OnlyStep(mem[d], store', i) /\ store'.stepStatus[i] = "pending"
        /\ store'.attempts = mem[d].attempts
    BY <1>0, <2>1, <2>2 DEF OnlyStep, Run
  <2>4. ~mem[d].cancelRequested =>
          /\ store'.attempts[i] < MaxAttempts[i]
          /\ mem[d].stepStatus[i] # "ok"
          /\ StepOf(d)'
    BY <2>1, <2>2, <2>3 DEF StepOf
  <2>5. QED
    BY <1>0, <1>c, <1>f, <2>1, <2>2, <2>3, <2>4, FlagWrites
    DEF InCall, InStep
<1>16. CASE AbortRetry(d)
  <2> DEFINE i == idx[d]
  <2>1. pc[d] = "backoff" /\ Return(d) /\ i \in Steps
    BY <1>16 DEF AbortRetry, TypeInv, DriverType, InStep
  <2>2. PICK s \in {"timed_out", "cancelled"} :
          store' = [mem[d] EXCEPT !.status = s, !.stepStatus[i] = s]
    BY <1>16 DEF AbortRetry, Save
  <2>3. /\ OnlyStep(mem[d], store', i) /\ store'.stepStatus[i] = s
        /\ store'.attempts = mem[d].attempts
    BY <1>0, <2>1, <2>2 DEF OnlyStep, Run
  <2>4. /\ store'.cancelRequested = mem[d].cancelRequested
        /\ store'.replayFrom = mem[d].replayFrom
    BY <2>3 DEF OnlyStep
  <2>5. ASSUME ~mem[d].cancelRequested
        PROVE  Orderly(store') /\ Done(mem[d]) \subseteq Done(store')
    <3>1. /\ Orderly(mem[d]) /\ mem[d].stepStatus[i] = "pending"
          /\ mem[d].attempts[i] = attempt[d] /\ attempt[d] < MaxAttempts[i]
      BY <1>0, <2>1, <2>5
      DEF CallOf, PlaceOf, StepOf, InCall, InStep, AttemptInv, AttemptOf
    <3>2. QED
      BY <1>0, <2>1, <2>3, <3>1, OnlyStepOrderly, OnlyStepDone
  <2>6. Fits(store)'
    BY <2>4, <2>5 DEF Fits, Orderly
  <2>7. QED
    BY <1>g, <1>r, <2>1, <2>4, <2>5, <2>6 DEF InCall, InStep
<1>17. CASE FailRun(d)
  <2>1. /\ pc[d] = "fail" /\ Return(d)
        /\ store' = [mem[d] EXCEPT
                       !.status = FailureStatus(mem[d].stepStatus[idx[d]])]
    BY <1>17 DEF FailRun, Save
  <2>2. /\ store'.cancelRequested = mem[d].cancelRequested
        /\ store'.replayFrom = mem[d].replayFrom
        /\ store'.stepStatus = mem[d].stepStatus
        /\ store'.attempts = mem[d].attempts
        /\ store'.decision = mem[d].decision
    BY <1>0, <2>1 DEF Run
  <2>3. ~mem[d].cancelRequested => Orderly(mem[d])
    BY <1>0, <2>1 DEF CallOf, PlaceOf, InCall, InStep
  <2>4. Fits(store)'
    BY <2>2, <2>3 DEF Fits, Orderly
  <2>5. Done(store') = Done(mem[d])
    BY <2>2 DEF Done
  <2>6. QED
    BY <1>g, <1>r, <2>1, <2>2, <2>4, <2>5 DEF InCall, InStep
<1>18. QED
  BY <1>1, <1>2, <1>3, <1>4, <1>5, <1>6, <1>7, <1>8, <1>9, <1>10, <1>11,
     <1>12, <1>13, <1>14, <1>15, <1>16, <1>17 DEF DriverStep

LEMMA FlagStep ==
  ASSUME OneKindOfRequest, TypeInv, LockInv, AttemptInv, FlagInv, [Next]_vars
  PROVE  FlagInv'
<1>t. /\ TypeInv' /\ store \in Run
      /\ Requests /\ Fits(store) /\ Unreplayed
      /\ \A d \in Drivers : CallOf(d)
  BY TypeInvStep DEF TypeInv, OtherType, FlagInv
(* A step that leaves the record and the drivers alone.                    *)
<1>s. ASSUME UNCHANGED <<store, pc, mem, idx, attempt, replayAt, cmem>>,
             Requests'
      PROVE  FlagInv'
  <2>1. Fits(store)' /\ Unreplayed'
    BY <1>s, <1>t DEF Fits, Orderly, NothingToResume, Unreplayed, Done
  <2>2. ASSUME NEW d \in Drivers PROVE CallOf(d)'
    <3>1. CallOf(d)
      BY <1>t
    <3>2. QED
      BY <1>s, <3>1
      DEF CallOf, PlaceOf, StepOf, GrowthOf, Ahead, Orderly, OkBetween, Done
  <2>3. QED
    BY <1>s, <2>1, <2>2 DEF FlagInv
<1>u. CASE UNCHANGED vars
  BY <1>s, <1>t, <1>u DEF vars, driverVars, cancelVars, Requests
<1>x. ASSUME NEW d \in Drivers, pc[d] = "idle", lock = NoDriver
      PROVE  \A e \in Drivers : pc[e] = "idle"
  BY <1>x, NoDriverAssumption DEF LockInv, OneKindOfRequest
<1>v. ASSUME store' = store, cmem' = cmem PROVE Fits(store)' /\ Unreplayed'
  BY <1>t, <1>v DEF Fits, Orderly, NothingToResume, Unreplayed, Done
<1>a. ASSUME NEW d \in Drivers, ResumeRun(d) PROVE FlagInv'
  <2>1. /\ Quiet(d)' /\ UNCHANGED <<store, cmem, budget>> /\ EnterLoop(d)
    BY <1>a, <1>x
    DEF ResumeRun, EnterLoop, Goto, Mutex!Acquire, cancelVars, TypeInv,
        DriverType, Quiet
  <2>2. CallOf(d)' /\ Requests'
    BY <1>t, <2>1, FlagEnters DEF Requests
  <2>3. QED
    BY <1>v, <2>1, <2>2, FlagFrame
<1>b. ASSUME NEW d \in Drivers, NEW i \in Steps, ReplayRunFromStep(d, i)
      PROVE  FlagInv'
  <2>1. /\ Quiet(d)' /\ store' = store /\ cmem' = cmem
        /\ budget'["create"] = budget["create"]
        /\ budget'["approve"] = budget["approve"]
        /\ budget["replay"] > 0
        /\ pc'[d] = "rsave" /\ mem'[d] = ResetFrom(store, i)
    BY <1>b, <1>x
    DEF ReplayRunFromStep, Goto, SetMem, Mutex!Acquire, Spend, Events,
        cancelVars, TypeInv, DriverType, OtherType, Quiet
  <2>2. ~NoReplays /\ Requests'
    BY <1>t, <2>1 DEF Requests, NoReplays
  <2>3. Orderly(mem'[d]) /\ ~mem'[d].cancelRequested
    BY <1>t, <2>1, ResetFromOrderly
  <2>4. CallOf(d)'
    BY <2>1, <2>2, <2>3 DEF CallOf, NoReplays, Orderly, InCall, InStep
  <2>5. QED
    BY <1>v, <2>1, <2>2, <2>4, FlagFrame
<1>c. ASSUME NEW d \in Drivers, NEW i \in Steps, NEW dec \in Decisions,
             ResolveApproval(d, i, dec)
      PROVE  FlagInv'
  <2>1. /\ Quiet(d)' /\ store' = store /\ cmem' = cmem
        /\ budget'["create"] = budget["create"]
        /\ budget'["replay"] = budget["replay"]
        /\ budget["approve"] > 0
        /\ pc'[d] = "asave" /\ mem'[d] = WithDecision(store, i, dec)
    BY <1>c, <1>x
    DEF ResolveApproval, Goto, SetMem, Mutex!Acquire, Spend, Events,
        cancelVars, TypeInv, DriverType, OtherType, Quiet
  <2>2. Budget["approve"] # 0 /\ Requests'
    BY <1>t, <2>1 DEF Requests
  <2>3. store.cancelRequested \/ Orderly(store)
    BY <1>t, <2>2 DEF Fits
  <2>4. /\ mem'[d].cancelRequested = store.cancelRequested
        /\ mem'[d].replayFrom = store.replayFrom
        /\ mem'[d].cancelRequested \/ Orderly(mem'[d])
        /\ Done(mem'[d]) = Done(store)
    BY <1>t, <2>1, <2>3, WithDecisionOrderly
  <2>5. NoReplays => GrowthOf(d)'
    <3>1. ASSUME NoReplays, ~store.cancelRequested PROVE Ahead(mem[d])'
      <4>1. \A k \in Cancellers : Done(cmem[k]) \subseteq Done(store)
        BY <1>t, <3>1 DEF Unreplayed
      <4>2. Done(store)' = Done(store) /\ Done(mem[d])' = Done(store)
        BY <2>1, <2>4 DEF Done
      <4>3. \A k \in Cancellers : Done(cmem[k])' = Done(cmem[k])
        BY <2>1 DEF Done
      <4>4. QED
        BY <4>1, <4>2, <4>3 DEF Ahead
    <3>2. QED
      BY <1>t, <2>1, <2>4, <3>1 DEF Unreplayed, GrowthOf
  <2>6. CallOf(d)'
    BY <2>1, <2>4, <2>5 DEF CallOf, Orderly, InCall, InStep
  <2>7. QED
    BY <1>v, <2>1, <2>2, <2>6, FlagFrame
<1>d. ASSUME NEW d \in Drivers, CreateRun(d) \/ LeaseLapses(d) PROVE FALSE
  BY <1>d, <1>t
  DEF CreateRun, LeaseLapses, Spend, LockInv, Requests, OneKindOfRequest
<1>e. ASSUME NEW d \in Drivers, DriverStep(d) PROVE FlagInv'
  BY <1>e, <1>t, FlagDriverStep
<1>f. ASSUME NEW d \in Drivers, Crash(d) PROVE FlagInv'
  <2>1. /\ pc[d] # "idle" /\ Return(d) /\ store' = store /\ cmem' = cmem
        /\ \A e \in {"create", "replay", "approve"} : budget'[e] = budget[e]
    BY <1>f DEF Crash, Spend, Events, cancelVars, TypeInv, OtherType
  <2>2. Quiet(d)' /\ pc'[d] = "idle"
    BY <2>1, HolderAlone, ReturnResets
    DEF Reset, OthersUnchanged, Quiet, OneKindOfRequest
  <2>3. Requests'
    BY <1>t, <2>1 DEF Requests
  <2>4. QED
    BY <1>v, <2>1, <2>2, <2>3, FlagIdle, FlagFrame
<1>g. ASSUME NEW d \in Drivers, ContextDone(d) PROVE FlagInv'
  <2>1. /\ UNCHANGED <<store, pc, mem, idx, attempt, replayAt, cmem>>
        /\ \A e \in {"create", "replay", "approve"} : budget'[e] = budget[e]
    BY <1>g DEF ContextDone, Spend, Events, cancelVars, TypeInv, OtherType
  <2>2. QED
    BY <1>s, <1>t, <2>1 DEF Requests
<1>i. ASSUME NEW c \in Cancellers, CancelLoad(c) PROVE FlagInv'
  <2>1. /\ UNCHANGED <<store, pc, mem, idx, attempt, replayAt>>
        /\ \A e \in {"create", "replay", "approve"} : budget'[e] = budget[e]
        /\ \A k \in Cancellers : cmem'[k] = IF k = c THEN store ELSE cmem[k]
    BY <1>i
    DEF CancelLoad, driverVars, Spend, Events, TypeInv, OtherType
  <2>2. Requests' /\ Fits(store)'
    BY <1>t, <2>1 DEF Requests, Fits, Orderly, NothingToResume
  <2>3. Unreplayed'
    BY <1>t, <2>1 DEF Unreplayed, Done
  <2>4. ASSUME NEW run, Ahead(run)
        PROVE  /\ Done(store') \subseteq Done(run)
               /\ \A k \in Cancellers : Done(cmem'[k]) \subseteq Done(run)
    BY <2>1, <2>4 DEF Ahead
  <2>5. ASSUME NEW d \in Drivers PROVE CallOf(d)'
    <3>1. CallOf(d)
      BY <1>t
    <3>2. PlaceOf(d) => PlaceOf(d)'
      BY <2>1 DEF PlaceOf, StepOf, Orderly, OkBetween
    <3>3. Ahead(mem[d]) => Ahead(mem[d])'
      BY <2>1, <2>4 DEF Ahead, Done
    <3>4. QED
      BY <2>1, <3>1, <3>2, <3>3 DEF CallOf, GrowthOf, Orderly
  <2>6. QED
    BY <2>2, <2>3, <2>5 DEF FlagInv
<1>j. ASSUME NEW c \in Cancellers, CancelSave(c) PROVE FlagInv'
  <2>1. /\ UNCHANGED <<pc, mem, idx, attempt, replayAt, budget>>
        /\ store' = [cmem[c] EXCEPT !.cancelRequested = TRUE]
        /\ \A k \in Cancellers :
              cmem'[k] = IF k = c THEN FreshRun ELSE cmem[k]
    BY <1>j DEF CancelSave, Save, driverVars, TypeInv, OtherType
  <2>2. /\ store'.cancelRequested /\ Done(store') = Done(cmem[c])
        /\ store'.replayFrom = cmem[c].replayFrom
    BY <2>1 DEF Done, TypeInv, OtherType, Run
  <2>3. Requests' /\ Fits(store)'
    BY <1>t, <2>1, <2>2 DEF Requests, Fits
  <2>4. Unreplayed'
    BY <1>t, <2>1, <2>2, FreshRunOrderly DEF Unreplayed
  <2>5. ASSUME NEW run, Ahead(run)
        PROVE  /\ Done(store') \subseteq Done(run)
               /\ \A k \in Cancellers : Done(cmem'[k]) \subseteq Done(run)
    BY <2>1, <2>2, <2>5, FreshRunOrderly DEF Ahead
  <2>6. ASSUME NEW d \in Drivers PROVE CallOf(d)'
    <3>1. CallOf(d)
      BY <1>t
    <3>2. PlaceOf(d) => PlaceOf(d)'
      BY <2>1, <2>2 DEF PlaceOf, StepOf, Orderly, OkBetween
    <3>3. Ahead(mem[d]) => Ahead(mem[d])'
      BY <2>1, <2>5 DEF Ahead, Done
    <3>4. QED
      BY <2>1, <2>2, <3>1, <3>2, <3>3 DEF CallOf, GrowthOf, Orderly
  <2>7. QED
    BY <2>3, <2>4, <2>6 DEF FlagInv
<1>q. QED
  BY <1>u, <1>a, <1>b, <1>c, <1>d, <1>e, <1>f, <1>g, <1>i, <1>j DEF Next

(* What the theorems below rest on, as one invariant.                      *)
CancelledOrderInv == TypeInv /\ LockInv /\ AttemptInv /\ FlagInv

LEMMA CancelledOrderInvariant ==
  ASSUME OneKindOfRequest PROVE Spec => []CancelledOrderInv
<1>1. Init => CancelledOrderInv
  BY TypeInvInit, LockInvInit, AttemptInit, FlagInit DEF CancelledOrderInv
<1>2. CancelledOrderInv /\ [Next]_vars => CancelledOrderInv'
  BY TypeInvStep, LockInvStep, AttemptStep, FlagStep DEF CancelledOrderInv
<1>3. QED
  BY <1>1, <1>2, PTL DEF Spec

(* Only StartAttempt takes a driver from its load to its handler.          *)
LEMMA StartsUnflagged ==
  ASSUME TypeInv, [Next]_vars, NEW d \in Drivers,
         pc[d] = "loaded", pc'[d] = "exec"
  PROVE  ~mem[d].cancelRequested
<1>u. ASSUME pc' = pc PROVE FALSE
  BY <1>u
<1>a. ASSUME NEW e \in Drivers, NEW l \in PC \ {"exec"}, Goto(e, l) PROVE FALSE
  BY <1>a DEF Goto, TypeInv, DriverType
<1>r. ASSUME NEW e \in Drivers, Return(e) PROVE FALSE
  BY <1>a, <1>r DEF Return, PC
<1>n. ASSUME NEW e \in Drivers, NEW run, NextStep(e, run) \/ AfterStep(e, run)
      PROVE  FALSE
  BY <1>a, <1>n, <1>r DEF NextStep, AfterStep, PC
<1>l. ASSUME NEW e \in Drivers, EnterLoop(e) PROVE FALSE
  BY <1>a, <1>l DEF EnterLoop, PC
<1>1. ASSUME NEW e \in Drivers, ~StartAttempt(e), DriverStep(e) PROVE FALSE
  <2>1. CASE ResumeLocked(e)
    BY <1>l, <1>r, <2>1 DEF ResumeLocked
  <2>2. CASE SaveReplay(e) \/ RequeueStep(e) \/ LoadForAttempt(e)
             \/ HandlerReturns(e) \/ RequeueForRetry(e)
    BY <1>a, <2>2
    DEF SaveReplay, RequeueStep, LoadForAttempt, HandlerReturns,
        RequeueForRetry, PC
  <2>3. CASE SaveApproval(e) \/ AwaitApproval(e) \/ CancelBeforeStep(e)
             \/ FinishRun(e) \/ AbortRetry(e) \/ FailRun(e)
    BY <1>r, <2>3
    DEF SaveApproval, AwaitApproval, CancelBeforeStep, FinishRun, AbortRetry,
        FailRun
  <2>4. CASE SkipStep(e) \/ CancelAtAttempt(e)
    BY <1>n, <2>4 DEF SkipStep, CancelAtAttempt
  <2>5. CASE AttemptsExhausted(e)
    BY <1>n, <1>r, <2>5 DEF AttemptsExhausted
  <2>6. CASE SaveResult(e)
    <3>1. CASE Goto(e, IF attempt[e] < MaxAttempts[idx[e]]
                       THEN "retry" ELSE "fail")
      BY <1>a, <3>1 DEF PC
    <3>2. QED
      BY <1>n, <1>r, <2>6, <3>1 DEF SaveResult
  <2>7. QED
    BY <1>1, <2>1, <2>2, <2>3, <2>4, <2>5, <2>6 DEF DriverStep
<1>2. ASSUME NEW e \in Drivers, StartAttempt(e) PROVE ~mem[d].cancelRequested
  BY <1>2 DEF StartAttempt, Goto, TypeInv, DriverType
<1>3. ASSUME NEW e \in Drivers,
             \/ ResumeRun(e) \/ Crash(e)
             \/ \E i \in Steps : ReplayRunFromStep(e, i)
             \/ \E i \in Steps, dec \in Decisions : ResolveApproval(e, i, dec)
      PROVE  FALSE
  BY <1>a, <1>l, <1>r, <1>3
  DEF ResumeRun, Crash, ReplayRunFromStep, ResolveApproval, PC
<1>4. ASSUME NEW e \in Drivers, CreateRun(e) \/ ContextDone(e) \/ LeaseLapses(e)
      PROVE  FALSE
  BY <1>u, <1>4 DEF CreateRun, ContextDone, LeaseLapses, driverVars
<1>5. ASSUME NEW c \in Cancellers, CancelLoad(c) \/ CancelSave(c) PROVE FALSE
  BY <1>u, <1>5 DEF CancelLoad, CancelSave, driverVars
<1>6. ASSUME UNCHANGED vars PROVE FALSE
  BY <1>u, <1>6 DEF vars, driverVars
<1>7. QED
  BY <1>1, <1>2, <1>3, <1>4, <1>5, <1>6 DEF Next

(* Cancellers that write stale records without the lock do not let a step  *)
(* overtake an earlier one either, next to any crashes and retries and     *)
(* either any replays or any approvals.                                    *)
THEOREM StepsRunInOrderDespiteCancels ==
  ASSUME OneKindOfRequest
  PROVE  Spec => []OrderedExecution
<1>1. CancelledOrderInv => OrderedExecution
  <2> SUFFICES ASSUME CancelledOrderInv, NEW d \in Drivers, pc[d] = "exec"
               PROVE  \A j \in Steps : replayAt[d] <= j /\ j < idx[d] =>
                         mem[d].stepStatus[j] = "ok"
    BY DEF OrderedExecution
  <2>1. PlaceOf(d)
    BY DEF CancelledOrderInv, FlagInv, CallOf, InCall, InStep
  <2>2. QED
    BY <2>1 DEF PlaceOf, OkBetween
<1>2. QED
  BY <1>1, CancelledOrderInvariant, PTL

(* Without replays no handler is started for a step the store shows as ok, *)
(* not even when a canceller puts an old record back between the load and  *)
(* the start of the attempt: no copy of the record shows more steps ok     *)
(* than the record of an uncancelled driver.                               *)
THEOREM OkStepsNotRedoneDespiteCancels ==
  ASSUME Budget["lapse"] = 0, Budget["create"] = 0, Budget["replay"] = 0
  PROVE  Spec => NoRedo
<1>0. OneKindOfRequest
  BY DEF OneKindOfRequest
<1>1. CancelledOrderInv /\ [Next]_vars =>
        [\A d \in Drivers :
           pc[d] = "loaded" /\ pc'[d] = "exec" /\ replayAt[d] = 0
             => store.stepStatus[idx[d]] # "ok"]_vars
  <2> SUFFICES ASSUME CancelledOrderInv, [Next]_vars, NEW d \in Drivers,
                      pc[d] = "loaded", pc'[d] = "exec", replayAt[d] = 0
               PROVE  store.stepStatus[idx[d]] # "ok"
    OBVIOUS
  <2>1. CallOf(d) /\ idx[d] \in Steps
    BY DEF CancelledOrderInv, FlagInv, TypeInv, DriverType, InStep
  <2>2. ~mem[d].cancelRequested
    BY StartsUnflagged DEF CancelledOrderInv
  <2>3. /\ mem[d].stepStatus[idx[d]] # "ok"
        /\ Done(store) \subseteq Done(mem[d])
    BY <2>1, <2>2
    DEF CallOf, PlaceOf, StepOf, GrowthOf, Ahead, NoReplays, InCall, InStep
  <2>4. QED
    BY <2>1, <2>3 DEF Done
<1>2. QED
  BY <1>0, <1>1, CancelledOrderInvariant, PTL DEF Spec, NoRedo

-----------------------------------------------------------------------------
(* A cancel that has been seen.  Every record that is written from then on *)
(* descends from a flagged one, whoever writes it.                         *)

NoHandlerStarts == store.cancelRequested /\ \A d \in Drivers : pc[d] # "exec"

Stopped ==
    /\ NoHandlerStarts
    /\ \A d \in Drivers : pc[d] # "idle" => mem[d].cancelRequested

LEMMA SeenIsStopped ==
  ASSUME CancelledOrderInv, Budget["lapse"] = 0, CancelSeen
  PROVE  Stopped
<1>1. PICK d \in Drivers : pc[d] # "idle" /\ mem[d].cancelRequested
  BY DEF CancelSeen
<1>2. CallOf(d) /\ LockInv
  BY DEF CancelledOrderInv, FlagInv
<1>3. \A e \in Drivers \ {d} : pc[e] = "idle"
  BY <1>1, <1>2, HolderAlone
<1>4. QED
  BY <1>1, <1>2, <1>3 DEF CallOf, Stopped, NoHandlerStarts

(* A driver that goes on with a flagged record, or whose call ends.        *)
LEMMA StoppedFrame ==
  ASSUME TypeInv, Stopped, NEW d \in Drivers, NEW l \in PC \ {"exec"}, NEW run,
         Goto(d, l), SetMem(d, run), l # "idle" => run.cancelRequested,
         store'.cancelRequested
  PROVE  Stopped'
<1>1. ASSUME NEW e \in Drivers
      PROVE  pc'[e] # "exec" /\ (pc'[e] # "idle" => mem'[e].cancelRequested)
  <2>1. pc'[e] = (IF e = d THEN l ELSE pc[e])
        /\ mem'[e] = (IF e = d THEN run ELSE mem[e])
    BY DEF Goto, SetMem, TypeInv, DriverType
  <2>2. QED
    BY <2>1 DEF Stopped, NoHandlerStarts
<1>2. QED
  BY <1>1 DEF Stopped, NoHandlerStarts

LEMMA StoppedStep ==
  ASSUME CancelledOrderInv, Budget["lapse"] = 0, Budget["create"] = 0,
         Budget["replay"] = 0, Stopped, [Next]_vars
  PROVE  Stopped'
<1>t. /\ TypeInv /\ store \in Run /\ store.cancelRequested /\ Requests
      /\ mem \in [Drivers -> Run]
  BY DEF CancelledOrderInv, TypeInv, DriverType, OtherType, FlagInv, Stopped,
         NoHandlerStarts
<1>d. ASSUME NEW d \in Drivers
      PROVE  /\ mem[d] \in Run
             /\ SetMem(d, mem[d]) <=> mem' = mem
             /\ pc[d] # "exec" /\ pc[d] # "rsave"
             /\ pc[d] # "idle" => mem[d].cancelRequested
  <2>1. GrowthOf(d)
    BY DEF CancelledOrderInv, FlagInv, CallOf, NoReplays
  <2>2. SetMem(d, mem[d]) <=> mem' = mem
    BY <1>t DEF SetMem
  <2>3. QED
    BY <1>t, <2>1, <2>2 DEF Stopped, NoHandlerStarts, GrowthOf
<1>r. ASSUME NEW d \in Drivers, Return(d), store'.cancelRequested PROVE Stopped'
  BY <1>r, <1>t, StoppedFrame DEF Return, PC
<1>n. ASSUME NEW d \in Drivers, NEW run, run.cancelRequested, NextStep(d, run),
             store'.cancelRequested
      PROVE  Stopped'
  BY <1>n, <1>t, StoppedFrame DEF NextStep, PC
<1>l. ASSUME NEW d \in Drivers, EnterLoop(d), store' = store PROVE Stopped'
  BY <1>l, <1>t, StoppedFrame DEF EnterLoop, PC
<1>s. ASSUME UNCHANGED <<pc, mem>>, store'.cancelRequested PROVE Stopped'
  BY <1>s DEF Stopped, NoHandlerStarts
<1>1. ASSUME NEW d \in Drivers,
             \/ CreateRun(d) \/ LeaseLapses(d)
             \/ \E i \in Steps : ReplayRunFromStep(d, i)
      PROVE  FALSE
  BY <1>1, <1>t
  DEF CreateRun, LeaseLapses, ReplayRunFromStep, Spend, Requests,
      CancelledOrderInv, LockInv
<1>2. ASSUME NEW d \in Drivers, ResumeRun(d) \/ ResumeLocked(d) PROVE Stopped'
  BY <1>2, <1>l, <1>r, <1>t DEF ResumeRun, ResumeLocked
<1>3. ASSUME NEW d \in Drivers, NEW i \in Steps, NEW dec \in Decisions,
             ResolveApproval(d, i, dec)
      PROVE  Stopped'
  <2>1. WithDecision(store, i, dec).cancelRequested
    BY <1>t, WithDecisionOrderly
  <2>2. QED
    BY <1>3, <1>t, <2>1, StoppedFrame DEF ResolveApproval, PC
<1>4. ASSUME NEW d \in Drivers, DriverStep(d) PROVE Stopped'
  <2>1. ASSUME pc[d] # "idle"
        PROVE  /\ mem[d].cancelRequested /\ mem[d] \in Run
               /\ MarkCancelled(mem[d], idx[d]).cancelRequested
               /\ FinalRun(mem[d]).cancelRequested
               /\ RequeueInFlight(mem[d], idx[d]).cancelRequested
    BY <1>d, <2>1 DEF MarkCancelled, FinalRun, RequeueInFlight, Run
  <2>2. ~SaveReplay(d) /\ ~HandlerReturns(d) /\ ~AttemptsExhausted(d)
        /\ ~StartAttempt(d)
    BY <1>d
    DEF SaveReplay, HandlerReturns, AttemptsExhausted, StartAttempt,
        StepReady, AtStep
  <2>3. CASE ResumeLocked(d)
    BY <1>2, <2>3
  <2>4. CASE \/ SaveApproval(d) \/ AwaitApproval(d) \/ CancelBeforeStep(d)
             \/ FinishRun(d) \/ AbortRetry(d) \/ FailRun(d)
    <3>1. pc[d] # "idle" /\ Return(d)
      BY <2>4
      DEF SaveApproval, AwaitApproval, CancelBeforeStep, FinishRun,
          AbortRetry, FailRun, StepReady, AtStep
    <3>2. store'.cancelRequested
      BY <2>1, <2>4, <3>1
      DEF SaveApproval, AwaitApproval, CancelBeforeStep, FinishRun,
          AbortRetry, FailRun, Save, Run
    <3>3. QED
      BY <1>r, <3>1, <3>2
  <2>5. CASE SkipStep(d)
    BY <1>n, <1>t, <2>1, <2>5 DEF SkipStep
  <2>6. CASE CancelAtAttempt(d)
    BY <1>n, <2>1, <2>6 DEF CancelAtAttempt, Save
  <2>7. CASE LoadForAttempt(d)
    BY <1>t, <2>7, StoppedFrame DEF LoadForAttempt, PC
  <2>8. CASE RequeueStep(d) \/ RequeueForRetry(d)
    <3>1. PICK run : /\ SetMem(d, run) /\ store' = run /\ run.cancelRequested
                     /\ Goto(d, "check") \/ Goto(d, "backoff")
      <4>1. CASE RequeueStep(d)
        <5>1. pc[d] # "idle" /\ Goto(d, "check")
          BY <4>1 DEF RequeueStep, AtStep
        <5>2. [mem[d] EXCEPT !.stepStatus[idx[d]] = "pending"].cancelRequested
          BY <2>1, <5>1 DEF Run
        <5>3. QED
          BY <2>1, <4>1, <5>1, <5>2 DEF RequeueStep, Save
      <4>2. CASE RequeueForRetry(d)
        <5>1. pc[d] # "idle" /\ Goto(d, "backoff")
          BY <4>2 DEF RequeueForRetry
        <5>2. [mem[d] EXCEPT !.stepStatus[idx[d]] = "pending"].cancelRequested
          BY <2>1, <5>1 DEF Run
        <5>3. QED
          BY <4>2, <5>1, <5>2 DEF RequeueForRetry, Save
      <4>3. QED
        BY <2>8, <4>1, <4>2
    <3>2. QED
      BY <1>t, <3>1, StoppedFrame DEF PC
  <2>9. CASE SaveResult(d)
    <3>1. pc[d] # "idle" /\ store' = mem[d] /\ store'.cancelRequested
      BY <2>1, <2>9 DEF SaveResult, Save
    <3>2. CASE \E l \in {"retry", "fail"} : Goto(d, l) /\ mem' = mem
      BY <1>d, <1>t, <3>1, <3>2, StoppedFrame DEF PC
    <3>3. CASE Return(d) \/ AfterStep(d, mem[d])
      BY <1>n, <1>r, <2>1, <3>1, <3>3 DEF AfterStep
    <3>4. QED
      BY <2>9, <3>2, <3>3 DEF SaveResult
  <2>10. QED
    BY <1>4, <2>2, <2>3, <2>4, <2>5, <2>6, <2>7, <2>8, <2>9 DEF DriverStep
<1>5. ASSUME NEW d \in Drivers, Crash(d) \/ ContextDone(d) PROVE Stopped'
  BY <1>5, <1>r, <1>s, <1>t DEF Crash, ContextDone
<1>6. ASSUME NEW c \in Cancellers, CancelLoad(c) \/ CancelSave(c) PROVE Stopped'
  <2>1. store'.cancelRequested
    BY <1>6, <1>t
    DEF CancelLoad, CancelSave, Save, TypeInv, OtherType, Run
  <2>2. QED
    BY <1>6, <1>s, <2>1 DEF CancelLoad, CancelSave, driverVars
<1>7. CASE UNCHANGED vars
  BY <1>7, <1>s, <1>t DEF vars, driverVars
<1>8. QED
  BY <1>1, <1>2, <1>3, <1>4, <1>5, <1>6, <1>7 DEF Next

(* Without replays, new starts and lapsing leases, a cancel that a driver  *)
(* has read stays in the record for good and no handler is started after   *)
(* it, next to any crashes, retries, approvals and further cancels.        *)
THEOREM SeenCancelsStopTheRun ==
  ASSUME Budget["lapse"] = 0, Budget["create"] = 0, Budget["replay"] = 0
  PROVE  Spec => SeenCancelStops
<1>0. OneKindOfRequest
  BY DEF OneKindOfRequest
<1>1. CancelledOrderInv /\ CancelSeen => Stopped
  BY SeenIsStopped
<1>2. CancelledOrderInv /\ Stopped /\ [Next]_vars => Stopped'
  BY StoppedStep
<1>3. Stopped => store.cancelRequested /\ \A d \in Drivers : pc[d] # "exec"
  BY DEF Stopped, NoHandlerStarts
<1>4. Spec => []CancelledOrderInv
  BY <1>0, CancelledOrderInvariant
<1>5. QED
  BY <1>1, <1>2, <1>3, <1>4, PTL DEF Spec, SeenCancelStops
=============================================================================
