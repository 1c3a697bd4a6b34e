----------------------------- MODULE DeployStage -----------------------------
(***************************************************************************)
(* One stage of a service on one machine: the commands deploy, remove and  *)
(* recover, and what they share: the deploy journal, the receipt and its   *)
(* history, and the cloud resources themselves.                            *)
(*                                                                         *)
(* A deploy writes its journal before and after the provider call, so that *)
(* the next deploy can resume after a crash.  The journal file carries a   *)
(* version that every write must exceed; the check reads the file and the  *)
(* write replaces it, in two steps.  The receipt names the deployment that *)
(* is live.  Providers dispatched over the API save it after the journal   *)
(* is completed, the others inside the journalled phase.                   *)
(*                                                                         *)
(* Deploy and remove take no lock.  How many commands run at once is part  *)
(* of the setting, so that what holds of one at a time is told apart from  *)
(* what holds of any interleaving.  A command calls the provider's deploy  *)
(* at most once, so it is also the name of the deployment it makes.        *)
(***************************************************************************)
EXTENDS Naturals, Sequences

CONSTANTS
    Commands,      \* invocations of deploy, remove and recover
    None,          \* no file, no deployment, nobody
    Settings,      \* the ways providers are dispatched and commands overlap
    Faults,        \* what may go wrong: see FaultKinds
    ArchiveAfter,  \* attempts after which a rollback only archives
    MaxHistory     \* receipts kept in the release history

FaultKinds == {"crash", "provider", "io", "unhealthy"}
SettingType ==
    [dispatch : {"api", "lifecycle"}, orchestrated : BOOLEAN, overlap : BOOLEAN]

Kinds == {"deploy", "remove", "rollback", "resume"}

ASSUME NoneAssumption == None \notin Commands /\ None \notin Kinds
ASSUME SettingsAssumption == Settings \subseteq SettingType
ASSUME FaultsAssumption == Faults \subseteq FaultKinds
ASSUME LimitsAssumption == ArchiveAfter \in Nat \ {0} /\ MaxHistory \in Nat \ {0}

VARIABLES
    setting,   \* chosen at the start, never changed
    disk,      \* the journal file
    receipt,   \* the receipt at the head of the stage
    history,   \* retained receipts, oldest first
    cloud,     \* the deployment that is live at the provider
    lock,      \* the deploy lock, taken by recover only
    kind,      \* per command: which one it is
    pc,        \* per command: its next step, or how it ended
    proc,      \* per command: its memory, see Process
    made,      \* deployments the provider was asked for
    recorded,  \* deployments whose receipt was saved
    prior,     \* the deployment whose receipt the one at the head replaced
    missed,    \* deployments whose receipt could not be copied to the history
    faulted    \* commands that met a fault of their own

receipts == <<receipt, history, recorded, prior, missed>>
vars == <<setting, disk, receipts, cloud, lock, kind, pc, proc, made, faulted>>

-----------------------------------------------------------------------------
(* Journal and receipt                                                     *)

(* JournalFile, with the command that wrote it.  RunDeploy runs a single   *)
(* phase, so the checkpoints are the state of that phase.                  *)
JournalFile ==
    [status : {"active", "completed"}, version : Nat \ {0}, attempts : Nat,
     phase : {"none", "in_progress", "done"}, by : Commands]

(* Two receipts of one deployment differ in the second they were saved in. *)
Receipt == [dep : Commands, stamp : {0, 1}]
ASSUME NoReceiptAssumption == None \notin Receipt

(* The memory of a command: its copy of the journal, whether the copy      *)
(* passed the version check and is to be written, and the receipt it is    *)
(* about to write.                                                         *)
Process ==
    [journal : JournalFile \cup {None}, passed : BOOLEAN,
     draft : Receipt \cup {None}]

Fresh == [journal |-> None, passed |-> FALSE, draft |-> None]

NewJournal(c) ==
    [status |-> "active", version |-> 1, attempts |-> 0, phase |-> "none", by |-> c]

(* Mutant: a fresh journal always starts at version one.                   *)
MutantOpenDeployJournal(c) ==
    IF disk # None /\ disk.status = "active" THEN disk ELSE NewJournal(c)

(* An active journal is resumed; a fresh one starts above the version of a *)
(* finished one that is still on disk.                                     *)
OpenDeployJournal(c) ==
    IF disk = None THEN NewJournal(c)
    ELSE IF disk.status = "active" THEN disk
    ELSE [NewJournal(c) EXCEPT !.version = disk.version]

CommitSteps == {"attempt", "begin", "done", "complete"}

(* What each journal write changes; commit raises the version whether or   *)
(* not the write will be accepted.                                         *)
Commit(c, step) ==
    LET j == proc[c].journal IN
    [status   |-> IF step = "complete" THEN "completed" ELSE j.status,
     version  |-> j.version + 1,
     attempts |-> IF step = "attempt" THEN j.attempts + 1 ELSE j.attempts,
     phase    |-> IF step = "begin" THEN "in_progress"
                  ELSE IF step = "done" THEN "done" ELSE j.phase,
     by       |-> c]

(* FileBackend.Save rejects a version that does not exceed the file's.     *)
Accepts(j) == disk = None \/ j.version > disk.version

(* The head is copied into the history once, before it is overwritten.     *)
Snapshot ==
    LET kept == Append(history, receipt) IN
    IF receipt = None \/ \E i \in DOMAIN history : history[i] = receipt
    THEN history
    ELSE IF Len(kept) > MaxHistory THEN Tail(kept) ELSE kept

(* snapshotHistory: an error while the head is read or its copy is written *)
(* is dropped, and the save goes on without the copy.                      *)
SnapshotHistory ==
    \/ /\ history' = Snapshot
       /\ missed' = IF receipt = None THEN missed ELSE missed \ {receipt.dep}
    \/ /\ "io" \in Faults /\ receipt # None
       /\ history' = history
       /\ missed' = missed \cup {receipt.dep}

(* Mutant: a resumed deploy takes the checkpointed phase for done.         *)
MutantAfterAttempt(c) == IF proc[c].journal.phase = "done" THEN "complete" ELSE "begin"

(* A phase that is checkpointed as done is skipped, and the provider is    *)
(* called all the same, to obtain the result.                              *)
AfterAttempt(c) == IF proc[c].journal.phase = "done" THEN "provider" ELSE "begin"
AfterProvider(c) == IF proc[c].journal.phase = "done" THEN "complete" ELSE "done"

Following(c, step) ==
    CASE step = "attempt"  -> AfterAttempt(c)
      [] step = "begin"    -> "provider"
      [] step = "provider" ->
            IF setting.dispatch = "lifecycle" THEN "receipt" ELSE AfterProvider(c)
      [] step = "done"     -> "complete"
      [] step = "complete" ->
            IF setting.dispatch = "lifecycle" THEN "health" ELSE "receipt"
      [] step = "head"     ->
            IF setting.dispatch = "lifecycle" THEN AfterProvider(c)
            ELSE IF setting.orchestrated THEN "merge" ELSE "health"
      [] step = "merged"   -> "health"

Ended == {"ok", "archived", "failed", "crashed"}
DeploySteps ==
    CommitSteps \cup {"provider", "receipt", "head", "merge", "merged", "health"}
RemoveSteps == {"rm_load", "rm_cloud", "rm_delete", "rm_sync"}
RecoverSteps == {"rc_lock", "rc_run"}
Steps == DeploySteps \cup RemoveSteps \cup RecoverSteps

Running(c) == pc[c] \in Steps

(* Mutant: a deploy that undid itself is reported as a success.            *)
MutantRemoveEnds(c, outcome) == outcome

(* A removal that a deploy runs to undo itself ends as a failed deploy.    *)
RemoveEnds(c, outcome) == IF kind[c] = "deploy" THEN "failed" ELSE outcome

(* Over the API the orchestrations are removed last, receipt or not.       *)
AfterRemove(c) ==
    IF setting.dispatch = "api" /\ setting.orchestrated THEN "rm_sync" ELSE RemoveEnds(c, "ok")

-----------------------------------------------------------------------------
(* Starting a command                                                      *)

Init ==
    /\ setting \in Settings
    /\ disk = None /\ receipt = None /\ history = <<>>
    /\ cloud = None /\ lock = None
    /\ kind = [c \in Commands |-> None]
    /\ pc = [c \in Commands |-> "idle"]
    /\ proc = [c \in Commands |-> Fresh]
    /\ made = {} /\ recorded = {} /\ prior = None /\ missed = {} /\ faulted = {}

(* One command at a time, or at most two where they may overlap.           *)
MayStart(c) ==
    /\ pc[c] = "idle"
    /\ \/ \A d \in Commands : ~Running(d)
       \/ setting.overlap /\ \E e \in Commands : \A d \in Commands : Running(d) => d = e

(* A command goes on to its next step, or ends and its memory is gone.     *)
Step(c, step, memory) ==
    /\ pc' = [pc EXCEPT ![c] = step]
    /\ proc' = [proc EXCEPT ![c] = IF step \in Ended THEN Fresh ELSE memory]

Goto(c, step) == Step(c, step, proc[c])

StartDeploy(c) ==
    /\ MayStart(c)
    /\ kind' = [kind EXCEPT ![c] = "deploy"]
    /\ Step(c, "attempt", [Fresh EXCEPT !.journal = OpenDeployJournal(c)])
    /\ UNCHANGED <<setting, disk, receipts, cloud, lock, made, faulted>>

(* Providers dispatched over the API are asked only for a recorded stage.  *)
FirstRemoveStep == IF setting.dispatch = "api" THEN "rm_load" ELSE "rm_cloud"

StartRemove(c) ==
    /\ MayStart(c)
    /\ kind' = [kind EXCEPT ![c] = "remove"]
    /\ Goto(c, FirstRemoveStep)
    /\ UNCHANGED <<setting, disk, receipts, cloud, lock, made, faulted>>

(* Recover looks at the journal before it takes the lock.                  *)
StartRecover(c, mode) ==
    /\ MayStart(c)
    /\ kind' = [kind EXCEPT ![c] = mode]
    /\ Goto(c, IF disk = None THEN "ok"
               ELSE IF disk.attempts >= ArchiveAfter /\ mode = "rollback" THEN "archived"
               ELSE "rc_lock")
    /\ UNCHANGED <<setting, disk, receipts, cloud, lock, made, faulted>>

-----------------------------------------------------------------------------
(* Deploy                                                                  *)

(* An error of the first and of the last journal write is dropped, an      *)
(* error of a checkpoint ends the deploy.                                  *)
AfterRejected(c, step) ==
    IF step \in {"attempt", "complete"} THEN Following(c, step) ELSE "failed"

(* A journal write up to the version check.                                *)
JournalCheck(c) ==
    /\ pc[c] \in CommitSteps /\ ~proc[c].passed
    /\ LET j == Commit(c, pc[c]) IN
         Step(c, IF Accepts(j) THEN pc[c] ELSE AfterRejected(c, pc[c]),
              [proc[c] EXCEPT !.journal = j, !.passed = Accepts(j)])
    /\ UNCHANGED <<setting, disk, receipts, cloud, lock, kind, made, faulted>>

JournalWrite(c) ==
    /\ pc[c] \in CommitSteps /\ proc[c].passed
    /\ disk' = proc[c].journal
    /\ Step(c, Following(c, pc[c]), [proc[c] EXCEPT !.passed = FALSE])
    /\ UNCHANGED <<setting, receipts, cloud, lock, kind, made, faulted>>

Fault(c, f) == f \in Faults /\ faulted' = faulted \cup {c}

JournalWriteFails(c) ==
    /\ pc[c] \in CommitSteps /\ proc[c].passed
    /\ Fault(c, "io")
    /\ Step(c, AfterRejected(c, pc[c]), [proc[c] EXCEPT !.passed = FALSE])
    /\ UNCHANGED <<setting, disk, receipts, cloud, lock, kind, made>>

ProviderDeploys(c) ==
    /\ pc[c] = "provider"
    /\ cloud' = c /\ made' = made \cup {c}
    /\ Goto(c, Following(c, "provider"))
    /\ UNCHANGED <<setting, disk, receipts, lock, kind, faulted>>

(* The provider may have deployed before it failed.                        *)
ProviderFails(c) ==
    /\ pc[c] = "provider"
    /\ Fault(c, "provider")
    /\ cloud' \in {cloud, c}
    /\ made' = IF cloud' = c THEN made \cup {c} ELSE made
    /\ Goto(c, "failed")
    /\ UNCHANGED <<setting, disk, receipts, lock, kind>>

(* Mutant: the head is overwritten without a snapshot.                     *)
MutantSaveReceipt(c) ==
    /\ pc[c] = "receipt"
    /\ Step(c, "head", [proc[c] EXCEPT !.draft = [dep |-> c, stamp |-> 0]])
    /\ UNCHANGED <<setting, disk, receipts, cloud, lock, kind, made, faulted>>

(* state.Save: snapshot the head, then replace it.                         *)
SaveReceipt(c) ==
    /\ pc[c] = "receipt"
    /\ SnapshotHistory
    /\ Step(c, "head", [proc[c] EXCEPT !.draft = [dep |-> c, stamp |-> 0]])
    /\ UNCHANGED <<setting, disk, receipt, recorded, prior, cloud, lock, kind, made, faulted>>

(* The orchestration outputs are merged into the receipt that is there,    *)
(* and it is saved again, in the same second or a later one.               *)
MergeOrchestrations(c) ==
    /\ pc[c] = "merge"
    /\ \/ /\ receipt = None
          /\ UNCHANGED <<history, missed>>
          /\ Goto(c, "health")
       \/ /\ receipt # None
          /\ SnapshotHistory
          /\ \E s \in {0, 1} :
                Step(c, "merged", [proc[c] EXCEPT !.draft = [receipt EXCEPT !.stamp = s]])
    /\ UNCHANGED <<setting, disk, receipt, recorded, prior, cloud, lock, kind, made, faulted>>

SyncOrchestrationsFails(c) ==
    /\ pc[c] = "merge"
    /\ Fault(c, "provider")
    /\ Goto(c, "failed")
    /\ UNCHANGED <<setting, disk, receipts, cloud, lock, kind, made>>

WriteHead(c) ==
    /\ pc[c] \in {"head", "merged"}
    /\ LET new == proc[c].draft IN
         /\ receipt' = new
         /\ recorded' = recorded \cup {new.dep}
         /\ prior' = IF receipt # None /\ receipt.dep # new.dep THEN receipt.dep ELSE prior
    /\ Goto(c, Following(c, pc[c]))
    /\ UNCHANGED <<setting, disk, history, missed, cloud, lock, kind, made, faulted>>

(* The error of the merged save is dropped.                                *)
WriteHeadFails(c) ==
    /\ pc[c] \in {"head", "merged"}
    /\ Fault(c, "io")
    /\ Goto(c, IF pc[c] = "merged" THEN "health" ELSE "failed")
    /\ UNCHANGED <<setting, disk, receipts, cloud, lock, kind, made>>

HealthCheckPasses(c) ==
    /\ pc[c] = "health"
    /\ Goto(c, "ok")
    /\ UNCHANGED <<setting, disk, receipts, cloud, lock, kind, made, faulted>>

(* A failed check ends the deploy, after a removal when rollback is on.  A *)
(* failed DNS sync after it (RouterSync) ends it just so, without removal. *)
HealthCheckFails(c) ==
    /\ pc[c] = "health"
    /\ Fault(c, "unhealthy")
    /\ \E step \in {"failed", FirstRemoveStep} : Goto(c, step)
    /\ UNCHANGED <<setting, disk, receipts, cloud, lock, kind, made>>

-----------------------------------------------------------------------------
(* Remove and recover                                                      *)

(* Without a receipt the stage is reported as removed.                     *)
RemoveLoad(c) ==
    /\ pc[c] = "rm_load"
    /\ Goto(c, IF receipt = None THEN AfterRemove(c) ELSE "rm_cloud")
    /\ UNCHANGED <<setting, disk, receipts, cloud, lock, kind, made, faulted>>

RemoveCloud(c) ==
    /\ pc[c] = "rm_cloud"
    /\ cloud' = None
    /\ Goto(c, "rm_delete")
    /\ UNCHANGED <<setting, disk, receipts, lock, kind, made, faulted>>

(* The provider may have removed the deployment before it failed.          *)
RemoveCloudFails(c) ==
    /\ pc[c] = "rm_cloud"
    /\ Fault(c, "provider")
    /\ cloud' \in {cloud, None}
    /\ Goto(c, "failed")
    /\ UNCHANGED <<setting, disk, receipts, lock, kind, made>>

(* A provider of the lifecycle may report that it removed nothing; the     *)
(* receipt stays.                                                          *)
RemoveNothing(c) ==
    /\ pc[c] = "rm_cloud" /\ setting.dispatch = "lifecycle"
    /\ Goto(c, RemoveEnds(c, "ok"))
    /\ UNCHANGED <<setting, disk, receipts, cloud, lock, kind, made, faulted>>

RemoveDelete(c) ==
    /\ pc[c] = "rm_delete"
    /\ receipt' = None /\ prior' = None
    /\ Goto(c, AfterRemove(c))
    /\ UNCHANGED <<setting, disk, history, recorded, missed, cloud, lock, kind, made, faulted>>

RemoveDeleteFails(c) ==
    /\ pc[c] = "rm_delete"
    /\ Fault(c, "io")
    /\ Goto(c, IF setting.dispatch = "api" THEN AfterRemove(c) ELSE "failed")
    /\ UNCHANGED <<setting, disk, receipts, cloud, lock, kind, made>>

RemoveOrchestrations(c) ==
    /\ pc[c] = "rm_sync"
    /\ \/ Goto(c, RemoveEnds(c, "ok")) /\ faulted' = faulted
       \/ Goto(c, "failed") /\ Fault(c, "provider")
    /\ UNCHANGED <<setting, disk, receipts, cloud, lock, kind, made>>

(* A lock whose holder died is taken over once its lease has run out.      *)
RecoverLock(c) ==
    /\ pc[c] = "rc_lock"
    /\ \/ /\ lock \in {None} \cup {d \in Commands : pc[d] = "crashed"}
          /\ lock' = c
          /\ Goto(c, "rc_run")
       \/ /\ lock # None
          /\ lock' = lock
          /\ Goto(c, "failed")
    /\ UNCHANGED <<setting, disk, receipts, cloud, kind, made, faulted>>

(* What a provider does to recover is its own: some remove on rollback and *)
(* deploy on resume, some only report, as all do in mode inspect, which    *)
(* here is a resume without effect.  Journal and receipt stay as they are, *)
(* and the lock is released whatever the outcome.                          *)
RecoverRun(c) ==
    /\ pc[c] = "rc_run"
    /\ cloud' \in {cloud, IF kind[c] = "rollback" THEN None ELSE c}
    /\ made' = IF cloud' = c THEN made \cup {c} ELSE made
    /\ lock' = None
    /\ \E outcome \in {"ok", "failed"} : Goto(c, outcome)
    /\ UNCHANGED <<setting, disk, receipts, kind, faulted>>

Crash(c) ==
    /\ Running(c)
    /\ Fault(c, "crash")
    /\ Goto(c, "crashed")
    /\ UNCHANGED <<setting, disk, receipts, cloud, lock, kind, made>>

Deploy(c) ==
    \/ StartDeploy(c) \/ JournalCheck(c) \/ JournalWrite(c) \/ JournalWriteFails(c)
    \/ ProviderDeploys(c) \/ ProviderFails(c) \/ SaveReceipt(c)
    \/ MergeOrchestrations(c) \/ SyncOrchestrationsFails(c) \/ WriteHead(c) \/ WriteHeadFails(c)
    \/ HealthCheckPasses(c) \/ HealthCheckFails(c)

Remove(c) ==
    \/ StartRemove(c) \/ RemoveLoad(c) \/ RemoveCloud(c) \/ RemoveCloudFails(c)
    \/ RemoveNothing(c) \/ RemoveDelete(c) \/ RemoveDeleteFails(c)
    \/ RemoveOrchestrations(c)

Recover(c) ==
    \/ \E mode \in {"rollback", "resume"} : StartRecover(c, mode)
    \/ RecoverLock(c) \/ RecoverRun(c)

Next == \E c \in Commands : Deploy(c) \/ Remove(c) \/ Recover(c) \/ Crash(c)

Spec == Init /\ [][Next]_vars

-----------------------------------------------------------------------------
(* Properties                                                              *)

TypeOK ==
    /\ setting \in Settings
    /\ disk \in JournalFile \cup {None}
    /\ receipt \in Receipt \cup {None}
    /\ history \in Seq(Receipt)
    /\ cloud \in Commands \cup {None} /\ lock \in Commands \cup {None}
    /\ kind \in [Commands -> Kinds \cup {None}]
    /\ pc \in [Commands -> {"idle"} \cup Steps \cup Ended]
    /\ proc \in [Commands -> Process]
    /\ made \subseteq Commands /\ recorded \subseteq Commands
    /\ prior \in Commands \cup {None}
    /\ missed \subseteq Commands /\ faulted \subseteq Commands

Serial == ~setting.overlap

(* Whatever crashes, rejected writes, removals and recoveries left in the  *)
(* journal, the receipt and the lock, a deploy that runs alone fails only  *)
(* because of a fault it meets itself.                                     *)
LeftoversNeverBlock ==
    Serial => \A c \in Commands : kind[c] = "deploy" /\ pc[c] = "failed" => c \in faulted

(* A deploy that reports success left its deployment live and the receipt  *)
(* naming it, also when it resumed a journal whose phase was already done. *)
AckedDeployRecorded ==
    [][\A c \in Commands :
          Serial /\ kind[c] = "deploy" /\ pc[c] # "ok" /\ pc'[c] = "ok" =>
             cloud' = c /\ receipt' # None /\ receipt'.dep = c]_vars

(* A journal is completed only by a command that had the provider deploy,  *)
(* and, where the receipt belongs to the phase, had the receipt saved.     *)
CompletedMeansDeployed ==
    disk # None /\ disk.status = "completed" =>
        /\ disk.by \in made
        /\ setting.dispatch = "lifecycle" => disk.by \in recorded

(* The release that the one at the head replaced can still be inspected:   *)
(* no crash between snapshot and overwrite, no second save of a receipt    *)
(* and no pruning loses it; only an error in the last attempt to copy it,  *)
(* which the code drops, does.  (It takes three slots of history: the      *)
(* merged receipt of the head may put two snapshots of it behind.)         *)
LastReleaseKept ==
    Serial /\ prior # None =>
        prior \in missed \/ \E i \in DOMAIN history : history[i].dep = prior
=============================================================================
