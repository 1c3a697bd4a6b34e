-------------------------- MODULE DeployStage_proofs --------------------------
(***************************************************************************)
(* What is proved about deploy, remove and recover, for any number of      *)
(* commands, any setting and every kind of fault.                          *)
(***************************************************************************)
EXTENDS DeployStage, TLAPS

(* A deploy under way has its journal in memory, and a receipt to write at *)
(* the steps that write one; only a journal write passes the check.        *)
MemoryOK ==
    \A c \in Commands :
        /\ pc[c] \in DeploySteps => kind[c] = "deploy" /\ proc[c].journal \in JournalFile
        /\ pc[c] \in {"head", "merged"} => proc[c].draft \in Receipt
        /\ proc[c].passed => pc[c] \in CommitSteps
        /\ pc[c] \in RecoverSteps => kind[c] \in {"rollback", "resume"}
        /\ pc[c] = "idle" => kind[c] = None

TypeInv == TypeOK /\ MemoryOK

-----------------------------------------------------------------------------
(* The helpers                                                             *)

(* Where each step of a deploy leads.                                      *)
LEMMA FollowingStep ==
    ASSUME NEW c
    PROVE  /\ Following(c, "attempt") = AfterAttempt(c)
           /\ Following(c, "begin") = "provider"
           /\ Following(c, "provider") =
                IF setting.dispatch = "lifecycle" THEN "receipt" ELSE AfterProvider(c)
           /\ Following(c, "done") = "complete"
           /\ Following(c, "complete") =
                IF setting.dispatch = "lifecycle" THEN "health" ELSE "receipt"
           /\ Following(c, "head") =
                IF setting.dispatch = "lifecycle" THEN AfterProvider(c)
                ELSE IF setting.orchestrated THEN "merge" ELSE "health"
           /\ Following(c, "merged") = "health"
<1>1. Following(c, "attempt") = AfterAttempt(c)
  BY DEF Following
<1>2. Following(c, "begin") = "provider"
  BY DEF Following
<1>3. Following(c, "provider") =
        IF setting.dispatch = "lifecycle" THEN "receipt" ELSE AfterProvider(c)
  BY DEF Following
<1>4. Following(c, "done") = "complete"
  BY DEF Following
<1>5. Following(c, "complete") =
        IF setting.dispatch = "lifecycle" THEN "health" ELSE "receipt"
  BY DEF Following
<1>6. Following(c, "head") =
        IF setting.dispatch = "lifecycle" THEN AfterProvider(c)
        ELSE IF setting.orchestrated THEN "merge" ELSE "health"
  BY DEF Following
<1>7. Following(c, "merged") = "health"
  BY DEF Following
<1> QED
  BY <1>1, <1>2, <1>3, <1>4, <1>5, <1>6, <1>7

(* A journal write leads to a step of the deploy that writes no receipt.   *)
LEMMA FollowingCommit ==
    ASSUME NEW c, NEW s \in CommitSteps
    PROVE  /\ Following(c, s) \in DeploySteps \ {"head", "merge", "merged"}
           /\ AfterRejected(c, s) \in
                (DeploySteps \ {"head", "merge", "merged"}) \cup {"failed"}
BY FollowingStep DEF CommitSteps, DeploySteps, AfterAttempt, AfterRejected

(* A receipt saved leads to a step of the deploy.                          *)
LEMMA FollowingWrite ==
    ASSUME NEW c, NEW s \in {"provider", "head", "merged"}
    PROVE  Following(c, s) \in DeploySteps \ {"head", "merged"}
BY FollowingStep DEF CommitSteps, DeploySteps, AfterProvider

(* A journal is opened as an active one, and every write keeps its type.   *)
LEMMA OpenedJournal ==
    ASSUME TypeOK, NEW c \in Commands
    PROVE  OpenDeployJournal(c) \in JournalFile /\ OpenDeployJournal(c).status = "active"
BY DEF TypeOK, OpenDeployJournal, NewJournal, JournalFile

LEMMA CommittedJournal ==
    ASSUME NEW c \in Commands, NEW s \in CommitSteps, proc[c].journal \in JournalFile
    PROVE  /\ Commit(c, s) \in JournalFile
           /\ Commit(c, s).version = proc[c].journal.version + 1
           /\ Commit(c, s).by = c
           /\ Commit(c, s).status =
                IF s = "complete" THEN "completed" ELSE proc[c].journal.status
           /\ Commit(c, s).phase =
                IF s = "begin" THEN "in_progress"
                ELSE IF s = "done" THEN "done" ELSE proc[c].journal.phase
<1> DEFINE j == proc[c].journal
           attempts == IF s = "attempt" THEN j.attempts + 1 ELSE j.attempts
           phase == IF s = "begin" THEN "in_progress" ELSE IF s = "done" THEN "done" ELSE j.phase
           status == IF s = "complete" THEN "completed" ELSE j.status
<1>1. /\ j.version + 1 \in Nat \ {0} /\ attempts \in Nat
      /\ phase \in {"none", "in_progress", "done"} /\ status \in {"active", "completed"}
  BY DEF JournalFile
<1>2. Commit(c, s) = [status |-> status, version |-> j.version + 1, attempts |-> attempts,
                      phase |-> phase, by |-> c]
  BY DEF Commit, JournalFile
<1> HIDE DEF attempts, phase, status
<1>3. Commit(c, s) \in JournalFile
  BY <1>1, <1>2 DEF JournalFile
<1> QED
  BY <1>2, <1>3 DEF phase, status

(* The history stays a sequence of receipts.                               *)
LEMMA SnapshotType == ASSUME TypeOK PROVE Snapshot \in Seq(Receipt)
<1> DEFINE kept == Append(history, receipt)
<1>1. CASE receipt = None
  BY <1>1 DEF Snapshot, TypeOK
<1>2. CASE receipt # None
  <2>1. kept \in Seq(Receipt) /\ kept # <<>>
    BY <1>2 DEF TypeOK
  <2>2. Tail(kept) \in Seq(Receipt)
    BY <2>1
  <2>3. history \in Seq(Receipt)
    BY DEF TypeOK
  <2> QED
    BY <2>1, <2>2, <2>3 DEF Snapshot
<1> QED
  BY <1>1, <1>2

(* What a step of one command does to the program counters and memories.   *)
LEMMA StepEffect ==
    ASSUME TypeOK, NEW c \in Commands, NEW s, NEW m, Step(c, s, m)
    PROVE  /\ pc'[c] = s /\ proc'[c] = IF s \in Ended THEN Fresh ELSE m
           /\ \A d \in Commands \ {c} : pc'[d] = pc[d] /\ proc'[d] = proc[d]
           /\ s \in {"idle"} \cup Steps \cup Ended =>
                pc' \in [Commands -> {"idle"} \cup Steps \cup Ended]
           /\ m \in Process => proc' \in [Commands -> Process]
BY DEF TypeOK, Step, Fresh, Process

-----------------------------------------------------------------------------
(* Type correctness                                                        *)

(* A command that moves on with memory of the right shape keeps MemoryOK.  *)
LEMMA MemoryStep ==
    ASSUME TypeInv, NEW c \in Commands, NEW s \in Steps \cup Ended, NEW m \in Process,
           Step(c, s, m), UNCHANGED kind, pc[c] # "idle",
           s \in DeploySteps => kind[c] = "deploy" /\ m.journal \in JournalFile,
           s \in {"head", "merged"} => m.draft \in Receipt,
           m.passed => s \in CommitSteps \cup Ended,
           s \in RecoverSteps => kind[c] \in {"rollback", "resume"}
    PROVE  /\ pc' \in [Commands -> {"idle"} \cup Steps \cup Ended]
           /\ proc' \in [Commands -> Process]
           /\ MemoryOK'
<1>1. /\ pc'[c] = s /\ proc'[c] = IF s \in Ended THEN Fresh ELSE m
      /\ \A d \in Commands \ {c} : pc'[d] = pc[d] /\ proc'[d] = proc[d]
      /\ pc' \in [Commands -> {"idle"} \cup Steps \cup Ended]
      /\ proc' \in [Commands -> Process]
  BY StepEffect DEF TypeInv
<1>2. s # "idle" /\ (s \in Ended => s \notin Steps)
  BY DEF Steps, DeploySteps, CommitSteps, RemoveSteps, RecoverSteps, Ended
<1>3. MemoryOK'
  <2> SUFFICES ASSUME NEW d \in Commands PROVE MemoryOK!(d)'
    BY DEF MemoryOK
  <2>1. CASE d # c
    BY <1>1, <2>1 DEF TypeInv, MemoryOK
  <2>2. CASE d = c
    <3>1. CASE s \in Ended
      BY <1>1, <1>2, <2>2, <3>1 DEF Steps, DeploySteps, RecoverSteps, Fresh
    <3>2. CASE s \notin Ended
      BY <1>1, <1>2, <2>2, <3>2
    <3> QED
      BY <3>1, <3>2
  <2> QED
    BY <2>1, <2>2
<1> QED
  BY <1>1, <1>3

(* The same for a step that keeps its memory.                              *)
LEMMA MemoryGoto ==
    ASSUME TypeInv, NEW c \in Commands, NEW s \in Steps \cup Ended,
           Goto(c, s), UNCHANGED kind, pc[c] # "idle",
           s \in DeploySteps => pc[c] \in DeploySteps,
           s \notin {"head", "merged"} \cup RecoverSteps,
           pc[c] \notin CommitSteps \/ s \in Ended
    PROVE  /\ pc' \in [Commands -> {"idle"} \cup Steps \cup Ended]
           /\ proc' \in [Commands -> Process]
           /\ MemoryOK'
<1>1. proc[c] \in Process /\ Step(c, s, proc[c])
  BY DEF TypeInv, TypeOK, Goto
<1>2. proc[c].passed => s \in CommitSteps \cup Ended
  BY DEF TypeInv, MemoryOK
<1> QED
  BY <1>1, <1>2, MemoryStep DEF TypeInv, MemoryOK

(* A command that starts.                                                  *)
LEMMA MemoryStart ==
    ASSUME TypeInv, NEW c \in Commands, NEW s \in Steps \cup Ended, NEW m \in Process,
           NEW k \in Kinds,
           Step(c, s, m), kind' = [kind EXCEPT ![c] = k], ~m.passed,
           s \in DeploySteps => k = "deploy" /\ m.journal \in JournalFile,
           s \notin {"head", "merged"},
           s \in RecoverSteps => k \in {"rollback", "resume"}
    PROVE  /\ pc' \in [Commands -> {"idle"} \cup Steps \cup Ended]
           /\ proc' \in [Commands -> Process]
           /\ kind' \in [Commands -> Kinds \cup {None}]
           /\ MemoryOK'
<1>1. /\ pc'[c] = s /\ proc'[c] = IF s \in Ended THEN Fresh ELSE m
      /\ \A d \in Commands \ {c} : pc'[d] = pc[d] /\ proc'[d] = proc[d]
      /\ pc' \in [Commands -> {"idle"} \cup Steps \cup Ended]
      /\ proc' \in [Commands -> Process]
  BY StepEffect DEF TypeInv
<1>2. s # "idle" /\ (s \in Ended => s \notin Steps)
  BY DEF Steps, DeploySteps, CommitSteps, RemoveSteps, RecoverSteps, Ended
<1>3. /\ kind' \in [Commands -> Kinds \cup {None}]
      /\ kind'[c] = k /\ \A d \in Commands \ {c} : kind'[d] = kind[d]
  BY DEF TypeInv, TypeOK
<1>4. MemoryOK'
  <2> SUFFICES ASSUME NEW d \in Commands PROVE MemoryOK!(d)'
    BY DEF MemoryOK
  <2>1. CASE d # c
    BY <1>1, <1>3, <2>1 DEF TypeInv, MemoryOK
  <2>2. CASE d = c
    <3>1. CASE s \in Ended
      BY <1>1, <1>2, <2>2, <3>1 DEF Steps, DeploySteps, RecoverSteps, Fresh
    <3>2. CASE s \notin Ended
      BY <1>1, <1>2, <1>3, <2>2, <3>2
    <3> QED
      BY <3>1, <3>2
  <2> QED
    BY <2>1, <2>2
<1> QED
  BY <1>1, <1>3, <1>4

(* The other variables keep their types.                                   *)
RestOK ==
    /\ setting \in Settings /\ disk \in JournalFile \cup {None}
    /\ receipt \in Receipt \cup {None} /\ history \in Seq(Receipt)
    /\ cloud \in Commands \cup {None} /\ lock \in Commands \cup {None}
    /\ made \subseteq Commands /\ recorded \subseteq Commands
    /\ prior \in Commands \cup {None}
    /\ missed \subseteq Commands /\ faulted \subseteq Commands

LEMMA TypeInvDeploy ==
    ASSUME TypeInv, NEW c \in Commands, Deploy(c)
    PROVE  TypeInv'
<1> DEFINE MemOK == /\ pc' \in [Commands -> {"idle"} \cup Steps \cup Ended]
                    /\ proc' \in [Commands -> Process]
                    /\ MemoryOK'
<1>0. /\ TypeOK /\ RestOK /\ MemoryOK /\ proc[c] \in Process /\ Fresh \in Process
      /\ kind \in [Commands -> Kinds \cup {None}]
      /\ pc[c] \in DeploySteps => pc[c] # "idle" /\ proc[c].journal \in JournalFile
                                  /\ kind[c] = "deploy"
  BY DEF TypeInv, TypeOK, RestOK, MemoryOK, Fresh, Process, DeploySteps, CommitSteps
<1>1. ASSUME MemOK, RestOK', UNCHANGED kind PROVE TypeInv'
  BY <1>0, <1>1 DEF TypeInv, TypeOK, RestOK
<1> USE DEF receipts
<1>2. CASE StartDeploy(c)
  <2> DEFINE m == [Fresh EXCEPT !.journal = OpenDeployJournal(c)]
  <2>1. m \in Process /\ ~m.passed /\ m.journal \in JournalFile
    BY <1>0, OpenedJournal DEF Fresh, Process, RestOK
  <2>2. Step(c, "attempt", m) /\ kind' = [kind EXCEPT ![c] = "deploy"] /\ RestOK'
    BY <1>0, <1>2 DEF StartDeploy, RestOK
  <2>3. "attempt" \in DeploySteps /\ "attempt" \in Steps \cup Ended
        /\ "attempt" \notin RecoverSteps
    BY DEF DeploySteps, CommitSteps, Steps, RecoverSteps
  <2> HIDE DEF m
  <2>4. /\ MemOK
        /\ kind' \in [Commands -> Kinds \cup {None}]
    BY <2>1, <2>2, <2>3, MemoryStart DEF Kinds
  <2> QED
    BY <2>2, <2>4 DEF TypeInv, TypeOK, RestOK
<1>3. CASE JournalCheck(c)
  <2> DEFINE j == Commit(c, pc[c])
             s == IF Accepts(j) THEN pc[c] ELSE AfterRejected(c, pc[c])
             m == [proc[c] EXCEPT !.journal = j, !.passed = Accepts(j)]
  <2>1. /\ pc[c] \in CommitSteps /\ Step(c, s, m) /\ RestOK' /\ UNCHANGED kind
        /\ proc[c].journal \in JournalFile /\ pc[c] # "idle" /\ kind[c] = "deploy"
    BY <1>0, <1>3 DEF JournalCheck, RestOK, DeploySteps, CommitSteps
  <2>2. j \in JournalFile
    BY <2>1, CommittedJournal
  <2>3. Accepts(j) \in BOOLEAN
    BY DEF Accepts
  <2> HIDE DEF j
  <2>4. m \in Process /\ m.journal \in JournalFile /\ m.passed = Accepts(j)
    BY <1>0, <2>2, <2>3 DEF Process
  <2>5. /\ s \in (DeploySteps \ {"head", "merge", "merged"}) \cup {"failed"}
        /\ m.passed => s \in CommitSteps
    BY <2>1, <2>4, FollowingCommit DEF CommitSteps, DeploySteps
  <2> HIDE DEF s, m
  <2>6. s \in Steps \cup Ended /\ s \notin {"head", "merged"} \cup RecoverSteps
    BY <2>5 DEF Steps, Ended, DeploySteps, CommitSteps, RecoverSteps
  <2>7. MemOK
    BY <2>1, <2>4, <2>5, <2>6, MemoryStep
  <2> QED
    BY <1>1, <2>1, <2>7
<1>4. CASE JournalWrite(c)
  <2> DEFINE s == Following(c, pc[c])
             m == [proc[c] EXCEPT !.passed = FALSE]
  <2>1. /\ pc[c] \in CommitSteps /\ Step(c, s, m) /\ UNCHANGED kind
        /\ proc[c].journal \in JournalFile /\ pc[c] # "idle" /\ kind[c] = "deploy"
    BY <1>0, <1>4 DEF JournalWrite, DeploySteps, CommitSteps
  <2>2. RestOK'
    BY <1>0, <1>4, <2>1 DEF JournalWrite, RestOK
  <2>3. m \in Process /\ m.journal \in JournalFile /\ ~m.passed
    BY <1>0, <2>1 DEF Process
  <2>4. s \in DeploySteps \ {"head", "merge", "merged"}
    BY <2>1, FollowingCommit
  <2> HIDE DEF s, m
  <2>5. s \in Steps \cup Ended /\ s \notin RecoverSteps
    BY <2>4 DEF Steps, DeploySteps, CommitSteps, RecoverSteps
  <2>6. MemOK
    BY <2>1, <2>3, <2>4, <2>5, MemoryStep
  <2> QED
    BY <1>1, <2>1, <2>2, <2>6
<1>5. CASE JournalWriteFails(c)
  <2> DEFINE s == AfterRejected(c, pc[c])
             m == [proc[c] EXCEPT !.passed = FALSE]
  <2>1. /\ pc[c] \in CommitSteps /\ Step(c, s, m) /\ UNCHANGED kind
        /\ proc[c].journal \in JournalFile /\ pc[c] # "idle" /\ kind[c] = "deploy"
    BY <1>0, <1>5 DEF JournalWriteFails, DeploySteps, CommitSteps
  <2>2. RestOK'
    BY <1>0, <1>5, <2>1 DEF JournalWriteFails, RestOK, Fault
  <2>3. m \in Process /\ m.journal \in JournalFile /\ ~m.passed
    BY <1>0, <2>1 DEF Process
  <2>4. s \in (DeploySteps \ {"head", "merge", "merged"}) \cup {"failed"}
    BY <2>1, FollowingCommit
  <2> HIDE DEF s, m
  <2>5. s \in Steps \cup Ended /\ s \notin {"head", "merged"} \cup RecoverSteps
    BY <2>4 DEF Steps, Ended, DeploySteps, CommitSteps, RecoverSteps
  <2>6. MemOK
    BY <2>1, <2>3, <2>4, <2>5, MemoryStep
  <2> QED
    BY <1>1, <2>1, <2>2, <2>6
<1>6. CASE ProviderDeploys(c) \/ ProviderFails(c)
  <2>1. PICK s \in {Following(c, "provider"), "failed"} : Goto(c, s)
    BY <1>6 DEF ProviderDeploys, ProviderFails
  <2>2. /\ s \in Steps \cup Ended /\ s \notin {"head", "merged"} \cup RecoverSteps
    BY <2>1, FollowingWrite DEF Steps, Ended, DeploySteps, CommitSteps, RecoverSteps
  <2>3. pc[c] = "provider" /\ UNCHANGED kind
    BY <1>6 DEF ProviderDeploys, ProviderFails
  <2>4. RestOK'
    BY <1>0, <1>6 DEF ProviderDeploys, ProviderFails, RestOK, Fault
  <2>5. MemOK
    BY <2>1, <2>2, <2>3, MemoryGoto DEF DeploySteps, CommitSteps
  <2> QED
    BY <1>1, <2>3, <2>4, <2>5
<1>7. CASE SaveReceipt(c)
  <2> DEFINE m == [proc[c] EXCEPT !.draft = [dep |-> c, stamp |-> 0]]
  <2>1. pc[c] = "receipt" /\ Step(c, "head", m) /\ UNCHANGED kind /\ RestOK'
    BY <1>0, <1>7, SnapshotType DEF SaveReceipt, SnapshotHistory, RestOK, Receipt
  <2>2. m \in Process /\ m.draft \in Receipt /\ m.journal \in JournalFile /\ ~m.passed
    BY <1>0, <2>1 DEF Process, Receipt, MemoryOK, DeploySteps, CommitSteps
  <2> HIDE DEF m
  <2>3. kind[c] = "deploy" /\ "head" \in Steps \cup Ended /\ "head" \notin RecoverSteps
    BY <1>0, <2>1 DEF Steps, DeploySteps, RecoverSteps
  <2>4. MemOK
    BY <2>1, <2>2, <2>3, MemoryStep
  <2> QED
    BY <1>1, <2>1, <2>4
<1>8. CASE MergeOrchestrations(c)
  <2>1. pc[c] = "merge" /\ UNCHANGED kind /\ RestOK'
    BY <1>0, <1>8, SnapshotType DEF MergeOrchestrations, SnapshotHistory, RestOK, Receipt
  <2>2. CASE Goto(c, "health")
    <3>1. MemOK
      BY <2>1, <2>2, MemoryGoto
      DEF Steps, Ended, DeploySteps, CommitSteps, RecoverSteps
    <3> QED
      BY <1>1, <2>1, <3>1
  <2>3. ASSUME receipt # None, NEW t \in {0, 1},
               Step(c, "merged", [proc[c] EXCEPT !.draft = [receipt EXCEPT !.stamp = t]])
        PROVE  TypeInv'
    <3> DEFINE m == [proc[c] EXCEPT !.draft = [receipt EXCEPT !.stamp = t]]
    <3>1. [receipt EXCEPT !.stamp = t] \in Receipt
      BY <1>0, <2>3 DEF RestOK, Receipt
    <3>2. m \in Process /\ m.draft \in Receipt /\ m.journal \in JournalFile /\ ~m.passed
      BY <1>0, <2>1, <3>1 DEF Process, MemoryOK, DeploySteps, CommitSteps
    <3>3. Step(c, "merged", m)
      BY <2>3
    <3> HIDE DEF m
    <3>4. kind[c] = "deploy" /\ "merged" \in Steps \cup Ended /\ "merged" \notin RecoverSteps
      BY <1>0, <2>1 DEF Steps, DeploySteps, RecoverSteps
    <3>5. MemOK
      BY <2>1, <3>2, <3>3, <3>4, MemoryStep
    <3> QED
      BY <1>1, <2>1, <3>5
  <2> QED
    BY <1>8, <2>2, <2>3 DEF MergeOrchestrations
<1>9. CASE WriteHead(c)
  <2>1. pc[c] \in {"head", "merged"} /\ Goto(c, Following(c, pc[c])) /\ UNCHANGED kind
    BY <1>9 DEF WriteHead
  <2>2. proc[c].draft \in Receipt /\ proc[c].draft.dep \in Commands
    BY <1>0, <2>1 DEF MemoryOK, Receipt
  <2>3. RestOK'
    BY <1>0, <1>9, <2>2 DEF WriteHead, RestOK, Receipt
  <2>4. Following(c, pc[c]) \in DeploySteps \ {"head", "merged"}
    BY <2>1, FollowingWrite
  <2>5. Following(c, pc[c]) \in Steps \cup Ended /\ Following(c, pc[c]) \notin RecoverSteps
    BY <2>4 DEF Steps, DeploySteps, CommitSteps, RecoverSteps
  <2>6. MemOK
    BY <2>1, <2>4, <2>5, MemoryGoto DEF DeploySteps, CommitSteps
  <2> QED
    BY <1>1, <2>1, <2>3, <2>6
<1>10. CASE WriteHeadFails(c)
  <2>1. PICK s \in {"health", "failed"} : Goto(c, s)
    BY <1>10 DEF WriteHeadFails
  <2>2. pc[c] \in {"head", "merged"} /\ UNCHANGED kind /\ RestOK'
    BY <1>0, <1>10 DEF WriteHeadFails, RestOK, Fault
  <2>3. MemOK
    BY <2>1, <2>2, MemoryGoto DEF Steps, Ended, DeploySteps, CommitSteps, RecoverSteps
  <2> QED
    BY <1>1, <2>2, <2>3
<1>11. CASE HealthCheckPasses(c) \/ HealthCheckFails(c)
  <2>1. PICK s \in {"ok", "failed", "rm_load", "rm_cloud"} : Goto(c, s)
    BY <1>11 DEF HealthCheckPasses, HealthCheckFails, FirstRemoveStep
  <2>2. pc[c] = "health" /\ UNCHANGED kind
    BY <1>11 DEF HealthCheckPasses, HealthCheckFails
  <2>3. RestOK'
    BY <1>0, <1>11 DEF HealthCheckPasses, HealthCheckFails, RestOK, Fault
  <2>4. MemOK
    BY <2>1, <2>2, MemoryGoto
    DEF Steps, Ended, DeploySteps, CommitSteps, RecoverSteps, RemoveSteps
  <2> QED
    BY <1>1, <2>2, <2>3, <2>4
<1>12. CASE SyncOrchestrationsFails(c)
  <2>1. pc[c] = "merge" /\ Goto(c, "failed") /\ UNCHANGED kind /\ RestOK'
    BY <1>0, <1>12 DEF SyncOrchestrationsFails, RestOK, Fault
  <2>2. MemOK
    BY <2>1, MemoryGoto DEF Steps, Ended, DeploySteps, CommitSteps, RecoverSteps
  <2> QED
    BY <1>1, <2>1, <2>2
<1> QED
  BY <1>2, <1>3, <1>4, <1>5, <1>6, <1>7, <1>8, <1>9, <1>10, <1>11, <1>12 DEF Deploy

LEMMA TypeInvOther ==
    ASSUME TypeInv, NEW c \in Commands, Remove(c) \/ Recover(c) \/ Crash(c)
    PROVE  TypeInv'
<1> DEFINE MemOK == /\ pc' \in [Commands -> {"idle"} \cup Steps \cup Ended]
                    /\ proc' \in [Commands -> Process]
                    /\ MemoryOK'
<1>0. /\ TypeOK /\ RestOK /\ MemoryOK /\ proc[c] \in Process
      /\ kind \in [Commands -> Kinds \cup {None}]
  BY DEF TypeInv, TypeOK, RestOK
<1>1. ASSUME MemOK, RestOK', UNCHANGED kind PROVE TypeInv'
  BY <1>0, <1>1 DEF TypeInv, TypeOK, RestOK
<1>2. ASSUME NEW k \in {"remove", "rollback", "resume"}, MayStart(c),
             NEW s \in RemoveSteps \cup RecoverSteps \cup Ended, Goto(c, s),
             kind' = [kind EXCEPT ![c] = k], s \in RecoverSteps => k # "remove", RestOK'
      PROVE  TypeInv'
  <2>1. Step(c, s, proc[c]) /\ ~proc[c].passed
    BY <1>0, <1>2 DEF Goto, MayStart, MemoryOK, CommitSteps
  <2>2. s \in Steps \cup Ended /\ s \notin DeploySteps
    BY DEF Steps, Ended, DeploySteps, CommitSteps, RemoveSteps, RecoverSteps
  <2>3. s \notin {"head", "merged"}
    BY <2>2 DEF DeploySteps
  <2>4. /\ MemOK
        /\ kind' \in [Commands -> Kinds \cup {None}]
    BY <1>0, <1>2, <2>1, <2>2, <2>3, MemoryStart DEF Kinds
  <2> QED
    BY <1>2, <2>4 DEF TypeInv, TypeOK, RestOK
<1>3. ASSUME NEW s \in RemoveSteps \cup Ended, Goto(c, s),
             UNCHANGED kind, RestOK', pc[c] \in RemoveSteps \cup RecoverSteps
      PROVE  TypeInv'
  <2>1. s \in Steps \cup Ended /\ s \notin DeploySteps /\ s \notin {"head", "merged"}
        /\ s \notin RecoverSteps /\ pc[c] # "idle" /\ pc[c] \notin CommitSteps
    BY <1>3 DEF Steps, Ended, DeploySteps, CommitSteps, RemoveSteps, RecoverSteps
  <2>2. MemOK
    BY <1>3, <2>1, MemoryGoto
  <2> QED
    BY <1>1, <1>3, <2>2
<1> USE DEF receipts
<1>4. CASE Remove(c)
  <2>1. CASE StartRemove(c)
    <3>1. RestOK' /\ FirstRemoveStep \in RemoveSteps
      BY <1>0, <2>1 DEF StartRemove, RestOK, FirstRemoveStep, RemoveSteps
    <3>2. FirstRemoveStep \notin RecoverSteps
      BY DEF FirstRemoveStep, RecoverSteps
    <3> QED
      BY <1>2, <2>1, <3>1, <3>2 DEF StartRemove
  <2>2. CASE RemoveLoad(c)
    <3>1. PICK s \in RemoveSteps \cup Ended : Goto(c, s)
      BY <2>2 DEF RemoveLoad, AfterRemove, RemoveEnds, Ended, RemoveSteps
    <3> QED
      BY <1>0, <1>3, <2>2, <3>1 DEF RemoveLoad, RestOK, RemoveSteps
  <2>3. CASE RemoveCloud(c)
    BY <1>0, <1>3, <2>3 DEF RemoveCloud, RestOK, RemoveSteps
  <2>4. CASE RemoveCloudFails(c)
    BY <1>0, <1>3, <2>4 DEF RemoveCloudFails, RestOK, RemoveSteps, Ended, Fault
  <2>5. CASE RemoveDelete(c)
    <3>1. PICK s \in RemoveSteps \cup Ended : Goto(c, s)
      BY <2>5 DEF RemoveDelete, AfterRemove, RemoveEnds, Ended, RemoveSteps
    <3> QED
      BY <1>0, <1>3, <2>5, <3>1 DEF RemoveDelete, RestOK, RemoveSteps
  <2>6. CASE RemoveDeleteFails(c)
    <3>1. PICK s \in RemoveSteps \cup Ended : Goto(c, s)
      BY <2>6 DEF RemoveDeleteFails, AfterRemove, RemoveEnds, Ended, RemoveSteps
    <3> QED
      BY <1>0, <1>3, <2>6, <3>1 DEF RemoveDeleteFails, RestOK, RemoveSteps, Fault
  <2>7. CASE RemoveNothing(c) \/ RemoveOrchestrations(c)
    <3>1. PICK s \in Ended : Goto(c, s)
      BY <2>7 DEF RemoveNothing, RemoveOrchestrations, RemoveEnds, Ended
    <3>2. pc[c] \in RemoveSteps /\ UNCHANGED kind /\ RestOK'
      BY <1>0, <2>7
      DEF RemoveNothing, RemoveOrchestrations, RestOK, RemoveSteps, Fault
    <3> QED
      BY <1>3, <3>1, <3>2
  <2> QED
    BY <1>4, <2>1, <2>2, <2>3, <2>4, <2>5, <2>6, <2>7 DEF Remove
<1>5. CASE Recover(c)
  <2>1. ASSUME NEW mode \in {"rollback", "resume"}, StartRecover(c, mode) PROVE TypeInv'
    <3>1. PICK s \in {"ok", "archived", "rc_lock"} : Goto(c, s)
      BY <2>1 DEF StartRecover
    <3>2. RestOK' /\ MayStart(c) /\ kind' = [kind EXCEPT ![c] = mode]
      BY <1>0, <2>1 DEF StartRecover, RestOK
    <3> QED
      BY <1>2, <3>1, <3>2 DEF RecoverSteps, Ended
  <2>2. CASE RecoverLock(c)
    <3>1. pc[c] = "rc_lock" /\ UNCHANGED kind /\ RestOK'
      BY <1>0, <2>2 DEF RecoverLock, RestOK
    <3>2. CASE Goto(c, "failed")
      BY <1>3, <3>1, <3>2 DEF Ended, RecoverSteps
    <3>3. CASE Goto(c, "rc_run")
      <4>1. Step(c, "rc_run", proc[c]) /\ "rc_run" \in Steps \cup Ended
        BY <3>3 DEF Goto, Steps, RecoverSteps
      <4>2. pc[c] # "idle" /\ ~proc[c].passed /\ kind[c] \in {"rollback", "resume"}
        BY <1>0, <3>1 DEF MemoryOK, CommitSteps, RecoverSteps
      <4>3. "rc_run" \notin DeploySteps \cup {"head", "merged"}
        BY DEF DeploySteps, CommitSteps
      <4>4. MemOK
        BY <1>0, <3>1, <4>1, <4>2, <4>3, MemoryStep
      <4> QED
        BY <1>1, <3>1, <4>4
    <3> QED
      BY <2>2, <3>2, <3>3 DEF RecoverLock
  <2>3. CASE RecoverRun(c)
    <3>1. PICK s \in Ended : Goto(c, s)
      BY <2>3 DEF RecoverRun, Ended
    <3> QED
      BY <1>0, <1>3, <2>3, <3>1 DEF RecoverRun, RestOK, RecoverSteps
  <2> QED
    BY <1>5, <2>1, <2>2, <2>3 DEF Recover
<1>6. CASE Crash(c)
  <2>1. Goto(c, "crashed") /\ UNCHANGED kind /\ RestOK' /\ pc[c] # "idle"
    BY <1>0, <1>6
    DEF Crash, RestOK, Fault, Running, Steps, DeploySteps, CommitSteps, RemoveSteps,
        RecoverSteps
  <2>2. MemOK
    BY <2>1, MemoryGoto DEF Ended, DeploySteps, CommitSteps, RecoverSteps
  <2> QED
    BY <1>1, <2>1, <2>2
<1> QED
  BY <1>4, <1>5, <1>6

LEMMA TypeInvariant == Spec => []TypeInv
<1>1. Init => TypeInv
  BY SettingsAssumption
  DEF Init, TypeInv, TypeOK, MemoryOK, Process, Fresh, DeploySteps, CommitSteps,
      RecoverSteps
<1>2. TypeInv /\ [Next]_vars => TypeInv'
  <2> SUFFICES ASSUME TypeInv, [Next]_vars PROVE TypeInv'
    OBVIOUS
  <2>1. CASE Next
    BY <2>1, TypeInvDeploy, TypeInvOther DEF Next
  <2>2. CASE UNCHANGED vars
    BY <2>2 DEF vars, receipts, TypeInv, TypeOK, MemoryOK
  <2> QED
    BY <2>1, <2>2
<1> QED
  BY <1>1, <1>2, PTL DEF Spec

(* Type correctness: receipts in the head and in the history are whole,    *)
(* and a deploy under way always has a journal to write.                   *)
THEOREM StageTypeCorrect == Spec => []TypeOK
<1>1. TypeInv => TypeOK
  BY DEF TypeInv
<1> QED
  BY <1>1, TypeInvariant, PTL

-----------------------------------------------------------------------------
(***************************************************************************)
(* What a deploy's outcome means, proved for any number of commands.       *)
(*                                                                         *)
(* However commands overlap, a completed journal was completed by a        *)
(* command that had the provider deploy (Progress).  One at a time, a      *)
(* deploy's journal is never behind the file, so no write of it is         *)
(* rejected, and from the provider's answer on the live deployment and     *)
(* then the receipt are its own (Alone).                                   *)
(***************************************************************************)
(* Steps of a deploy after the provider's answer, and after its receipt.   *)
DoneSteps == {"done", "complete", "receipt", "head", "merge", "merged", "health"}
ReceiptedSteps ==
    {"merge", "merged", "health"} \cup
    IF setting.dispatch = "lifecycle" THEN {"done", "complete"} ELSE {}

Finished(c) == c \in made /\ (setting.dispatch = "lifecycle" => c \in recorded)

Progress(c) ==
    /\ pc[c] \in DoneSteps => c \in made
    /\ pc[c] \in ReceiptedSteps => c \in recorded
    /\ pc[c] \in DeploySteps /\ proc[c].journal.status = "completed" => Finished(c)
    /\ pc[c] = "head" => proc[c].draft.dep = c
    /\ proc[c].passed => proc[c].journal.by = c

ProgressInv == CompletedMeansDeployed /\ \A c \in Commands : Progress(c)

(* A step of one command that does not write the journal file: only the    *)
(* command itself has to be looked at.                                     *)
LEMMA ProgressStep ==
    ASSUME TypeInv, ProgressInv, NEW c \in Commands, NEW s, NEW m, Step(c, s, m),
           made \subseteq made', recorded \subseteq recorded', UNCHANGED <<setting, disk>>,
           Progress(c)'
    PROVE  ProgressInv'
<1>1. \A d \in Commands \ {c} : pc'[d] = pc[d] /\ proc'[d] = proc[d]
  BY StepEffect DEF TypeInv
<1>2. \A d \in Commands : Progress(d)'
  BY <1>1 DEF ProgressInv, Progress, Finished, ReceiptedSteps
<1>3. CompletedMeansDeployed'
  BY DEF ProgressInv, CompletedMeansDeployed
<1> QED
  BY <1>2, <1>3 DEF ProgressInv

(* A command that ends, removes or recovers has nothing to show.           *)
LEMMA ProgressElsewhere ==
    ASSUME TypeInv, NEW c \in Commands, NEW s \in Ended \cup RemoveSteps \cup RecoverSteps,
           Goto(c, s), pc[c] \notin CommitSteps \/ s \in Ended
    PROVE  Progress(c)'
<1>1. pc'[c] = s /\ proc'[c] = IF s \in Ended THEN Fresh ELSE proc[c]
  BY StepEffect DEF TypeInv, Goto
<1>2. s \notin DeploySteps
  BY DEF Ended, RemoveSteps, RecoverSteps, DeploySteps, CommitSteps
<1>3. s \notin DoneSteps /\ s # "head" /\ DoneSteps' = DoneSteps
      /\ s \notin {"merge", "merged", "health", "done", "complete"}
  BY <1>2 DEF DoneSteps, DeploySteps, CommitSteps
<1>4. ~proc'[c].passed
  BY <1>1 DEF TypeInv, MemoryOK, Fresh
<1> QED
  BY <1>1, <1>2, <1>3, <1>4 DEF Progress, ReceiptedSteps

LEMMA ProgressDeploy ==
    ASSUME TypeInv, ProgressInv, NEW c \in Commands, Deploy(c)
    PROVE  ProgressInv'
<1>0. /\ TypeOK /\ MemoryOK /\ Progress(c) /\ CompletedMeansDeployed
      /\ pc[c] \in DeploySteps => proc[c].journal \in JournalFile
  BY DEF TypeInv, ProgressInv, MemoryOK
<1> USE DEF receipts
<1>2. CASE StartDeploy(c)
  <2> DEFINE m == [Fresh EXCEPT !.journal = OpenDeployJournal(c)]
  <2>1. Step(c, "attempt", m) /\ UNCHANGED <<made, recorded, setting, disk>>
    BY <1>2 DEF StartDeploy
  <2>2. ~m.passed /\ m.journal.status = "active"
    BY <1>0, OpenedJournal DEF Fresh
  <2> HIDE DEF m
  <2>3. pc'[c] = "attempt" /\ proc'[c] = m
    BY <1>0, <2>1, StepEffect DEF Ended
  <2>4. Progress(c)'
    BY <2>2, <2>3 DEF Progress, DoneSteps, ReceiptedSteps
  <2> QED
    BY <2>1, <2>4, ProgressStep
<1>3. CASE JournalCheck(c)
  <2> DEFINE j == Commit(c, pc[c])
             s == IF Accepts(j) THEN pc[c] ELSE AfterRejected(c, pc[c])
             m == [proc[c] EXCEPT !.journal = j, !.passed = Accepts(j)]
  <2>1. /\ pc[c] \in CommitSteps /\ Step(c, s, m)
        /\ UNCHANGED <<made, recorded, setting, disk>>
    BY <1>3 DEF JournalCheck
  <2>2. proc[c].journal \in JournalFile /\ proc[c] \in Process
    BY <1>0, <2>1 DEF DeploySteps, TypeOK
  <2>3. j.by = c /\ j.status = IF pc[c] = "complete" THEN "completed"
                               ELSE proc[c].journal.status
    BY <2>1, <2>2, CommittedJournal
  <2>4. m.journal = j /\ m.draft = proc[c].draft
    BY <2>2 DEF Process
  <2>5. pc'[c] = s /\ proc'[c] = IF s \in Ended THEN Fresh ELSE m
    BY <1>0, <2>1, StepEffect
  <2> HIDE DEF j, m
  <2>6. pc[c] = "complete" => Finished(c)
    BY <1>0 DEF Progress, Finished, DoneSteps, ReceiptedSteps
  <2>7. s \in DoneSteps \cup ReceiptedSteps => pc[c] \in DoneSteps
    BY <2>1, FollowingStep
    DEF AfterRejected, AfterAttempt, CommitSteps, DoneSteps, ReceiptedSteps
  <2>8. s \in ReceiptedSteps => pc[c] \in ReceiptedSteps
    BY <2>1, FollowingStep
    DEF AfterRejected, AfterAttempt, CommitSteps, ReceiptedSteps
  <2>9. s # "head"
    BY <2>1, FollowingCommit DEF CommitSteps
  <2> HIDE DEF s
  <2>10. DoneSteps' = DoneSteps /\ ReceiptedSteps' = ReceiptedSteps /\ Finished(c)' = Finished(c)
    BY <2>1 DEF DoneSteps, ReceiptedSteps, Finished
  <2>11. CASE s \in Ended
    <3>1. s \notin DeploySteps \cup DoneSteps \cup ReceiptedSteps
      BY <2>11 DEF Ended, DeploySteps, CommitSteps, DoneSteps, ReceiptedSteps
    <3>2. Progress(c)'
      BY <2>5, <2>9, <2>10, <2>11, <3>1 DEF Progress, Fresh
    <3> QED
      BY <2>1, <3>2, ProgressStep
  <2>12. CASE s \notin Ended
    <3>1. Progress(c)'
      BY <1>0, <2>1, <2>3, <2>4, <2>5, <2>6, <2>7, <2>8, <2>9, <2>10, <2>12
      DEF Progress, DeploySteps
    <3> QED
      BY <2>1, <3>1, ProgressStep
  <2> QED
    BY <2>11, <2>12
<1>4. CASE JournalWrite(c)
  <2> DEFINE s == Following(c, pc[c])
             m == [proc[c] EXCEPT !.passed = FALSE]
  <2>1. /\ pc[c] \in CommitSteps /\ proc[c].passed /\ Step(c, s, m)
        /\ UNCHANGED <<made, recorded, setting>> /\ disk' = proc[c].journal
    BY <1>4 DEF JournalWrite
  <2>2. proc[c].journal \in JournalFile /\ proc[c] \in Process
    BY <1>0, <2>1 DEF DeploySteps, TypeOK
  <2>3. m.journal = proc[c].journal /\ ~m.passed
    BY <2>2 DEF Process
  <2>4. /\ pc'[c] = s /\ proc'[c] = IF s \in Ended THEN Fresh ELSE m
        /\ \A d \in Commands \ {c} : pc'[d] = pc[d] /\ proc'[d] = proc[d]
    BY <1>0, <2>1, StepEffect
  <2> HIDE DEF m
  <2>5. s \in DeploySteps \ {"head", "merge", "merged"}
    BY <2>1, FollowingCommit
  <2>6. s \in DoneSteps \cup ReceiptedSteps => pc[c] \in DoneSteps
    BY <2>1, FollowingStep DEF AfterAttempt, CommitSteps, DoneSteps, ReceiptedSteps
  <2>7. s \in ReceiptedSteps => pc[c] \in ReceiptedSteps
    BY <2>1, FollowingStep DEF AfterAttempt, CommitSteps, ReceiptedSteps
  <2> HIDE DEF s
  <2>8. s \notin Ended /\ s # "head"
    BY <2>5 DEF Ended, DeploySteps, CommitSteps
  <2>9. /\ DoneSteps' = DoneSteps /\ ReceiptedSteps' = ReceiptedSteps
        /\ \A d \in Commands : Finished(d)' = Finished(d)
    BY <2>1 DEF DoneSteps, ReceiptedSteps, Finished
  <2>10. Progress(c)'
    BY <1>0, <2>1, <2>3, <2>4, <2>6, <2>7, <2>8, <2>9 DEF Progress, DeploySteps
  <2>11. \A d \in Commands \ {c} : Progress(d)'
    BY <2>4, <2>9, <2>1 DEF ProgressInv, Progress
  <2>12. disk'.status = "completed" => Finished(c) /\ disk'.by = c
    BY <1>0, <2>1 DEF Progress, DeploySteps
  <2>13. CompletedMeansDeployed'
    BY <2>1, <2>12 DEF CompletedMeansDeployed, Finished
  <2> QED
    BY <2>10, <2>11, <2>13 DEF ProgressInv
<1>5. CASE JournalWriteFails(c)
  <2> DEFINE s == AfterRejected(c, pc[c])
             m == [proc[c] EXCEPT !.passed = FALSE]
  <2>1. /\ pc[c] \in CommitSteps /\ Step(c, s, m)
        /\ UNCHANGED <<made, recorded, setting, disk>>
    BY <1>5 DEF JournalWriteFails
  <2>2. proc[c].journal \in JournalFile /\ proc[c] \in Process
    BY <1>0, <2>1 DEF DeploySteps, TypeOK
  <2>3. m.journal = proc[c].journal /\ ~m.passed
    BY <2>2 DEF Process
  <2>4. pc'[c] = s /\ proc'[c] = IF s \in Ended THEN Fresh ELSE m
    BY <1>0, <2>1, StepEffect
  <2> HIDE DEF m
  <2>5. s # "head" /\ (s \in DoneSteps \cup ReceiptedSteps => pc[c] \in DoneSteps)
        /\ (s \in ReceiptedSteps => pc[c] \in ReceiptedSteps)
    BY <2>1, FollowingStep
    DEF AfterRejected, AfterAttempt, CommitSteps, DoneSteps, ReceiptedSteps
  <2> HIDE DEF s
  <2>6. DoneSteps' = DoneSteps /\ ReceiptedSteps' = ReceiptedSteps /\ Finished(c)' = Finished(c)
    BY <2>1 DEF DoneSteps, ReceiptedSteps, Finished
  <2>7. CASE s \in Ended
    <3>1. s \notin DeploySteps
      BY <2>7 DEF Ended, DeploySteps, CommitSteps
    <3>2. Progress(c)'
      BY <1>0, <2>4, <2>5, <2>6, <2>7, <2>1, <3>1 DEF Progress, Fresh
    <3> QED
      BY <2>1, <3>2, ProgressStep
  <2>8. CASE s \notin Ended
    <3>1. Progress(c)'
      BY <1>0, <2>1, <2>3, <2>4, <2>5, <2>6, <2>8 DEF Progress, DeploySteps
    <3> QED
      BY <2>1, <3>1, ProgressStep
  <2> QED
    BY <2>7, <2>8
<1>6. CASE ProviderDeploys(c)
  <2>1. /\ Goto(c, Following(c, "provider")) /\ made' = made \cup {c}
        /\ UNCHANGED <<recorded, setting, disk>> /\ pc[c] = "provider"
    BY <1>6 DEF ProviderDeploys
  <2>2. Step(c, Following(c, "provider"), proc[c])
    BY <2>1 DEF Goto
  <2>3. Following(c, "provider") \in
          IF setting.dispatch = "lifecycle" THEN {"receipt"} ELSE {"done", "complete"}
    BY FollowingStep DEF AfterProvider
  <2>4. pc'[c] = Following(c, "provider") /\ proc'[c] = proc[c]
    BY <1>0, <2>2, <2>3, StepEffect DEF Ended
  <2>5. ~proc[c].passed /\ pc[c] \in DeploySteps
    BY <1>0, <2>1 DEF MemoryOK, CommitSteps, DeploySteps
  <2>6. pc'[c] # "head" /\ pc'[c] \notin ReceiptedSteps' /\ c \in made'
    BY <2>1, <2>3, <2>4 DEF ReceiptedSteps
  <2>7. Finished(c) => Finished(c)'
    BY <2>1 DEF Finished
  <2>8. Progress(c)'
    BY <1>0, <2>4, <2>5, <2>6, <2>7 DEF Progress
  <2> QED
    BY <2>1, <2>2, <2>8, ProgressStep
<1>7. CASE ProviderFails(c)
  <2>1. /\ Goto(c, "failed") /\ made \subseteq made' /\ UNCHANGED <<recorded, setting, disk>>
    BY <1>7 DEF ProviderFails
  <2> QED
    BY <2>1, ProgressElsewhere, ProgressStep DEF Goto, Ended
<1>8. CASE SaveReceipt(c)
  <2> DEFINE m == [proc[c] EXCEPT !.draft = [dep |-> c, stamp |-> 0]]
  <2>1. /\ Step(c, "head", m) /\ UNCHANGED <<made, recorded, setting, disk>>
        /\ pc[c] = "receipt"
    BY <1>8 DEF SaveReceipt
  <2>2. m.draft.dep = c /\ m.journal = proc[c].journal /\ m.passed = proc[c].passed
    BY <1>0 DEF TypeOK, Process
  <2>3. pc'[c] = "head" /\ proc'[c] = m
    BY <1>0, <2>1, StepEffect DEF Ended
  <2> HIDE DEF m
  <2>4. Progress(c)'
    BY <1>0, <2>1, <2>2, <2>3 DEF Progress, DoneSteps, ReceiptedSteps, DeploySteps, Finished
  <2> QED
    BY <2>1, <2>4, ProgressStep
<1>9. CASE MergeOrchestrations(c)
  <2>1. PICK s, m : s \in {"health", "merged"} /\
             Step(c, s, m) /\ m.journal = proc[c].journal /\ m.passed = proc[c].passed
    <3>1. CASE Goto(c, "health")
      BY <3>1 DEF Goto
    <3>2. ASSUME NEW t \in {0, 1},
                 Step(c, "merged", [proc[c] EXCEPT !.draft = [receipt EXCEPT !.stamp = t]])
          PROVE  \E s, m : s \in {"health", "merged"} /\
                    Step(c, s, m) /\ m.journal = proc[c].journal /\ m.passed = proc[c].passed
      <4> DEFINE m == [proc[c] EXCEPT !.draft = [receipt EXCEPT !.stamp = t]]
      <4>1. m.journal = proc[c].journal /\ m.passed = proc[c].passed
        BY <1>0 DEF TypeOK, Process
      <4> QED
        BY <3>2, <4>1
    <3> QED
      BY <1>9, <3>1, <3>2 DEF MergeOrchestrations
  <2>2. pc[c] = "merge" /\ UNCHANGED <<made, recorded, setting, disk>>
    BY <1>9 DEF MergeOrchestrations
  <2>3. pc'[c] = s /\ proc'[c] = m
    BY <1>0, <2>1, StepEffect DEF Ended
  <2>4. Progress(c)'
    BY <1>0, <2>1, <2>2, <2>3 DEF Progress, DoneSteps, ReceiptedSteps, DeploySteps, Finished
  <2> QED
    BY <2>1, <2>2, <2>4, ProgressStep
<1>10. CASE WriteHead(c)
  <2> DEFINE s == Following(c, pc[c])
  <2>1. /\ pc[c] \in {"head", "merged"} /\ Step(c, s, proc[c])
        /\ recorded' = recorded \cup {proc[c].draft.dep} /\ UNCHANGED <<made, setting, disk>>
    BY <1>10 DEF WriteHead, Goto
  <2>2. s \in {"done", "complete", "merge", "health"}
    BY <2>1, FollowingStep DEF AfterProvider
  <2> HIDE DEF s
  <2>3. pc'[c] = s /\ proc'[c] = proc[c]
    BY <1>0, <2>1, <2>2, StepEffect DEF Ended
  <2>4. c \in recorded'
    BY <1>0, <2>1 DEF Progress, ReceiptedSteps
  <2>5. ~proc[c].passed /\ pc[c] \in DeploySteps
    BY <1>0, <2>1 DEF MemoryOK, CommitSteps, DeploySteps
  <2>6. c \in made /\ Finished(c)'
    BY <1>0, <2>1, <2>4 DEF Progress, DoneSteps, Finished
  <2>7. Progress(c)'
    BY <2>1, <2>2, <2>3, <2>4, <2>5, <2>6 DEF Progress
  <2> QED
    BY <2>1, <2>7, ProgressStep
<1>11. CASE WriteHeadFails(c)
  <2>1. /\ UNCHANGED <<made, recorded, setting, disk>> /\ pc[c] \in {"head", "merged"}
        /\ Goto(c, IF pc[c] = "merged" THEN "health" ELSE "failed")
    BY <1>11 DEF WriteHeadFails
  <2>2. CASE pc[c] = "head"
    BY <2>1, <2>2, ProgressElsewhere, ProgressStep DEF Goto, Ended
  <2>3. CASE pc[c] = "merged"
    <3>1. Step(c, "health", proc[c])
      BY <2>1, <2>3 DEF Goto
    <3>2. pc'[c] = "health" /\ proc'[c] = proc[c]
      BY <1>0, <3>1, StepEffect DEF Ended
    <3>3. Progress(c)'
      BY <1>0, <2>1, <2>3, <3>2 DEF Progress, DoneSteps, ReceiptedSteps, DeploySteps, Finished
    <3> QED
      BY <2>1, <3>1, <3>3, ProgressStep
  <2> QED
    BY <2>1, <2>2, <2>3
<1>12. CASE HealthCheckPasses(c) \/ HealthCheckFails(c)
  <2>1. PICK s \in {"ok", "failed", "rm_load", "rm_cloud"} : Goto(c, s)
    BY <1>12 DEF HealthCheckPasses, HealthCheckFails, FirstRemoveStep
  <2>2. pc[c] = "health" /\ UNCHANGED <<made, recorded, setting, disk>>
    BY <1>12 DEF HealthCheckPasses, HealthCheckFails
  <2>3. s \in Ended \cup RemoveSteps \cup RecoverSteps /\ pc[c] \notin CommitSteps
    BY <2>1, <2>2 DEF Ended, RemoveSteps, CommitSteps
  <2> QED
    BY <2>1, <2>2, <2>3, ProgressElsewhere, ProgressStep DEF Goto
<1>13. CASE SyncOrchestrationsFails(c)
  <2>1. Goto(c, "failed") /\ UNCHANGED <<made, recorded, setting, disk>>
    BY <1>13 DEF SyncOrchestrationsFails
  <2> QED
    BY <2>1, ProgressElsewhere, ProgressStep DEF Goto, Ended
<1> QED
  BY <1>2, <1>3, <1>4, <1>5, <1>6, <1>7, <1>8, <1>9, <1>10, <1>11, <1>12, <1>13 DEF Deploy

LEMMA ProgressOther ==
    ASSUME TypeInv, ProgressInv, NEW c \in Commands, Remove(c) \/ Recover(c) \/ Crash(c)
    PROVE  ProgressInv'
<1> USE DEF receipts
<1>1. PICK s \in Ended \cup RemoveSteps \cup RecoverSteps :
           Goto(c, s) /\ (pc[c] \notin CommitSteps \/ s \in Ended)
  <2>1. CASE Remove(c)
    BY <2>1
    DEF Remove, StartRemove, MayStart, RemoveLoad, RemoveCloud, RemoveCloudFails,
        RemoveDelete, RemoveDeleteFails, RemoveNothing, RemoveOrchestrations, AfterRemove,
        RemoveEnds, FirstRemoveStep, Ended, RemoveSteps,
        CommitSteps
  <2>2. CASE Recover(c)
    BY <2>2
    DEF Recover, StartRecover, MayStart, RecoverLock, RecoverRun, Ended, RecoverSteps,
        CommitSteps
  <2>3. CASE Crash(c)
    BY <2>3 DEF Crash, Ended
  <2> QED
    BY <2>1, <2>2, <2>3
<1>2. made \subseteq made' /\ UNCHANGED <<recorded, setting, disk>>
  <2>1. CASE Remove(c)
    BY <2>1
    DEF Remove, StartRemove, RemoveLoad, RemoveCloud, RemoveCloudFails, RemoveDelete,
        RemoveDeleteFails, RemoveNothing, RemoveOrchestrations
  <2>2. CASE Recover(c)
    BY <2>2 DEF Recover, StartRecover, RecoverLock, RecoverRun
  <2>3. CASE Crash(c)
    BY <2>3 DEF Crash
  <2> QED
    BY <2>1, <2>2, <2>3
<1> QED
  BY <1>1, <1>2, ProgressElsewhere, ProgressStep DEF Goto

LEMMA ProgressInvariant == Spec => []ProgressInv
<1>1. Init => ProgressInv
  BY DEF Init, ProgressInv, Progress, CompletedMeansDeployed, Fresh, DoneSteps,
         ReceiptedSteps, DeploySteps, CommitSteps
<1>2. TypeInv /\ ProgressInv /\ [Next]_vars => ProgressInv'
  <2> SUFFICES ASSUME TypeInv, ProgressInv, [Next]_vars PROVE ProgressInv'
    OBVIOUS
  <2>1. CASE Next
    BY <2>1, ProgressDeploy, ProgressOther DEF Next
  <2>2. CASE UNCHANGED vars
    BY <2>2 DEF vars, receipts, ProgressInv, Progress, CompletedMeansDeployed, Finished,
                ReceiptedSteps
  <2> QED
    BY <2>1, <2>2
<1> QED
  BY <1>1, <1>2, TypeInvariant, PTL DEF Spec

(* A journal on disk is completed only by a command that had the provider  *)
(* deploy and, for providers of the lifecycle, had its receipt saved:      *)
(* whatever crashes, fails or overlaps, and also for a resumed journal.    *)
THEOREM CompletedJournals == Spec => []CompletedMeansDeployed
<1>1. ProgressInv => CompletedMeansDeployed
  BY DEF ProgressInv
<1> QED
  BY <1>1, ProgressInvariant, PTL

-----------------------------------------------------------------------------
(* One command at a time                                                   *)

OneRunning == \A c, d \in Commands : Running(c) /\ Running(d) => c = d

Alone(c) ==
    /\ pc[c] \in DeploySteps /\ disk # None => proc[c].journal.version >= disk.version
    /\ kind[c] = "deploy" /\ pc[c] \in RemoveSteps \cup {"failed"} => c \in faulted
    /\ pc[c] \in DoneSteps => cloud = c
    /\ pc[c] \in ReceiptedSteps => receipt # None /\ receipt.dep = c
    /\ pc[c] \in {"head", "merged"} => proc[c].draft.dep = c

AloneInv == Serial => OneRunning /\ \A c \in Commands : Alone(c)

(* Only one command steps, and it is the only one running: the others have *)
(* ended, or not begun, and nothing is asked of them.                      *)
LEMMA AloneStep ==
    ASSUME TypeInv, AloneInv, Serial, NEW c \in Commands, NEW s, NEW m, Step(c, s, m),
           Running(c) \/ MayStart(c), UNCHANGED setting, faulted \subseteq faulted',
           \A d \in Commands \ {c} : kind'[d] = kind[d], Alone(c)'
    PROVE  AloneInv'
<1>1. \A d \in Commands \ {c} : pc'[d] = pc[d] /\ ~Running(d)
  BY StepEffect DEF TypeInv, AloneInv, OneRunning, MayStart, Serial
<1>2. OneRunning'
  BY <1>1 DEF OneRunning, Running
<1>3. ASSUME NEW d \in Commands \ {c} PROVE Alone(d)'
  <2>1. pc'[d] \notin Steps
    BY <1>1, <1>3 DEF Running
  <2>2. pc'[d] \notin DeploySteps \cup DoneSteps \cup RemoveSteps
    BY <2>1 DEF Steps, DeploySteps, CommitSteps, DoneSteps
  <2>3. pc'[d] \notin ReceiptedSteps' \cup {"head", "merged"}
    BY <2>2 DEF DeploySteps, CommitSteps, ReceiptedSteps
  <2>4. kind'[d] = "deploy" /\ pc'[d] = "failed" => d \in faulted'
    BY <1>1, <1>3 DEF AloneInv, Alone
  <2> QED
    BY <2>2, <2>3, <2>4 DEF Alone
<1> QED
  BY <1>2, <1>3 DEF AloneInv

(* A command that ends other than by failing unasked, or that removes or   *)
(* recovers: nothing is asked of it but the reason of a failure.           *)
LEMMA AloneElsewhere ==
    ASSUME TypeInv, NEW c \in Commands, NEW s \in Ended \cup RemoveSteps \cup RecoverSteps,
           NEW m, Step(c, s, m),
           kind'[c] = "deploy" /\ s \in RemoveSteps \cup {"failed"} => c \in faulted'
    PROVE  Alone(c)'
<1>1. pc'[c] = s
  BY StepEffect DEF TypeInv
<1>2. s \notin DeploySteps
  BY DEF Ended, RemoveSteps, RecoverSteps, DeploySteps, CommitSteps
<1>3. s \notin DoneSteps \cup {"head", "merged"} /\ s \notin ReceiptedSteps'
  BY <1>2 DEF DoneSteps, DeploySteps, CommitSteps, ReceiptedSteps
<1> QED
  BY <1>1, <1>2, <1>3 DEF Alone

LEMMA AloneDeploy ==
    ASSUME TypeInv, AloneInv, Serial, NEW c \in Commands, Deploy(c)
    PROVE  AloneInv'
<1>0. /\ TypeOK /\ MemoryOK /\ Alone(c) /\ proc[c] \in Process
      /\ pc[c] \in DeploySteps => proc[c].journal \in JournalFile /\ Running(c)
      /\ disk # None => disk \in JournalFile /\ disk.version \in Nat
  BY DEF TypeInv, TypeOK, AloneInv, MemoryOK, Running, Steps, JournalFile
<1> USE DEF receipts
<1>2. CASE StartDeploy(c)
  <2> DEFINE m == [Fresh EXCEPT !.journal = OpenDeployJournal(c)]
  <2>1. /\ Step(c, "attempt", m) /\ MayStart(c) /\ UNCHANGED <<disk, faulted, setting>>
        /\ \A d \in Commands \ {c} : kind'[d] = kind[d]
    BY <1>0, <1>2 DEF StartDeploy, TypeOK
  <2>2. disk # None => m.journal.version = disk.version
    BY <1>0 DEF Fresh, OpenDeployJournal, NewJournal
  <2> HIDE DEF m
  <2>3. pc'[c] = "attempt" /\ proc'[c] = m
    BY <1>0, <2>1, StepEffect DEF Ended
  <2>4. Alone(c)'
    BY <1>0, <2>1, <2>2, <2>3 DEF Alone, DoneSteps, ReceiptedSteps, RemoveSteps
  <2> QED
    BY <2>1, <2>4, AloneStep
<1>3. CASE JournalCheck(c)
  <2> DEFINE j == Commit(c, pc[c])
             m == [proc[c] EXCEPT !.journal = j, !.passed = Accepts(j)]
  <2>1. pc[c] \in CommitSteps /\ pc[c] \in DeploySteps
    BY <1>3 DEF JournalCheck, DeploySteps
  <2>2. j \in JournalFile /\ j.version = proc[c].journal.version + 1
    BY <1>0, <2>1, CommittedJournal
  <2>3. disk # None => j.version > disk.version
    BY <1>0, <2>1, <2>2 DEF Alone, JournalFile
  <2>4. Accepts(j)
    BY <2>3 DEF Accepts
  <2>5. Step(c, pc[c], m) /\ UNCHANGED <<disk, receipt, cloud, faulted, setting, kind>>
    BY <1>3, <2>4 DEF JournalCheck
  <2>6. m.journal = j
    BY <1>0 DEF Process
  <2> HIDE DEF j, m
  <2>7. pc'[c] = pc[c] /\ proc'[c] = m
    BY <1>0, <2>1, <2>5, StepEffect DEF CommitSteps, Ended
  <2>8. disk # None => j.version >= disk.version
    BY <1>0, <2>2, <2>3 DEF JournalFile
  <2>9. pc[c] \notin RemoveSteps \cup {"failed", "head", "merged"}
    BY <2>1 DEF CommitSteps, RemoveSteps
  <2>10. Alone(c)'
    BY <1>0, <2>5, <2>6, <2>7, <2>8, <2>9 DEF Alone, DoneSteps, ReceiptedSteps
  <2> QED
    BY <1>0, <2>1, <2>5, <2>10, AloneStep
<1>4. ASSUME NEW s \in DeploySteps \cup {"failed"}, NEW m,
             pc[c] \in CommitSteps, Step(c, s, m), m.journal = proc[c].journal,
             disk' \in {disk, proc[c].journal}, UNCHANGED <<receipt, cloud, setting, kind>>,
             faulted \subseteq faulted', s = "failed" => c \in faulted',
             s \in DoneSteps \cup ReceiptedSteps => pc[c] \in DoneSteps,
             s \in ReceiptedSteps => pc[c] \in ReceiptedSteps, s \notin {"head", "merged"}
      PROVE  AloneInv'
  <2>1. pc[c] \in DeploySteps /\ Running(c)
    BY <1>0, <1>4 DEF DeploySteps
  <2>2. CASE s = "failed"
    <3>1. Alone(c)'
      BY <1>4, <2>2, AloneElsewhere DEF Ended
    <3> QED
      BY <1>4, <2>1, <3>1, AloneStep
  <2>3. CASE s # "failed"
    <3>1. pc'[c] = s /\ proc'[c] = m /\ s \notin RemoveSteps
      BY <1>0, <1>4, <2>3, StepEffect DEF DeploySteps, CommitSteps, Ended, RemoveSteps
    <3>2. disk' # None => proc[c].journal.version >= disk'.version
      BY <1>0, <1>4, <2>1 DEF Alone, JournalFile
    <3>3. DoneSteps' = DoneSteps /\ ReceiptedSteps' = ReceiptedSteps
      BY <1>4 DEF DoneSteps, ReceiptedSteps
    <3>4. Alone(c)'
      BY <1>0, <1>4, <2>3, <3>1, <3>2, <3>3 DEF Alone
    <3> QED
      BY <1>4, <2>1, <3>4, AloneStep
  <2> QED
    BY <2>2, <2>3
<1>5. CASE JournalWrite(c)
  <2> DEFINE s == Following(c, pc[c])
             m == [proc[c] EXCEPT !.passed = FALSE]
  <2>1. /\ pc[c] \in CommitSteps /\ Step(c, s, m) /\ disk' = proc[c].journal
        /\ UNCHANGED <<receipt, cloud, setting, kind, faulted>>
    BY <1>5 DEF JournalWrite
  <2>2. m.journal = proc[c].journal
    BY <1>0 DEF Process
  <2>3. s \in DeploySteps \ {"head", "merge", "merged"}
    BY <2>1, FollowingCommit
  <2>4. /\ s \in DoneSteps \cup ReceiptedSteps => pc[c] \in DoneSteps
        /\ s \in ReceiptedSteps => pc[c] \in ReceiptedSteps
    BY <2>1, FollowingStep DEF AfterAttempt, CommitSteps, DoneSteps, ReceiptedSteps
  <2>5. s # "failed"
    BY <2>3 DEF DeploySteps, CommitSteps
  <2> HIDE DEF s, m
  <2> QED
    BY <1>4, <2>1, <2>2, <2>3, <2>4, <2>5
<1>6. CASE JournalWriteFails(c)
  <2> DEFINE s == AfterRejected(c, pc[c])
             m == [proc[c] EXCEPT !.passed = FALSE]
  <2>1. /\ pc[c] \in CommitSteps /\ Step(c, s, m) /\ faulted' = faulted \cup {c}
        /\ UNCHANGED <<disk, receipt, cloud, setting, kind>>
    BY <1>6 DEF JournalWriteFails, Fault
  <2>2. m.journal = proc[c].journal
    BY <1>0 DEF Process
  <2>3. s \in (DeploySteps \ {"head", "merge", "merged"}) \cup {"failed"}
    BY <2>1, FollowingCommit
  <2>4. /\ s \in DoneSteps \cup ReceiptedSteps => pc[c] \in DoneSteps
        /\ s \in ReceiptedSteps => pc[c] \in ReceiptedSteps
    BY <2>1, FollowingStep
    DEF AfterRejected, AfterAttempt, CommitSteps, DoneSteps, ReceiptedSteps
  <2> HIDE DEF s, m
  <2> QED
    BY <1>4, <2>1, <2>2, <2>3, <2>4
<1>7. CASE ProviderDeploys(c)
  <2>1. /\ Step(c, Following(c, "provider"), proc[c]) /\ cloud' = c /\ pc[c] = "provider"
        /\ UNCHANGED <<disk, receipt, setting, kind, faulted>>
    BY <1>7 DEF ProviderDeploys, Goto
  <2>2. Following(c, "provider") \in
          IF setting.dispatch = "lifecycle" THEN {"receipt"} ELSE {"done", "complete"}
    BY FollowingStep DEF AfterProvider
  <2>3. pc'[c] = Following(c, "provider") /\ proc'[c] = proc[c]
    BY <1>0, <2>1, <2>2, StepEffect DEF Ended
  <2>4. pc[c] \in DeploySteps
    BY <2>1 DEF DeploySteps
  <2>5. Alone(c)'
    BY <1>0, <2>1, <2>2, <2>3, <2>4 DEF Alone, ReceiptedSteps, RemoveSteps
  <2> QED
    BY <1>0, <2>1, <2>4, <2>5, AloneStep
<1>8. CASE ProviderFails(c)
  <2>1. /\ Step(c, "failed", proc[c]) /\ c \in faulted' /\ faulted \subseteq faulted'
        /\ UNCHANGED <<setting, kind>> /\ pc[c] \in DeploySteps
    BY <1>8 DEF ProviderFails, Goto, Fault, DeploySteps
  <2>2. Alone(c)'
    BY <2>1, AloneElsewhere DEF Ended
  <2> QED
    BY <1>0, <2>1, <2>2, AloneStep
<1>9. CASE SaveReceipt(c)
  <2> DEFINE m == [proc[c] EXCEPT !.draft = [dep |-> c, stamp |-> 0]]
  <2>1. /\ Step(c, "head", m) /\ pc[c] = "receipt" /\ pc[c] \in DeploySteps
        /\ UNCHANGED <<disk, receipt, cloud, setting, kind, faulted>>
    BY <1>9 DEF SaveReceipt, DeploySteps
  <2>2. m.draft.dep = c /\ m.journal = proc[c].journal
    BY <1>0 DEF Process
  <2> HIDE DEF m
  <2>3. pc'[c] = "head" /\ proc'[c] = m
    BY <1>0, <2>1, StepEffect DEF Ended
  <2>4. Alone(c)'
    BY <1>0, <2>1, <2>2, <2>3 DEF Alone, DoneSteps, ReceiptedSteps, RemoveSteps
  <2> QED
    BY <1>0, <2>1, <2>4, AloneStep
<1>10. CASE MergeOrchestrations(c)
  <2>1. /\ pc[c] = "merge" /\ pc[c] \in DeploySteps
        /\ UNCHANGED <<disk, receipt, cloud, setting, kind, faulted>>
    BY <1>10 DEF MergeOrchestrations, DeploySteps
  <2>2. receipt # None /\ receipt.dep = c
    BY <1>0, <2>1 DEF Alone, ReceiptedSteps
  <2>3. PICK t \in {0, 1} :
             Step(c, "merged", [proc[c] EXCEPT !.draft = [receipt EXCEPT !.stamp = t]])
    BY <1>10, <2>2 DEF MergeOrchestrations
  <2> DEFINE m == [proc[c] EXCEPT !.draft = [receipt EXCEPT !.stamp = t]]
  <2>4. m.draft = [receipt EXCEPT !.stamp = t] /\ m.journal = proc[c].journal
    BY <1>0 DEF Process
  <2>5. [receipt EXCEPT !.stamp = t].dep = c
    BY <1>0, <2>2 DEF TypeOK, Receipt
  <2> HIDE DEF m
  <2>6. pc'[c] = "merged" /\ proc'[c] = m
    BY <1>0, <2>3, StepEffect DEF Ended, m
  <2>7. Alone(c)'
    BY <1>0, <2>1, <2>2, <2>4, <2>5, <2>6 DEF Alone, DoneSteps, ReceiptedSteps, RemoveSteps
  <2> QED
    BY <1>0, <2>1, <2>3, <2>7, AloneStep
<1>11. CASE WriteHead(c)
  <2> DEFINE s == Following(c, pc[c])
  <2>1. /\ pc[c] \in {"head", "merged"} /\ Step(c, s, proc[c]) /\ receipt' = proc[c].draft
        /\ UNCHANGED <<disk, cloud, setting, kind, faulted>>
    BY <1>11 DEF WriteHead, Goto
  <2>2. s \in {"done", "complete", "merge", "health"}
    BY <2>1, FollowingStep DEF AfterProvider
  <2> HIDE DEF s
  <2>3. pc'[c] = s /\ proc'[c] = proc[c] /\ pc[c] \in DeploySteps
    BY <1>0, <2>1, <2>2, StepEffect DEF Ended, DeploySteps
  <2>4. receipt' # None /\ receipt'.dep = c
    <3>1. proc[c].draft \in Receipt /\ proc[c].draft.dep = c
      BY <1>0, <2>1 DEF Alone, MemoryOK
    <3>2. proc[c].draft # None
      BY <3>1, NoReceiptAssumption
    <3> QED
      BY <2>1, <3>1, <3>2
  <2>5. cloud' = c
    BY <1>0, <2>1 DEF Alone, DoneSteps
  <2>6. Alone(c)'
    BY <1>0, <2>1, <2>2, <2>3, <2>4, <2>5 DEF Alone, RemoveSteps
  <2> QED
    BY <1>0, <2>1, <2>3, <2>6, AloneStep
<1>12. CASE WriteHeadFails(c)
  <2>1. /\ pc[c] \in {"head", "merged"} /\ c \in faulted' /\ faulted \subseteq faulted'
        /\ Step(c, IF pc[c] = "merged" THEN "health" ELSE "failed", proc[c])
        /\ UNCHANGED <<disk, receipt, cloud, setting, kind>> /\ pc[c] \in DeploySteps
    BY <1>12 DEF WriteHeadFails, Goto, Fault, DeploySteps
  <2>2. CASE pc[c] = "head"
    <3>1. Alone(c)'
      BY <2>1, <2>2, AloneElsewhere DEF Ended
    <3> QED
      BY <1>0, <2>1, <3>1, AloneStep
  <2>3. CASE pc[c] = "merged"
    <3>1. pc'[c] = "health" /\ proc'[c] = proc[c]
      BY <1>0, <2>1, <2>3, StepEffect DEF Ended
    <3>2. Alone(c)'
      BY <1>0, <2>1, <2>3, <3>1 DEF Alone, DoneSteps, ReceiptedSteps, RemoveSteps
    <3> QED
      BY <1>0, <2>1, <3>2, AloneStep
  <2> QED
    BY <2>1, <2>2, <2>3
<1>13. CASE HealthCheckPasses(c) \/ HealthCheckFails(c)
  <2>1. PICK s \in {"ok", "failed", "rm_load", "rm_cloud"} :
             Goto(c, s) /\ (s # "ok" => c \in faulted')
    BY <1>13 DEF HealthCheckPasses, HealthCheckFails, FirstRemoveStep, Fault
  <2>2. pc[c] \in DeploySteps /\ UNCHANGED <<kind, setting>> /\ faulted \subseteq faulted'
    BY <1>13 DEF HealthCheckPasses, HealthCheckFails, DeploySteps, Fault
  <2>3. Alone(c)'
    BY <2>1, AloneElsewhere DEF Goto, Ended, RemoveSteps
  <2> QED
    BY <1>0, <2>1, <2>2, <2>3, AloneStep DEF Goto
<1>14. CASE SyncOrchestrationsFails(c)
  <2>1. /\ Step(c, "failed", proc[c]) /\ c \in faulted' /\ faulted \subseteq faulted'
        /\ UNCHANGED <<setting, kind>> /\ pc[c] \in DeploySteps
    BY <1>14 DEF SyncOrchestrationsFails, Goto, Fault, DeploySteps
  <2>2. Alone(c)'
    BY <2>1, AloneElsewhere DEF Ended
  <2> QED
    BY <1>0, <2>1, <2>2, AloneStep
<1> QED
  BY <1>2, <1>3, <1>5, <1>6, <1>7, <1>8, <1>9, <1>10, <1>11, <1>12, <1>13, <1>14 DEF Deploy

LEMMA AloneOther ==
    ASSUME TypeInv, AloneInv, Serial, NEW c \in Commands, Remove(c) \/ Recover(c) \/ Crash(c)
    PROVE  AloneInv'
<1>0. /\ TypeOK /\ MemoryOK /\ Alone(c)
      /\ pc[c] \in RemoveSteps \cup RecoverSteps => Running(c)
  BY DEF TypeInv, AloneInv, Running, Steps
<1> USE DEF receipts
<1>1. ASSUME NEW k \in {"remove", "rollback", "resume"}, MayStart(c),
             NEW s \in RemoveSteps \cup RecoverSteps \cup Ended, Goto(c, s),
             kind' = [kind EXCEPT ![c] = k], UNCHANGED <<setting, faulted>>
      PROVE  AloneInv'
  <2>1. kind'[c] = k /\ \A d \in Commands \ {c} : kind'[d] = kind[d]
    BY <1>0, <1>1 DEF TypeOK
  <2>2. Alone(c)'
    BY <1>1, <2>1, AloneElsewhere DEF Goto
  <2> QED
    BY <1>1, <2>1, <2>2, AloneStep DEF Goto
<1>2. ASSUME NEW s \in RemoveSteps \cup RecoverSteps \cup Ended, Goto(c, s), Running(c),
             UNCHANGED <<kind, setting>>, faulted \subseteq faulted',
             kind[c] = "deploy" /\ s \in RemoveSteps \cup {"failed"} => c \in faulted'
      PROVE  AloneInv'
  <2>1. Alone(c)'
    BY <1>2, AloneElsewhere DEF Goto
  <2> QED
    BY <1>2, <2>1, AloneStep DEF Goto
<1>3. CASE Remove(c)
  <2>1. CASE StartRemove(c)
    BY <1>1, <2>1 DEF StartRemove, FirstRemoveStep, RemoveSteps
  <2>2. CASE ~StartRemove(c)
    <3>1. pc[c] \in RemoveSteps /\ UNCHANGED <<kind, setting>> /\ faulted \subseteq faulted'
      BY <1>3, <2>2
      DEF Remove, RemoveLoad, RemoveCloud, RemoveCloudFails, RemoveDelete,
          RemoveDeleteFails, RemoveNothing, RemoveOrchestrations, RemoveSteps, Fault
    <3>2. PICK s \in RemoveSteps \cup Ended : Goto(c, s)
      BY <1>3, <2>2
      DEF Remove, RemoveLoad, RemoveCloud, RemoveCloudFails, RemoveDelete,
          RemoveDeleteFails, RemoveNothing, RemoveOrchestrations, AfterRemove,
          RemoveEnds, RemoveSteps, Ended
    <3>3. kind[c] = "deploy" => c \in faulted'
      BY <1>0, <3>1 DEF Alone
    <3> QED
      BY <1>0, <1>2, <3>1, <3>2, <3>3
  <2> QED
    BY <2>1, <2>2
<1>4. CASE Recover(c)
  <2>1. ASSUME NEW mode \in {"rollback", "resume"}, StartRecover(c, mode) PROVE AloneInv'
    <3>1. PICK s \in {"ok", "archived", "rc_lock"} : Goto(c, s)
      BY <2>1 DEF StartRecover
    <3> QED
      BY <1>1, <2>1, <3>1 DEF StartRecover, Ended, RecoverSteps
  <2>2. CASE RecoverLock(c) \/ RecoverRun(c)
    <3>1. pc[c] \in RecoverSteps /\ UNCHANGED <<kind, setting, faulted>>
      BY <2>2 DEF RecoverLock, RecoverRun, RecoverSteps
    <3>2. PICK s \in RecoverSteps \cup Ended : Goto(c, s)
      BY <2>2 DEF RecoverLock, RecoverRun, RecoverSteps, Ended
    <3>3. kind[c] # "deploy"
      BY <1>0, <3>1 DEF MemoryOK
    <3> QED
      BY <1>0, <1>2, <3>1, <3>2, <3>3
  <2> QED
    BY <1>4, <2>1, <2>2 DEF Recover
<1>5. CASE Crash(c)
  BY <1>2, <1>5 DEF Crash, Fault, Ended
<1> QED
  BY <1>3, <1>4, <1>5

(* How commands are dispatched and overlap never changes.                  *)
LEMMA SettingStays ==
    ASSUME NEW c \in Commands, Deploy(c) \/ Remove(c) \/ Recover(c) \/ Crash(c)
    PROVE  UNCHANGED setting
<1>1. CASE Deploy(c)
  BY <1>1
  DEF Deploy, StartDeploy, JournalCheck, JournalWrite, JournalWriteFails,
      ProviderDeploys, ProviderFails, SaveReceipt, MergeOrchestrations,
      SyncOrchestrationsFails, WriteHead, WriteHeadFails, HealthCheckPasses,
      HealthCheckFails
<1>2. CASE Remove(c)
  BY <1>2
  DEF Remove, StartRemove, RemoveLoad, RemoveCloud, RemoveCloudFails, RemoveDelete,
      RemoveDeleteFails, RemoveNothing, RemoveOrchestrations
<1>3. CASE Recover(c) \/ Crash(c)
  BY <1>3 DEF Recover, StartRecover, RecoverLock, RecoverRun, Crash
<1> QED
  BY <1>1, <1>2, <1>3

LEMMA AloneInvariant == Spec => []AloneInv
<1>1. Init => AloneInv
  BY DEF Init, AloneInv, OneRunning, Alone, Running, Steps, DeploySteps, CommitSteps,
         RemoveSteps, RecoverSteps, DoneSteps, ReceiptedSteps
<1>2. TypeInv /\ AloneInv /\ [Next]_vars => AloneInv'
  <2> SUFFICES ASSUME TypeInv, AloneInv, [Next]_vars, Serial' PROVE AloneInv'
    BY DEF AloneInv
  <2>1. CASE Next
    <3>1. PICK c \in Commands : Deploy(c) \/ Remove(c) \/ Recover(c) \/ Crash(c)
      BY <2>1 DEF Next
    <3>2. UNCHANGED setting
      BY <3>1, SettingStays
    <3>3. Serial
      BY <3>2 DEF Serial
    <3> QED
      BY <3>1, <3>3, AloneDeploy, AloneOther
  <2>2. CASE UNCHANGED vars
    BY <2>2 DEF vars, receipts, AloneInv, OneRunning, Alone, Running, Serial,
                ReceiptedSteps
  <2> QED
    BY <2>1, <2>2
<1> QED
  BY <1>1, <1>2, TypeInvariant, PTL DEF Spec

(* Nothing an earlier command left behind, in the journal, the receipt or  *)
(* the lock, makes a deploy fail that runs alone: openDeployJournal starts *)
(* above whatever version is on disk, so no checkpoint is rejected.        *)
THEOREM LeftoversHarmless == Spec => []LeftoversNeverBlock
<1>1. AloneInv => LeftoversNeverBlock
  BY DEF AloneInv, Alone, LeftoversNeverBlock
<1> QED
  BY <1>1, AloneInvariant, PTL

(* A deploy succeeds by its health check and in no other way.              *)
LEMMA SuccessIsHealthy ==
    ASSUME TypeInv, NEW c \in Commands, kind[c] = "deploy", pc[c] # "ok", pc'[c] = "ok",
           Deploy(c) \/ Remove(c) \/ Recover(c) \/ Crash(c)
    PROVE  HealthCheckPasses(c)
<1>0. TypeOK /\ MemoryOK /\ pc[c] # "idle"
  BY NoneAssumption DEF TypeInv, MemoryOK, Kinds
<1>1. ASSUME NEW s, NEW m, Step(c, s, m) PROVE s = "ok"
  BY <1>0, <1>1, StepEffect
<1>2. ASSUME NEW s \in DeploySteps \cup {"failed", "crashed"} PROVE s # "ok"
  BY DEF DeploySteps, CommitSteps
<1> USE DEF receipts
<1>3. ~(StartDeploy(c) \/ StartRemove(c) \/ \E mode : StartRecover(c, mode))
  BY <1>0 DEF StartDeploy, StartRemove, StartRecover, MayStart
<1>4. ~JournalCheck(c)
  <2> SUFFICES ASSUME JournalCheck(c) PROVE FALSE
    OBVIOUS
  <2>1. PICK s, m : s \in {pc[c], AfterRejected(c, pc[c])} /\ Step(c, s, m)
    BY DEF JournalCheck
  <2>2. s \in DeploySteps \cup {"failed"}
    BY <2>1, FollowingCommit DEF JournalCheck, DeploySteps
  <2> QED
    BY <1>1, <1>2, <2>1, <2>2
<1>5. ~JournalWrite(c) /\ ~JournalWriteFails(c)
  BY <1>1, <1>2, FollowingCommit DEF JournalWrite, JournalWriteFails
<1>6. ~ProviderDeploys(c) /\ ~ProviderFails(c) /\ ~SaveReceipt(c) /\ ~WriteHead(c)
  BY <1>1, <1>2, FollowingWrite
  DEF ProviderDeploys, ProviderFails, SaveReceipt, WriteHead, Goto
<1>7. ~MergeOrchestrations(c) /\ ~SyncOrchestrationsFails(c) /\ ~WriteHeadFails(c)
  BY <1>1 DEF MergeOrchestrations, SyncOrchestrationsFails, WriteHeadFails, Goto
<1>8. ~HealthCheckFails(c)
  BY <1>1 DEF HealthCheckFails, FirstRemoveStep, Goto
<1>9. ~(RemoveLoad(c) \/ RemoveCloud(c) \/ RemoveCloudFails(c) \/ RemoveDelete(c)
        \/ RemoveDeleteFails(c) \/ RemoveNothing(c) \/ RemoveOrchestrations(c))
  BY <1>1
  DEF RemoveLoad, RemoveCloud, RemoveCloudFails, RemoveDelete, RemoveDeleteFails,
      RemoveNothing, RemoveOrchestrations, AfterRemove, RemoveEnds, Goto
<1>10. ~RecoverLock(c) /\ ~RecoverRun(c)
  BY <1>0 DEF RecoverLock, RecoverRun, MemoryOK, RecoverSteps
<1>11. ~Crash(c)
  BY <1>1 DEF Crash, Goto
<1> QED
  BY <1>3, <1>4, <1>5, <1>6, <1>7, <1>8, <1>9, <1>10, <1>11 DEF Deploy, Remove, Recover

(* A deploy that runs alone and reports success left its own deployment    *)
(* live, and the receipt names it.                                         *)
THEOREM SuccessIsRecorded == Spec => AckedDeployRecorded
<1> DEFINE Acked(c) ==
      Serial /\ kind[c] = "deploy" /\ pc[c] # "ok" /\ pc'[c] = "ok" =>
         cloud' = c /\ receipt' # None /\ receipt'.dep = c
<1>1. TypeInv /\ AloneInv /\ [Next]_vars => [\A c \in Commands : Acked(c)]_vars
  <2> SUFFICES ASSUME TypeInv, AloneInv, Next, NEW c \in Commands, Serial,
                      kind[c] = "deploy", pc[c] # "ok", pc'[c] = "ok"
               PROVE  cloud' = c /\ receipt' # None /\ receipt'.dep = c
    OBVIOUS
  <2>0. TypeOK /\ MemoryOK /\ Alone(c) /\ pc[c] # "idle"
    BY NoneAssumption DEF TypeInv, AloneInv, MemoryOK, Kinds
  <2>1. PICK d \in Commands : Deploy(d) \/ Remove(d) \/ Recover(d) \/ Crash(d)
    BY DEF Next
  <2> USE DEF receipts
  <2>2. PICK s, m : Step(d, s, m)
    BY <2>1
    DEF Deploy, StartDeploy, JournalCheck, JournalWrite, JournalWriteFails,
        ProviderDeploys, ProviderFails, SaveReceipt, MergeOrchestrations, SyncOrchestrationsFails, WriteHead,
        WriteHeadFails, HealthCheckPasses, HealthCheckFails, Remove, StartRemove,
        RemoveLoad, RemoveCloud, RemoveCloudFails, RemoveDelete, RemoveDeleteFails,
        RemoveNothing, RemoveOrchestrations, Recover, StartRecover, RecoverLock, RecoverRun, Crash, Goto
  <2>3. d = c
    BY <2>0, <2>2, StepEffect
  <2>4. HealthCheckPasses(c)
    BY <2>1, <2>3, SuccessIsHealthy
  <2>5. cloud = c /\ receipt # None /\ receipt.dep = c
    BY <2>0, <2>4 DEF HealthCheckPasses, Alone, DoneSteps, ReceiptedSteps
  <2> QED
    BY <2>4, <2>5 DEF HealthCheckPasses
<1>2. Spec => [][\A c \in Commands : Acked(c)]_vars
  BY <1>1, TypeInvariant, AloneInvariant, PTL DEF Spec
<1> QED
  BY <1>2 DEF AckedDeployRecorded
-----------------------------------------------------------------------------
(* The release history                                                     *)

(* Steps of a command whose receipt has not been at the head yet.          *)
UnsavedSteps ==
    {"idle", "attempt", "begin", "provider", "receipt", "head"} \cup
    IF setting.dispatch = "api" THEN {"done", "complete"} ELSE {}

InHistory(dep) == \E i \in DOMAIN history : history[i].dep = dep

(* The release the head replaced is followed by snapshots of the head      *)
(* only, and by at most two of them, which differ in their stamp.          *)
Trail(i) ==
    /\ history[i].dep = prior
    /\ Len(history) <= i + 2
    /\ \A j \in DOMAIN history : j > i => history[j].dep = receipt.dep
    /\ Len(history) = i + 2 => history[i + 1].stamp # history[i + 2].stamp

Known ==
    /\ \A i \in DOMAIN history : history[i].dep \in recorded
    /\ receipt # None => receipt.dep \in recorded

HeadLast ==
    receipt # None /\ InHistory(receipt.dep) =>
        history[Len(history)].dep = receipt.dep

PriorKept ==
    prior # None =>
        /\ receipt # None /\ receipt.dep # prior
        /\ prior \in missed \/ \E i \in DOMAIN history : Trail(i)

Saving(c) ==
    /\ pc[c] \in UnsavedSteps => c \notin recorded
    /\ pc[c] = "head" /\ receipt # None =>
          InHistory(receipt.dep) \/ receipt.dep \in missed

ReleaseInv ==
    Serial => /\ Known /\ HeadLast /\ PriorKept
              /\ \A c \in Commands : Saving(c)

(* The history gets the head appended and loses its k oldest entries.      *)
Pushed(k) ==
    /\ k = 1 => Len(history) >= 3
    /\ history' \in Seq(Receipt) /\ Len(history') = Len(history) + 1 - k
    /\ history'[Len(history')] = receipt
    /\ \A i \in 1..(Len(history) - k) : history'[i] = history[i + k]

(* A snapshot leaves the history alone, or appends the head and drops at   *)
(* most one entry, none from a short history.                              *)
LEMMA SnapshotShape ==
    ASSUME TypeOK, MaxHistory >= 3, history' = Snapshot
    PROVE  \/ /\ history' = history
              /\ receipt # None => \E i \in DOMAIN history : history[i] = receipt
           \/ /\ receipt \in Receipt
              /\ \A i \in DOMAIN history : history[i] # receipt
              /\ \E k \in {0, 1} : Pushed(k)
<1> DEFINE kept == Append(history, receipt)
<1>1. CASE receipt = None \/ \E i \in DOMAIN history : history[i] = receipt
  BY <1>1 DEF Snapshot
<1>2. CASE receipt # None /\ \A i \in DOMAIN history : history[i] # receipt
  <2>1. receipt \in Receipt /\ history \in Seq(Receipt)
    BY <1>2 DEF TypeOK
  <2>2. /\ kept \in Seq(Receipt) /\ Len(kept) = Len(history) + 1
        /\ kept[Len(history) + 1] = receipt
        /\ \A i \in 1..Len(history) : kept[i] = history[i]
    BY <2>1
  <2>3. history' = IF Len(kept) > MaxHistory THEN Tail(kept) ELSE kept
    BY <1>2 DEF Snapshot
  <2>4. Len(history) \in Nat
    BY <2>1
  <2> HIDE DEF kept
  <2>5. CASE ~(Len(kept) > MaxHistory)
    <3>1. history' = kept
      BY <2>3, <2>5
    <3>2. Pushed(0)
      BY <2>2, <2>4, <3>1 DEF Pushed
    <3> QED
      BY <1>2, <2>1, <3>2
  <2>6. CASE Len(kept) > MaxHistory
    <3>1. history' = Tail(kept)
      BY <2>3, <2>6
    <3>2. Len(history) >= 3
      BY <2>2, <2>4, <2>6, LimitsAssumption
    <3>3. /\ Tail(kept) \in Seq(Receipt) /\ Len(Tail(kept)) = Len(kept) - 1
          /\ \A i \in 1..(Len(kept) - 1) : Tail(kept)[i] = kept[i + 1]
      BY <2>2, <2>4, <3>2
    <3>4. /\ Len(history') = Len(history) /\ history'[Len(history')] = receipt
          /\ \A i \in 1..(Len(history) - 1) : history'[i] = history[i + 1]
      BY <2>2, <2>4, <3>1, <3>2, <3>3
    <3>5. Pushed(1)
      BY <2>4, <3>1, <3>2, <3>3, <3>4 DEF Pushed
    <3> QED
      BY <1>2, <2>1, <3>5
  <2> QED
    BY <2>5, <2>6
<1> QED
  BY <1>1, <1>2

(* A snapshot keeps the release that the head replaced.                    *)
LEMMA SnapshotKeeps ==
    ASSUME TypeOK, MaxHistory >= 3, Known, HeadLast, PriorKept,
           history' = Snapshot, UNCHANGED <<receipt, recorded, prior>>,
           missed \ {receipt.dep} \subseteq missed'
    PROVE  /\ Known' /\ HeadLast' /\ PriorKept'
           /\ receipt # None => InHistory(receipt.dep)'
<1>1. CASE /\ history' = history
           /\ receipt # None => \E i \in DOMAIN history : history[i] = receipt
  BY <1>1 DEF Known, HeadLast, PriorKept, InHistory, Trail
<1>2. CASE /\ receipt \in Receipt
           /\ \A i \in DOMAIN history : history[i] # receipt
           /\ \E k \in {0, 1} : Pushed(k)
  <2>0. PICK k \in {0, 1} : Pushed(k)
    BY <1>2
  <2>1. /\ k = 1 => Len(history) >= 3
        /\ history' \in Seq(Receipt) /\ Len(history') = Len(history) + 1 - k
        /\ history'[Len(history')] = receipt
        /\ \A i \in 1..(Len(history) - k) : history'[i] = history[i + k]
    BY <2>0 DEF Pushed
  <2> DEFINE n == Len(history)
             m == Len(history')
  <2>2. /\ history \in Seq(Receipt) /\ n \in Nat /\ DOMAIN history = 1..n
        /\ DOMAIN history' = 1..m /\ receipt # None
    BY <1>2, <2>1, NoReceiptAssumption DEF TypeOK
  <2>3. m \in 1..m /\ m = n + 1 - k
    BY <2>1, <2>2
  <2> HIDE DEF n, m
  <2>4. Known'
    <3>1. ASSUME NEW i \in 1..m PROVE history'[i].dep \in recorded
      <4>1. CASE i = m
        BY <2>1, <2>2, <4>1 DEF Known, m
      <4>2. CASE i # m
        <5>1. i \in 1..(n - k) /\ i + k \in 1..n
          BY <2>2, <2>3, <4>2
        <5> QED
          BY <2>1, <2>2, <5>1 DEF Known, n
      <4> QED
        BY <4>1, <4>2
    <3> QED
      BY <2>2, <3>1 DEF Known
  <2>5. HeadLast'
    BY <2>1 DEF HeadLast
  <2>6. InHistory(receipt.dep)'
    BY <2>1, <2>2, <2>3 DEF InHistory, m
  <2>7. PriorKept'
    <3> SUFFICES ASSUME prior # None, prior \notin missed
                 PROVE  \E i \in DOMAIN history' : Trail(i)'
      BY <2>2 DEF PriorKept
    <3>1. PICK i \in 1..n : Trail(i)
      BY <2>2 DEF PriorKept
    <3>2. n <= i + 1
      <4> SUFFICES ASSUME n = i + 2 PROVE FALSE
        BY <2>2, <3>1 DEF Trail, n
      <4>1. /\ i + 1 \in 1..n /\ i + 2 \in 1..n
            /\ history[i + 1] \in Receipt /\ history[i + 2] \in Receipt
        BY <2>2 DEF n
      <4>2. /\ history[i + 1].dep = receipt.dep /\ history[i + 2].dep = receipt.dep
            /\ history[i + 1].stamp # history[i + 2].stamp
        BY <2>2, <3>1, <4>1 DEF Trail, n
      <4>3. history[i + 1] # receipt /\ history[i + 2] # receipt
        BY <1>2, <2>2, <4>1
      <4> QED
        BY <1>2, <4>1, <4>2, <4>3 DEF Receipt
    <3>3. i - k \in 1..(n - k) /\ i - k \in 1..m
      BY <2>1, <2>2, <2>3, <3>2 DEF n
    <3>4. history'[i - k] = history[i]
      BY <2>1, <2>2, <3>3 DEF n
    <3>5. ASSUME NEW j \in 1..m, j > i - k PROVE history'[j].dep = receipt.dep
      <4>1. CASE j = m
        BY <2>1, <4>1 DEF m
      <4>2. CASE j # m
        <5>1. j \in 1..(n - k) /\ j + k \in 1..n /\ j + k > i
          BY <2>2, <2>3, <3>5, <4>2
        <5> QED
          BY <2>1, <2>2, <3>1, <5>1 DEF Trail, n
      <4> QED
        BY <4>1, <4>2
    <3>6. m <= (i - k) + 2
      BY <2>2, <2>3, <3>2
    <3>7. ASSUME m = (i - k) + 2
          PROVE  history'[(i - k) + 1].stamp # history'[(i - k) + 2].stamp
      <4>1. /\ n = i + 1 /\ (i - k) + 1 \in 1..(n - k) /\ i + 1 \in 1..n
            /\ ((i - k) + 1) + k = i + 1
        BY <2>2, <2>3, <3>3, <3>7
      <4>2. history'[(i - k) + 1] = history[i + 1] /\ history'[(i - k) + 2] = receipt
        BY <2>1, <3>7, <4>1 DEF n, m
      <4>3. /\ history[i + 1] \in Receipt /\ history[i + 1].dep = receipt.dep
            /\ history[i + 1] # receipt
        BY <1>2, <2>2, <3>1, <4>1 DEF Trail
      <4>4. history[i + 1].stamp # receipt.stamp
        BY <1>2, <4>3 DEF Receipt
      <4> QED
        BY <4>2, <4>4
    <3>8. Trail(i - k)'
      BY <2>2, <3>1, <3>4, <3>5, <3>6, <3>7 DEF Trail, m
    <3> QED
      BY <2>2, <3>3, <3>8
  <2> QED
    BY <2>4, <2>5, <2>6, <2>7
<1> QED
  BY <1>1, <1>2, SnapshotShape

(* A step that touches neither receipts nor history, and that does not     *)
(* lead back to before the receipt.                                        *)
LEMMA ReleaseFrame ==
    ASSUME TypeInv, ReleaseInv, NEW c \in Commands, NEW s, NEW m, Step(c, s, m),
           UNCHANGED <<setting, receipts>>, s # "head",
           s \in UnsavedSteps => pc[c] \in UnsavedSteps
    PROVE  ReleaseInv'
<1> SUFFICES ASSUME Serial PROVE ReleaseInv'
  BY DEF ReleaseInv, Serial
<1>1. pc'[c] = s /\ \A d \in Commands \ {c} : pc'[d] = pc[d]
  BY StepEffect DEF TypeInv
<1>2. UNCHANGED <<receipt, history, recorded, prior, missed>> /\ UnsavedSteps' = UnsavedSteps
  BY DEF receipts, UnsavedSteps
<1>3. Known' /\ HeadLast' /\ PriorKept'
  BY <1>2 DEF ReleaseInv, Known, HeadLast, PriorKept, Trail, InHistory
<1>4. \A d \in Commands : Saving(d)'
  BY <1>1, <1>2 DEF ReleaseInv, Saving, InHistory
<1> QED
  BY <1>3, <1>4 DEF ReleaseInv

LEMMA ReleaseDeploy ==
    ASSUME TypeInv, AloneInv, ReleaseInv, MaxHistory >= 3, NEW c \in Commands, Deploy(c),
           Serial
    PROVE  ReleaseInv'
<1>0. /\ TypeOK /\ MemoryOK /\ Alone(c) /\ Saving(c) /\ Known /\ HeadLast /\ PriorKept
      /\ \A d \in Commands : Saving(d)
  BY DEF TypeInv, AloneInv, ReleaseInv
<1>d. setting.dispatch \in {"api", "lifecycle"}
  BY <1>0, SettingsAssumption DEF TypeOK, SettingType
<1>1. CASE StartDeploy(c)
  BY <1>1, ReleaseFrame DEF StartDeploy, MayStart, UnsavedSteps
<1>2. CASE JournalCheck(c)
  <2>1. PICK s, m : /\ s \in {pc[c], AfterRejected(c, pc[c])} /\ Step(c, s, m)
                    /\ pc[c] \in CommitSteps
    BY <1>2 DEF JournalCheck
  <2>2. s # "head" /\ (s \in UnsavedSteps => pc[c] \in UnsavedSteps)
    BY <1>d, <2>1, FollowingStep
    DEF AfterRejected, AfterAttempt, CommitSteps, UnsavedSteps
  <2> QED
    BY <1>2, <2>1, <2>2, ReleaseFrame DEF JournalCheck
<1>3. CASE JournalWrite(c) \/ JournalWriteFails(c)
  <2>1. PICK s, m : /\ s \in {Following(c, pc[c]), AfterRejected(c, pc[c])}
                    /\ Step(c, s, m) /\ pc[c] \in CommitSteps
    BY <1>3 DEF JournalWrite, JournalWriteFails
  <2>2. s # "head" /\ (s \in UnsavedSteps => pc[c] \in UnsavedSteps)
    BY <1>d, <2>1, FollowingStep
    DEF AfterRejected, AfterAttempt, CommitSteps, UnsavedSteps
  <2> QED
    BY <1>3, <2>1, <2>2, ReleaseFrame DEF JournalWrite, JournalWriteFails
<1>4. CASE ProviderDeploys(c) \/ ProviderFails(c)
  <2>1. PICK s : s \in {Following(c, "provider"), "failed"} /\ Goto(c, s)
    BY <1>4 DEF ProviderDeploys, ProviderFails
  <2>2. s # "head" /\ pc[c] \in UnsavedSteps
    BY <1>4, <2>1, FollowingStep
    DEF ProviderDeploys, ProviderFails, AfterProvider, UnsavedSteps
  <2> QED
    BY <1>4, <2>1, <2>2, ReleaseFrame DEF ProviderDeploys, ProviderFails, Goto
<1>5. CASE SaveReceipt(c) \/ MergeOrchestrations(c)
  <2>0. /\ UNCHANGED <<setting, receipt, recorded, prior>>
        /\ SnapshotHistory \/ (UNCHANGED <<history, missed>> /\ Goto(c, "health"))
    BY <1>5 DEF SaveReceipt, MergeOrchestrations
  <2>1. CASE SnapshotHistory
    <3>1. /\ Known' /\ HeadLast' /\ PriorKept'
          /\ receipt # None => InHistory(receipt.dep)' \/ receipt.dep \in missed'
      <4>1. CASE history' = Snapshot /\ missed \ {receipt.dep} \subseteq missed'
        BY <1>0, <2>0, <4>1, SnapshotKeeps
      <4>2. CASE /\ receipt # None /\ history' = history
                 /\ missed' = missed \cup {receipt.dep}
        BY <1>0, <2>0, <4>2 DEF Known, HeadLast, PriorKept, Trail, InHistory
      <4> QED
        BY <2>1, <4>1, <4>2 DEF SnapshotHistory
    <3>3. PICK s, m : /\ Step(c, s, m)
                      /\ s \in UnsavedSteps => pc[c] \in UnsavedSteps
      BY <1>5 DEF SaveReceipt, MergeOrchestrations, UnsavedSteps, Goto
    <3>4. pc'[c] = s /\ \A d \in Commands \ {c} : pc'[d] = pc[d]
      BY <1>0, <3>3, StepEffect
    <3>5. \A d \in Commands : Saving(d)'
      BY <1>0, <2>0, <3>1, <3>3, <3>4 DEF Saving, UnsavedSteps, InHistory
    <3> QED
      BY <3>1, <3>5 DEF ReleaseInv
  <2>2. CASE UNCHANGED <<history, missed>> /\ Goto(c, "health")
    BY <2>0, <2>2, ReleaseFrame DEF Goto, UnsavedSteps, receipts
  <2> QED
    BY <2>0, <2>1, <2>2
<1>6. CASE SyncOrchestrationsFails(c) \/ WriteHeadFails(c)
  BY <1>6, ReleaseFrame
  DEF SyncOrchestrationsFails, WriteHeadFails, Goto, UnsavedSteps
<1>7. CASE WriteHead(c)
  <2> DEFINE new == proc[c].draft
  <2>1. /\ pc[c] \in {"head", "merged"} /\ receipt' = new
        /\ recorded' = recorded \cup {new.dep}
        /\ prior' = IF receipt # None /\ receipt.dep # new.dep THEN receipt.dep ELSE prior
        /\ Goto(c, Following(c, pc[c])) /\ UNCHANGED <<setting, history, missed>>
    BY <1>7 DEF WriteHead
  <2>2. new.dep = c /\ new # None
    BY <1>0, <2>1, NoReceiptAssumption DEF Alone, MemoryOK
  <2> HIDE DEF new
  <2>3. Known'
    BY <1>0, <2>1, <2>2 DEF Known
  <2>4. /\ pc'[c] = Following(c, pc[c]) /\ \A d \in Commands \ {c} : pc'[d] = pc[d]
    BY <1>0, <2>1, StepEffect DEF Goto
  <2>5. Following(c, pc[c]) \notin UnsavedSteps
    BY <2>1, FollowingStep DEF AfterProvider, UnsavedSteps
  <2>6. \A d \in Commands \ {c} : pc[d] # "head"
    BY <2>1 DEF AloneInv, OneRunning, Running, Steps, DeploySteps
  <2>7. \A d \in Commands : Saving(d)'
    BY <1>0, <2>1, <2>2, <2>4, <2>5, <2>6 DEF Saving, UnsavedSteps
  <2>8. CASE pc[c] = "head"
    <3>1. c \notin recorded
      BY <1>0, <2>8 DEF Saving, UnsavedSteps
    <3>2. ~InHistory(c)
      BY <1>0, <3>1 DEF Known, InHistory
    <3>3. HeadLast'
      BY <2>1, <2>2, <3>2 DEF HeadLast, InHistory
    <3>4. PriorKept'
      <4>1. CASE receipt = None
        BY <1>0, <2>1, <4>1 DEF PriorKept
      <4>2. CASE receipt # None /\ receipt.dep \in missed
        <5>1. prior' = receipt.dep /\ receipt.dep # c
          BY <1>0, <2>1, <2>2, <3>1, <4>2 DEF Known
        <5> QED
          BY <2>1, <2>2, <4>2, <5>1 DEF PriorKept
      <4>3. CASE receipt # None /\ receipt.dep \notin missed
        <5>1. prior' = receipt.dep /\ receipt.dep # c
          BY <1>0, <2>1, <2>2, <3>1, <4>3 DEF Known
        <5>2. PICK i \in DOMAIN history : history[i].dep = receipt.dep
          BY <1>0, <2>8, <4>3 DEF Saving, InHistory
        <5>3. /\ Len(history) \in DOMAIN history /\ Len(history) \in Nat
              /\ DOMAIN history = 1..Len(history)
          BY <1>0, <5>2 DEF TypeOK
        <5>4. history[Len(history)].dep = receipt.dep
          BY <1>0, <4>3, <5>2 DEF HeadLast, InHistory
        <5>5. history' = history
          BY <2>1
        <5>6. PICK n \in Nat : n = Len(history) /\ n \in DOMAIN history /\ DOMAIN history = 1..n
          BY <5>3
        <5>7. history'[n].dep = prior'
          BY <5>1, <5>4, <5>5, <5>6
        <5>8. Len(history') = n
          BY <5>5, <5>6
        <5>9. n <= n + 2 /\ n # n + 2 /\ \A j \in 1..n : ~(j > n)
          OBVIOUS
        <5>10. \A j \in DOMAIN history' : ~(j > n)
          BY <5>5, <5>6, <5>9
        <5>11. Trail(n)'
          BY <5>7, <5>8, <5>9, <5>10 DEF Trail
        <5> QED
          BY <2>1, <2>2, <5>1, <5>5, <5>6, <5>11 DEF PriorKept
      <4> QED
        BY <4>1, <4>2, <4>3
    <3> QED
      BY <2>3, <2>7, <3>3, <3>4 DEF ReleaseInv
  <2>9. CASE pc[c] = "merged"
    <3>1. receipt # None /\ receipt.dep = c
      BY <1>0, <2>9 DEF Alone, ReceiptedSteps
    <3>2. receipt'.dep = receipt.dep /\ prior' = prior
      BY <2>1, <2>2, <3>1
    <3>3. HeadLast' /\ PriorKept'
      BY <1>0, <2>1, <2>2, <3>1, <3>2 DEF HeadLast, PriorKept, Trail, InHistory
    <3> QED
      BY <2>3, <2>7, <3>3 DEF ReleaseInv
  <2> QED
    BY <2>1, <2>8, <2>9
<1>8. CASE HealthCheckPasses(c) \/ HealthCheckFails(c)
  <2>1. PICK s \in {"ok", "failed", "rm_load", "rm_cloud"} : Goto(c, s)
    BY <1>8 DEF HealthCheckPasses, HealthCheckFails, FirstRemoveStep
  <2> QED
    BY <1>8, <2>1, ReleaseFrame
    DEF HealthCheckPasses, HealthCheckFails, Goto, UnsavedSteps
<1> QED
  BY <1>1, <1>2, <1>3, <1>4, <1>5, <1>6, <1>7, <1>8 DEF Deploy

LEMMA ReleaseOther ==
    ASSUME TypeInv, ReleaseInv, NEW c \in Commands, Remove(c) \/ Recover(c) \/ Crash(c),
           Serial
    PROVE  ReleaseInv'
<1>1. PICK s \in RemoveSteps \cup RecoverSteps \cup Ended : Goto(c, s)
  BY DEF Remove, StartRemove, RemoveLoad, RemoveCloud, RemoveCloudFails, RemoveDelete,
         RemoveDeleteFails, RemoveNothing, RemoveOrchestrations, AfterRemove, RemoveEnds,
         FirstRemoveStep, Recover, StartRecover, RecoverLock, RecoverRun, Crash,
         RemoveSteps, RecoverSteps, Ended
<1>2. s \notin UnsavedSteps /\ s # "head"
  BY DEF RemoveSteps, RecoverSteps, Ended, UnsavedSteps
<1>3. UNCHANGED setting
  BY DEF Remove, StartRemove, RemoveLoad, RemoveCloud, RemoveCloudFails, RemoveDelete,
         RemoveDeleteFails, RemoveNothing, RemoveOrchestrations, Recover, StartRecover,
         RecoverLock, RecoverRun, Crash
<1>4. CASE RemoveDelete(c)
  <2>1. /\ receipt' = None /\ prior' = None /\ UNCHANGED <<history, recorded, missed>>
    BY <1>4 DEF RemoveDelete
  <2>2. pc'[c] = s /\ \A d \in Commands \ {c} : pc'[d] = pc[d]
    BY <1>1, StepEffect DEF TypeInv, Goto
  <2>3. \A d \in Commands : Saving(d)'
    BY <1>2, <1>3, <2>1, <2>2 DEF ReleaseInv, Saving, UnsavedSteps
  <2>4. Known' /\ HeadLast' /\ PriorKept'
    BY <2>1 DEF ReleaseInv, Known, HeadLast, PriorKept
  <2> QED
    BY <2>3, <2>4 DEF ReleaseInv
<1>5. CASE ~RemoveDelete(c)
  <2>1. UNCHANGED receipts
    BY <1>5
    DEF Remove, StartRemove, RemoveLoad, RemoveCloud, RemoveCloudFails,
        RemoveDeleteFails, RemoveNothing, RemoveOrchestrations, Recover, StartRecover,
        RecoverLock, RecoverRun, Crash
  <2> QED
    BY <1>1, <1>2, <1>3, <2>1, ReleaseFrame DEF Goto
<1> QED
  BY <1>4, <1>5

(* While commands run one at a time and the history has room for three     *)
(* receipts (the code keeps twenty), the release that the one at the head  *)
(* replaced is in the history unless the last attempt to copy it there met *)
(* an error, whatever crashes between its snapshot and the overwrite and   *)
(* however often the head was saved again since.                           *)
THEOREM ReplacedReleaseKept ==
    ASSUME MaxHistory >= 3 PROVE Spec => []LastReleaseKept
<1>1. Init => ReleaseInv
  BY DEF Init, ReleaseInv, Known, HeadLast, PriorKept, Saving, InHistory
<1>2. TypeInv /\ AloneInv /\ ReleaseInv /\ [Next]_vars => ReleaseInv'
  <2> SUFFICES ASSUME TypeInv, AloneInv, ReleaseInv, [Next]_vars, Serial'
               PROVE  ReleaseInv'
    BY DEF ReleaseInv
  <2>1. CASE Next
    <3>1. PICK c \in Commands : Deploy(c) \/ Remove(c) \/ Recover(c) \/ Crash(c)
      BY <2>1 DEF Next
    <3>2. Serial
      BY <3>1, SettingStays DEF Serial
    <3> QED
      BY <3>1, <3>2, ReleaseDeploy, ReleaseOther
  <2>2. CASE UNCHANGED vars
    BY <2>2 DEF vars, receipts, ReleaseInv, Known, HeadLast, PriorKept, Trail,
                Saving, InHistory, UnsavedSteps, Serial
  <2> QED
    BY <2>1, <2>2
<1>3. ReleaseInv => LastReleaseKept
  BY DEF ReleaseInv, PriorKept, Trail, LastReleaseKept
<1> QED
  BY <1>1, <1>2, <1>3, TypeInvariant, AloneInvariant, PTL DEF Spec
=============================================================================
