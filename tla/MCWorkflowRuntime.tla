------------------------- MODULE MCWorkflowRuntime -------------------------
(***************************************************************************)
(* Small instances of WorkflowRuntime for TLC.                             *)
(***************************************************************************)
EXTENDS WorkflowRuntime, TLC

OneThenTwoAttempts == <<1, 2>>

NoEvents == [e \in Events |-> 0]

(* One run lock that never lapses, nobody cancels: crashes, a replay, an   *)
(* approval and a context that ends.                                       *)
BudgetLocked == [NoEvents EXCEPT !["crash"] = 2, !["replay"] = 1,
                                 !["approve"] = 1, !["ctx"] = 1]

(* Cancellers race with the drivers and with each other.                   *)
BudgetCancel == [NoEvents EXCEPT !["crash"] = 1, !["cancel"] = 2,
                                 !["ctx"] = 1]

(* A lapsing lease, and a new start under the run's id, while the run is   *)
(* driven and approved.                                                    *)
BudgetRaces == [NoEvents EXCEPT !["lapse"] = 1, !["approve"] = 1,
                                !["create"] = 1]

BudgetCancelOnly == [NoEvents EXCEPT !["cancel"] = 1]

DriverSymmetry == Permutations(Drivers)
=============================================================================
