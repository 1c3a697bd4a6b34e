------------------------------ MODULE RunMutex ------------------------------
(***************************************************************************)
(* What the workflow runtime relies on from acquireRunLock: one holder of  *)
(* the run lock at a time, a release that frees only the caller's own      *)
(* lock, and, for a lease, the possibility that the lock lapses while its  *)
(* holder is still working.                                                *)
(***************************************************************************)
CONSTANTS Drivers, NoDriver

VARIABLE lock

MutexInit == lock = NoDriver

Acquire(d) == lock = NoDriver /\ lock' = d

Release(d) == lock' = IF lock = d THEN NoDriver ELSE lock

(* A lease that ran out frees the lock; its former holder is not told.     *)
Lapse(d) == lock = d /\ lock' = NoDriver

MutexNext == \E d \in Drivers : Acquire(d) \/ Release(d) \/ Lapse(d)

MutexSpec == MutexInit /\ [][MutexNext]_lock
=============================================================================
