--------------------------- MODULE FileLock_proofs ---------------------------
(***************************************************************************)
(* What is proved about the lock file, for any number of processes.        *)
(***************************************************************************)
EXTENDS FileLock, TLAPS

(* Type correctness: only a readable record has an owner.                  *)
THEOREM FileTypeCorrect == Spec => []TypeOK
<1>1. Init => TypeOK
  BY CallersAssumption, UnlocksAssumption
  DEF CallersAssumption, UnlocksAssumption, Init, TypeOK, NoFile
<1>2. TypeOK /\ [Next]_vars => TypeOK'
  <2> SUFFICES ASSUME TypeOK, [Next]_vars PROVE TypeOK'
    OBVIOUS
  <2> USE CallersAssumption
      DEF CallersAssumption, TypeOK, Goto, RemoveFile, NoFile, Torn, Fresh
  <2>1. ASSUME NEW c \in Callers, Acquire(c) PROVE TypeOK'
    <3>1. CASE ReadLock(c)
      BY <3>1 DEF ReadLock
    <3>2. CASE RemoveExpired(c)
      BY <3>2 DEF RemoveExpired
    <3>3. CASE Create(c)
      <4>1. CASE file = NoFile
        <5>1. /\ file' = Torn /\ fd' = [fd EXCEPT ![c] = TRUE]
              /\ pc' = [pc EXCEPT ![c] = "write"]
              /\ UNCHANGED <<beat, operator, unlocks>>
          BY <3>3, <4>1 DEF Create
        <5> QED
          BY <5>1
      <4>2. CASE file # NoFile
        BY <3>3, <4>2 DEF Create
      <4> QED
        BY <4>1, <4>2
    <3>4. CASE WriteRecord(c)
      BY <3>4 DEF WriteRecord, WriteThrough
    <3> QED
      BY <2>1, <3>1, <3>2, <3>3, <3>4 DEF Acquire
  <2>2. ASSUME NEW c \in Callers, Renew(c) PROVE TypeOK'
    <3>1. CASE RenewRead(c)
      BY <3>1 DEF RenewRead
    <3>2. CASE BeatStops(c)
      BY <3>2 DEF BeatStops
    <3>3. CASE RenewOpen(c)
      BY <3>3 DEF RenewOpen
    <3>4. CASE RenewWrite(c)
      BY <3>4 DEF RenewWrite, WriteThrough
    <3> QED
      BY <2>2, <3>1, <3>2, <3>3, <3>4 DEF Renew
  <2>3. ASSUME NEW c \in Callers, WriteFails(c) \/ Release(c) \/ Crash(c)
        PROVE  TypeOK'
    <3>1. CASE WriteFails(c)
      BY <3>1 DEF WriteFails
    <3>2. CASE Release(c)
      BY <3>2 DEF Release
    <3>3. CASE Crash(c)
      BY <3>3 DEF Crash
    <3> QED
      BY <2>3, <3>1, <3>2, <3>3
  <2>4. CASE Expire
    BY <2>4 DEF Expire
  <2>5. CASE StateForceUnlock \/ UnlockRead \/ UnlockRemove
    <3>1. CASE StateForceUnlock
      BY <3>1 DEF StateForceUnlock
    <3>2. CASE UnlockRead
      BY <3>2 DEF UnlockRead
    <3>3. CASE UnlockRemove
      BY <3>3 DEF UnlockRemove
    <3> QED
      BY <2>5, <3>1, <3>2, <3>3
  <2>6. CASE UNCHANGED vars
    BY <2>6 DEF vars
  <2> QED
    BY <2>1, <2>2, <2>3, <2>4, <2>5, <2>6 DEF Next
<1> QED
  BY <1>1, <1>2, PTL DEF Spec

-----------------------------------------------------------------------------
(* No record expires and no operator breaks the lock.                      *)
NobodyBreaksIt == MayExpire = {} /\ Unlocks = 0

(* The file that c created is, or should be, at the path.                  *)
Claims(c) == pc[c] \in Working \cup {"write"}

(* Mutual exclusion is not inductive: a process claims the lock from the   *)
(* moment its O_EXCL create succeeded, and what keeps the others out is    *)
(* that the file exists, empty or not, as long as the claim does.          *)
ClaimInv ==
    /\ file.state # "stale"
    /\ unlocks = 0 /\ operator = "idle"
    /\ \A c \in Callers : pc[c] # "expired"
    /\ \A c \in Callers : Claims(c) => file.state # "absent"
    /\ \A c, e \in Callers : Claims(c) /\ Claims(e) => c = e

LEMMA ClaimInitially ==
    ASSUME NobodyBreaksIt, Init PROVE ClaimInv
BY DEF NobodyBreaksIt, Init, ClaimInv, Claims, Working, NoFile

LEMMA ClaimKept ==
    ASSUME NobodyBreaksIt, TypeOK, ClaimInv, [Next]_vars PROVE ClaimInv'
<1> USE DEF TypeOK, ClaimInv, Claims, Working, Goto
<1>1. ASSUME NEW c \in Callers, Acquire(c) PROVE ClaimInv'
  <2>1. CASE ReadLock(c)
    BY <2>1 DEF ReadLock
  <2>2. CASE RemoveExpired(c)
    BY <2>2 DEF RemoveExpired
  <2>3. CASE Create(c)
    <3>1. CASE file = NoFile
      <4>1. \A e \in Callers : ~Claims(e)
        BY <3>1 DEF NoFile
      <4> QED
        BY <2>3, <3>1, <4>1 DEF Create, Torn
    <3>2. CASE file # NoFile
      BY <2>3, <3>2 DEF Create
    <3> QED
      BY <3>1, <3>2
  <2>4. CASE WriteRecord(c)
    BY <2>4 DEF WriteRecord, WriteThrough, Fresh, Torn
  <2> QED
    BY <1>1, <2>1, <2>2, <2>3, <2>4 DEF Acquire
<1>2. ASSUME NEW c \in Callers, Renew(c) PROVE ClaimInv'
  <2>1. CASE RenewRead(c)
    BY <2>1 DEF RenewRead
  <2>2. CASE BeatStops(c)
    BY <2>2 DEF BeatStops
  <2>3. CASE RenewOpen(c)
    BY <2>3 DEF RenewOpen, Torn
  <2>4. CASE RenewWrite(c)
    BY <2>4 DEF RenewWrite, WriteThrough, Fresh, Torn
  <2> QED
    BY <1>2, <2>1, <2>2, <2>3, <2>4 DEF Renew
<1>3. ASSUME NEW c \in Callers, WriteFails(c) PROVE ClaimInv'
  BY <1>3 DEF WriteFails
<1>4. ASSUME NEW c \in Callers, Release(c) PROVE ClaimInv'
  BY <1>4 DEF Release, RemoveFile, NoFile
<1>5. ASSUME NEW c \in Callers, Crash(c) PROVE ClaimInv'
  BY <1>5 DEF Crash
<1>6. ~Expire
  BY DEF Expire, NobodyBreaksIt
<1>7. ~StateForceUnlock /\ ~UnlockRead /\ ~UnlockRemove
  BY DEF StateForceUnlock, UnlockRead, UnlockRemove
<1>8. CASE UNCHANGED vars
  BY <1>8 DEF vars
<1> QED
  BY <1>1, <1>2, <1>3, <1>4, <1>5, <1>6, <1>7, <1>8 DEF Next

(* While no record expires, at most one process works under the file lock, *)
(* however many try, crash at any system call, renew or fail to write.     *)
THEOREM FileLockExclusive ==
    ASSUME NobodyBreaksIt PROVE Spec => []Exclusive
<1>1. Init => ClaimInv
  BY ClaimInitially
<1>2. TypeOK /\ ClaimInv /\ [Next]_vars => ClaimInv'
  BY ClaimKept
<1>3. ClaimInv => Exclusive
  BY DEF ClaimInv, Claims, Exclusive
<1> QED
  BY <1>1, <1>2, <1>3, FileTypeCorrect, PTL DEF Spec

-----------------------------------------------------------------------------
LEMMA OnlyOwnerWrites ==
    ASSUME TypeOK, ClaimInv, NobodyBreaksIt, [Next]_vars,
           NEW c \in Callers,
           file = Fresh(c), pc[c] = "held", file'.owner # c
    PROVE  pc'[c] # "held"
<1> USE DEF TypeOK, ClaimInv, Claims, Working, Goto
<1>1. \A e \in Callers : Claims(e) => e = c
  OBVIOUS
<1>2. ASSUME NEW e \in Callers, Acquire(e) PROVE pc'[c] # "held"
  BY <1>1, <1>2 DEF Acquire, ReadLock, RemoveExpired, Create, WriteRecord,
                    WriteThrough, Fresh, NoFile
<1>3. ASSUME NEW e \in Callers, Renew(e) PROVE pc'[c] # "held"
  BY <1>1, <1>3 DEF Renew, RenewRead, BeatStops, RenewOpen, RenewWrite, Fresh
<1>4. ASSUME NEW e \in Callers, WriteFails(e) \/ Release(e) \/ Crash(e)
      PROVE  pc'[c] # "held"
  BY <1>1, <1>4 DEF WriteFails, Release, Crash, Fresh
<1>5. ~Expire
  BY DEF Expire, NobodyBreaksIt
<1>6. ~StateForceUnlock /\ ~UnlockRead /\ ~UnlockRemove
  BY DEF StateForceUnlock, UnlockRead, UnlockRemove
<1>7. CASE UNCHANGED vars
  BY <1>7 DEF vars, Fresh
<1> QED
  BY <1>2, <1>3, <1>4, <1>5, <1>6, <1>7 DEF Next

(* Under the same assumption the record of a process that holds the lock   *)
(* is only ever removed or rewritten by that process.                      *)
THEOREM FileLockOwnership ==
    ASSUME NobodyBreaksIt PROVE Spec => OthersRecordUntouched
<1>1. Init => ClaimInv
  BY ClaimInitially
<1>2. TypeOK /\ ClaimInv /\ [Next]_vars => ClaimInv'
  BY ClaimKept
<1>3. TypeOK /\ ClaimInv /\ [Next]_vars =>
        [\A c \in Callers : file = Fresh(c) /\ pc[c] = "held" /\ file'.owner # c
            => \/ pc'[c] # "held"
               \/ unlocks' < unlocks \/ operator # "idle"]_vars
  BY OnlyOwnerWrites
<1> QED
  BY <1>1, <1>2, <1>3, FileTypeCorrect, PTL DEF Spec, OthersRecordUntouched
==============================================================================
