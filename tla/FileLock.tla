------------------------------ MODULE FileLock ------------------------------
(***************************************************************************)
(* The deploy lock kept in a file (platform/state/locking/file_backend.go, *)
(* the same code in extensions/states/local/locking.go), with the handle   *)
(* and the lock manager that renew and release it and the two commands     *)
(* that break it.                                                          *)
(*                                                                         *)
(* A caller is one process that needs the lock once and retries Acquire    *)
(* until it succeeds; its id stands for its token.  Every system call on   *)
(* the lock file is a step: creating it, writing the record, removing it.  *)
(* The record's clock times are reduced to whether it has expired.  An     *)
(* open file outlives its directory entry: fd[c] says whether what c has   *)
(* open is still what the path names.                                      *)
(***************************************************************************)
EXTENDS Integers

CONSTANTS
    Callers,     \* processes that acquire the lock
    NoOwner,     \* the owner of no readable record
    Beating,     \* callers that renew it (LockManager; Recover does not)
    FailAt,      \* where a process may die or its write may fail
    MayExpire,   \* whose records may run out: "orphan", "live" or both
    Unlocks      \* how often operators break the lock

ASSUME CallersAssumption == NoOwner \notin Callers /\ Beating \subseteq Callers
ASSUME UnlocksAssumption == Unlocks \in Nat

VARIABLES
    file,      \* the lock file
    pc,        \* per caller: where it is between Acquire and Release
    fd,        \* per caller: it has the file at the lock's path open
    beat,      \* per caller: its heartbeat goroutine is running
    operator,  \* who breaks locks: idle, or about to remove what it read
    unlocks    \* what is left of Unlocks

vars == <<file, pc, fd, beat, operator, unlocks>>

NoFile == [state |-> "absent", owner |-> NoOwner]
Torn == [state |-> "torn", owner |-> NoOwner]
Fresh(c) == [state |-> "fresh", owner |-> c]

TypeOK ==
    /\ file \in [state : {"absent", "torn", "fresh", "stale"},
                 owner : Callers \cup {NoOwner}]
    /\ file.owner \in Callers <=> file.state \in {"fresh", "stale"}
    /\ pc \in [Callers -> {"idle", "expired", "create", "write", "held",
                           "renew", "truncated", "done"}]
    /\ fd \in [Callers -> BOOLEAN]
    /\ beat \in [Callers -> BOOLEAN]
    /\ operator \in {"idle", "unlocking"}
    /\ unlocks \in Nat

Init ==
    /\ file = NoFile
    /\ pc = [c \in Callers |-> "idle"]
    /\ fd = [c \in Callers |-> FALSE]
    /\ beat = [c \in Callers |-> FALSE]
    /\ operator = "idle"
    /\ unlocks = Unlocks

-----------------------------------------------------------------------------
Goto(c, l) == pc' = [pc EXCEPT ![c] = l]

Readable == file.state \in {"fresh", "stale"}

(* os.Remove: the path names nothing any more, whoever's file it was.      *)
RemoveFile ==
    /\ file' = NoFile
    /\ fd' = [c \in Callers |-> FALSE]

(* Writing through an open file: lost if the path no longer names it, and  *)
(* not always parseable on top of a record somebody else put there.        *)
WriteThrough(c) ==
    /\ \/ fd[c] /\ file' = Fresh(c)
       \/ fd[c] /\ Readable /\ file' = Torn
       \/ ~fd[c] /\ UNCHANGED file
    /\ fd' = [fd EXCEPT ![c] = FALSE]

-----------------------------------------------------------------------------
(* Acquire.                                                                *)

(* Mutant: a record is never too old.                                      *)
MutantReadLock(c) ==
    /\ pc[c] = "idle"
    /\ ~Readable /\ Goto(c, "create")
    /\ UNCHANGED <<file, fd, beat, operator, unlocks>>

(* Read the record: one in force fails the call (a retry starts over), an  *)
(* expired one is to be removed, and one that is missing or cannot be      *)
(* parsed is ignored.                                                      *)
ReadLock(c) ==
    /\ pc[c] = "idle"
    /\ \/ file.state = "stale" /\ Goto(c, "expired")
       \/ ~Readable /\ Goto(c, "create")
    /\ UNCHANGED <<file, fd, beat, operator, unlocks>>

RemoveExpired(c) ==
    /\ pc[c] = "expired"
    /\ RemoveFile
    /\ Goto(c, "create")
    /\ UNCHANGED <<beat, operator, unlocks>>

(* Mutant: without O_EXCL an existing file is opened as well.              *)
MutantCreate(c) ==
    /\ pc[c] = "create"
    /\ file' = IF file = NoFile THEN Torn ELSE file
    /\ fd' = [fd EXCEPT ![c] = TRUE]
    /\ Goto(c, "write")
    /\ UNCHANGED <<beat, operator, unlocks>>

(* O_CREATE|O_EXCL: an empty file, or failure if there is any file.        *)
Create(c) ==
    /\ pc[c] = "create"
    /\ \/ /\ file = NoFile
          /\ file' = Torn
          /\ fd' = [fd EXCEPT ![c] = TRUE]
          /\ Goto(c, "write")
       \/ /\ file # NoFile
          /\ Goto(c, "idle")
          /\ UNCHANGED <<file, fd>>
    /\ UNCHANGED <<beat, operator, unlocks>>

WriteRecord(c) ==
    /\ pc[c] = "write"
    /\ WriteThrough(c)
    /\ Goto(c, "held")
    /\ beat' = IF c \in Beating THEN [beat EXCEPT ![c] = TRUE] ELSE beat
    /\ UNCHANGED <<operator, unlocks>>

-----------------------------------------------------------------------------
(* Renew: read, compare tokens, then os.WriteFile (truncate and write).    *)

RenewRead(c) ==
    /\ pc[c] = "held" /\ beat[c]
    /\ file.owner = c
    /\ Goto(c, "renew")
    /\ UNCHANGED <<file, fd, beat, operator, unlocks>>

(* The record is gone, unreadable or another's, or the context is done:    *)
(* the heartbeat ends, the work goes on.                                   *)
BeatStops(c) ==
    /\ pc[c] = "held" /\ beat[c]
    /\ beat' = [beat EXCEPT ![c] = FALSE]
    /\ UNCHANGED <<file, pc, fd, operator, unlocks>>

RenewOpen(c) ==
    /\ pc[c] = "renew"
    /\ file' = Torn
    /\ fd' = [fd EXCEPT ![c] = TRUE]
    /\ Goto(c, "truncated")
    /\ UNCHANGED <<beat, operator, unlocks>>

RenewWrite(c) ==
    /\ pc[c] = "truncated"
    /\ WriteThrough(c)
    /\ Goto(c, "held")
    /\ UNCHANGED <<beat, operator, unlocks>>

(* A write that fails leaves the empty file behind: Acquire fails, or the  *)
(* heartbeat ends.                                                         *)
WriteFails(c) ==
    /\ pc[c] \in FailAt \cap {"write", "truncated"}
    /\ Goto(c, IF pc[c] = "write" THEN "idle" ELSE "held")
    /\ fd' = [fd EXCEPT ![c] = FALSE]
    /\ beat' = [beat EXCEPT ![c] = FALSE]
    /\ UNCHANGED <<file, operator, unlocks>>

-----------------------------------------------------------------------------
(* Release: the heartbeat has exited, the file is removed, unchecked.      *)
Release(c) ==
    /\ pc[c] = "held"
    /\ RemoveFile
    /\ Goto(c, "done")
    /\ beat' = [beat EXCEPT ![c] = FALSE]
    /\ UNCHANGED <<operator, unlocks>>

Crash(c) ==
    /\ pc[c] \in FailAt
    /\ Goto(c, "done")
    /\ fd' = [fd EXCEPT ![c] = FALSE]
    /\ beat' = [beat EXCEPT ![c] = FALSE]
    /\ UNCHANGED <<file, operator, unlocks>>

(* The record's time is up; "live" says that its owner still works.        *)
Expire ==
    /\ file.state = "fresh"
    /\ (IF pc[file.owner] = "done" THEN "orphan" ELSE "live") \in MayExpire
    /\ file' = [file EXCEPT !.state = "stale"]
    /\ UNCHANGED <<pc, fd, beat, operator, unlocks>>

(* "state force-unlock".                                                   *)
StateForceUnlock ==
    /\ unlocks > 0 /\ unlocks' = unlocks - 1
    /\ RemoveFile
    /\ UNCHANGED <<pc, beat, operator>>

(* "state unlock --force" wants to read the record first.                  *)
UnlockRead ==
    /\ operator = "idle" /\ operator' = "unlocking"
    /\ unlocks > 0 /\ unlocks' = unlocks - 1
    /\ Readable
    /\ UNCHANGED <<file, pc, fd, beat>>

UnlockRemove ==
    /\ operator = "unlocking" /\ operator' = "idle"
    /\ RemoveFile
    /\ UNCHANGED <<pc, beat, unlocks>>

Acquire(c) == ReadLock(c) \/ RemoveExpired(c) \/ Create(c) \/ WriteRecord(c)

Renew(c) == RenewRead(c) \/ BeatStops(c) \/ RenewOpen(c) \/ RenewWrite(c)

Next ==
    \/ \E c \in Callers :
          Acquire(c) \/ Renew(c) \/ WriteFails(c) \/ Release(c) \/ Crash(c)
    \/ Expire
    \/ StateForceUnlock \/ UnlockRead \/ UnlockRemove

Spec == Init /\ [][Next]_vars

(* Acquire is retried, a renewal that has begun is finished, time passes,  *)
(* and the work comes to an end; Release cancels the heartbeat, which may  *)
(* only win finitely many of the races with its next tick.                 *)
Fairness ==
    /\ WF_vars(Expire)
    /\ \A c \in Callers : /\ WF_vars(Acquire(c))
                          /\ WF_vars(RenewOpen(c)) /\ WF_vars(RenewWrite(c))
                          /\ SF_vars(Release(c))

FairSpec == Spec /\ Fairness

-----------------------------------------------------------------------------
Working == {"held", "renew", "truncated"}

(* At most one process works under the lock.  It holds while no record     *)
(* expires and nobody breaks the lock, whatever crashes and renews; two    *)
(* processes that find the same expired record both get the lock, since    *)
(* the second removes the file the first has just written.                 *)
Exclusive ==
    \A c, e \in Callers : pc[c] \in Working /\ pc[e] \in Working => c = e

(* The record of a process that still holds the lock is removed or         *)
(* overwritten by that process or an operator, by nobody else.             *)
OthersRecordUntouched ==
    [][\A c \in Callers : file = Fresh(c) /\ pc[c] = "held" /\ file'.owner # c
          => \/ pc'[c] # "held"
             \/ unlocks' < unlocks \/ operator # "idle"]_vars

(* The lock file is empty or cannot be parsed, and nobody is writing it:   *)
(* no caller gets past it, since Acquire takes it neither for a record     *)
(* that has expired nor for a missing file.                                *)
Stuck == file = Torn /\ \A c \in Callers : ~fd[c]

(* Whatever crashes, fails to write, expires or is broken by an operator,  *)
(* whoever keeps trying gets the lock, unless an unparseable lock file     *)
(* stays for good.  A failure between creating or truncating the file and  *)
(* writing it leaves such a file, and so does a write over another's       *)
(* record; a complete record never stands in the way for ever.             *)
LockRecovered ==
    \A c \in Callers :
        pc[c] = "idle" ~> (pc[c] \in Working \cup {"done"} \/ []Stuck)
=============================================================================
