------------------------------ MODULE RunLease ------------------------------
(***************************************************************************)
(* The distributed run lock (platform/core/state/runstore/dynamodb.go):    *)
(* one lock item written under conditions, an expiry computed from the     *)
(* writer's own clock, and the heartbeat of internal/lease that pushes the *)
(* expiry forward while the holder works.                                  *)
(*                                                                         *)
(* Every call of Lock draws a fresh owner token, so a caller here is one   *)
(* call and is its own token.  Time is kept relative: item.left is the     *)
(* stored expiresAt minus the true time, due[c] the time to the next tick  *)
(* of c's heartbeat.  A clock may be off by Skew[c].  A request reaches    *)
(* the table up to MaxDelay after its time stamp was taken, and its answer *)
(* takes up to MaxDelay to come back: the heartbeat of a new lease starts  *)
(* when the answer to the put has arrived.                                 *)
(***************************************************************************)
EXTENDS Integers

CONSTANTS
    Callers,    \* calls of Lock for one run, each with its own token
    NoOwner,    \* the lock item does not exist
    TTL,        \* leaseFor
    Second,     \* the shortest renewal interval
    MaxFails,   \* consecutive heartbeats that are missed or fail
    Skew,       \* per caller: its clock minus true time
    MaxSkew,    \* bound on Skew, either way
    MaxDelay    \* bound on the way of a request, and on that of an answer

ASSUME NoOwnerAssumption == NoOwner \notin Callers
ASSUME TimesAssumption ==
    /\ TTL \in Nat \ {0} /\ Second \in Nat \ {0}
    /\ MaxFails \in Nat /\ MaxSkew \in Nat /\ MaxDelay \in Nat
ASSUME SkewAssumption == Skew \in [Callers -> (-MaxSkew)..MaxSkew]

(* A freshly written lease is in force for everybody.                      *)
ASSUME LeaseLongEnough == 2 * MaxSkew + MaxDelay <= TTL

(* The heartbeat's cadence: a third of the lease, but at least a second.   *)
DefaultInterval(ttl) == IF ttl \div 3 < Second THEN Second ELSE ttl \div 3

Interval == DefaultInterval(TTL)

(* A renewal is answered before the next one is due.                       *)
ASSUME AnsweredInTime == 2 * MaxDelay <= Interval

VARIABLES
    item,    \* the lock item: owner token and time left
    pc,      \* per caller: where it is between Lock and release
    beat,    \* per caller: its heartbeat goroutine, and if it is asking
    due,     \* per caller: time to its heartbeat's next tick; while the
             \* put is being answered, the time that may still take
    fails    \* per caller: heartbeats missed since the last good one

vars == <<item, pc, beat, due, fails>>

(* Once the expiry is this far back every clock agrees that it has passed. *)
LongGone == -(MaxSkew + MaxDelay + 1)

NoItem == [owner |-> NoOwner, left |-> LongGone]

TypeOK ==
    /\ item \in [owner : Callers \cup {NoOwner}, left : LongGone..(TTL + MaxSkew)]
    /\ pc \in [Callers -> {"waiting", "granted", "held", "releasing", "done"}]
    /\ beat \in [Callers -> {"off", "on", "asking"}]
    /\ due \in [Callers -> 0..Interval]
    /\ fails \in [Callers -> 0..MaxFails]

Init ==
    /\ item = NoItem
    /\ pc = [c \in Callers |-> "waiting"]
    /\ beat = [c \in Callers |-> "off"]
    /\ due = [c \in Callers |-> 0]
    /\ fails = [c \in Callers |-> 0]

-----------------------------------------------------------------------------
Goto(c, l) == pc' = [pc EXCEPT ![c] = l]

(* Mutants: an expired item still counts as held; one that is just about   *)
(* to expire counts as free.                                               *)
MutantFreeNever(c, age) == item.owner = NoOwner
MutantFreeEarly(c, age) == item.owner = NoOwner \/ item.left <= Skew[c] - age

(* tryAcquire's condition, with the caller's clock read age ago.           *)
Free(c, age) == item.owner = NoOwner \/ item.left < Skew[c] - age

(* The item c writes when its clock was read age ago.                      *)
Leased(c, age) == [owner |-> c, left |-> TTL + Skew[c] - age]

(* The put of tryAcquire reaches the table and meets its condition.        *)
TryAcquire(c) ==
    /\ pc[c] = "waiting"
    /\ \E age \in 0..MaxDelay : Free(c, age) /\ item' = Leased(c, age)
    /\ Goto(c, "granted")
    /\ due' = [due EXCEPT ![c] = MaxDelay]
    /\ UNCHANGED <<beat, fails>>

(* Its answer arrives: Lock starts the heartbeat and returns.              *)
LockReturns(c) ==
    /\ pc[c] = "granted"
    /\ Goto(c, "held")
    /\ beat' = [beat EXCEPT ![c] = "on"]
    /\ due' = [due EXCEPT ![c] = Interval]
    /\ fails' = [fails EXCEPT ![c] = 0]
    /\ UNCHANGED item

(* The item was written but the answer was an error: Lock gives up and     *)
(* forgets the token, the item stays.                                      *)
AnswerLost(c) ==
    /\ pc[c] = "granted"
    /\ Goto(c, "done")
    /\ UNCHANGED <<item, beat, due, fails>>

(* The put failed outright, or the context ended while polling.            *)
GiveUp(c) ==
    /\ pc[c] = "waiting"
    /\ Goto(c, "done")
    /\ UNCHANGED <<item, beat, due, fails>>

(* The ticker fires and the renewal's time stamp is taken.                 *)
HeartbeatTick(c) ==
    /\ beat[c] = "on" /\ due[c] = 0
    /\ beat' = [beat EXCEPT ![c] = "asking"]
    /\ due' = [due EXCEPT ![c] = Interval]
    /\ UNCHANGED <<item, pc, fails>>

(* How long ago that was.                                                  *)
Age(c) == Interval - due[c]

(* Mutant: a renewal that does not ask whose item it extends.              *)
MutantRenew(c) ==
    /\ beat[c] = "asking"
    /\ item' = Leased(c, Age(c))
    /\ beat' = [beat EXCEPT ![c] = "on"]
    /\ fails' = [fails EXCEPT ![c] = 0]
    /\ UNCHANGED <<pc, due>>

(* The renewal finds the item still ours and extends it, even if it has    *)
(* expired in the meantime.                                                *)
Renew(c) ==
    /\ beat[c] = "asking"
    /\ item.owner = c
    /\ item' = Leased(c, Age(c))
    /\ beat' = [beat EXCEPT ![c] = "on"]
    /\ fails' = [fails EXCEPT ![c] = 0]
    /\ UNCHANGED <<pc, due>>

(* A transient error is swallowed (the update may have been applied); a    *)
(* tick that a process misses for not being scheduled comes to the same.   *)
RenewFails(c) ==
    /\ beat[c] = "asking"
    /\ fails[c] < MaxFails
    /\ \/ UNCHANGED item
       \/ item.owner = c /\ item' = Leased(c, Age(c))
    /\ beat' = [beat EXCEPT ![c] = "on"]
    /\ fails' = [fails EXCEPT ![c] = @ + 1]
    /\ UNCHANGED <<pc, due>>

(* The condition check fails: the heartbeat stops with an error that       *)
(* nobody reads, and the holder works on.                                  *)
LeaseLost(c) ==
    /\ beat[c] = "asking"
    /\ item.owner # c
    /\ beat' = [beat EXCEPT ![c] = "off"]
    /\ UNCHANGED <<item, pc, due, fails>>

(* Release: stop the heartbeat and wait for it to exit, which it does once *)
(* a renewal under way has come back, then delete.                         *)
StopHeartbeat(c) ==
    /\ pc[c] = "held" /\ beat[c] # "asking"
    /\ Goto(c, "releasing")
    /\ beat' = [beat EXCEPT ![c] = "off"]
    /\ UNCHANGED <<item, due, fails>>

(* Mutant: the item is deleted whoever owns it.                            *)
MutantReleaseLock(c) ==
    /\ pc[c] = "releasing"
    /\ Goto(c, "done")
    /\ item' = NoItem
    /\ UNCHANGED <<beat, due, fails>>

(* The conditional delete; it may also fail for good, leaving the item.    *)
ReleaseLock(c) ==
    /\ pc[c] = "releasing"
    /\ Goto(c, "done")
    /\ \/ item.owner = c /\ item' = NoItem
       \/ UNCHANGED item
    /\ UNCHANGED <<beat, due, fails>>

(* A renewal under way may still reach the table.                          *)
Crash(c) ==
    /\ pc[c] \in {"granted", "held", "releasing"}
    /\ Goto(c, "done")
    /\ \/ UNCHANGED item
       \/ beat[c] = "asking" /\ item.owner = c /\ item' = Leased(c, Age(c))
    /\ beat' = [beat EXCEPT ![c] = "off"]
    /\ UNCHANGED <<due, fails>>

(* What the passing time is due for: an answer, a tick, a renewal.         *)
Timed(c) == pc[c] = "granted" \/ beat[c] # "off"

Tick ==
    /\ \A c \in Callers : Timed(c) => due[c] > 0
    /\ \A c \in Callers : beat[c] = "asking" => Age(c) < MaxDelay
    /\ item' = [item EXCEPT !.left = IF @ > LongGone THEN @ - 1 ELSE @]
    /\ due' = [c \in Callers |-> IF Timed(c) THEN due[c] - 1 ELSE due[c]]
    /\ UNCHANGED <<pc, beat, fails>>

Heartbeat(c) == HeartbeatTick(c) \/ Renew(c) \/ RenewFails(c) \/ LeaseLost(c)

Next ==
    \/ \E c \in Callers :
          \/ TryAcquire(c) \/ LockReturns(c) \/ AnswerLost(c) \/ GiveUp(c)
          \/ Heartbeat(c)
          \/ StopHeartbeat(c) \/ ReleaseLock(c) \/ Crash(c)
    \/ Tick

Spec == Init /\ [][Next]_vars

(* Clocks run, heartbeats tick, Lock polls and is answered, and the work   *)
(* under the lock comes to an end (its handlers have timeouts); Release    *)
(* cancels the heartbeat, which may win only finitely many races with its  *)
(* next tick.                                                              *)
Fairness ==
    /\ WF_vars(Tick)
    /\ \A c \in Callers : /\ WF_vars(Heartbeat(c))
                          /\ WF_vars(TryAcquire(c))
                          /\ WF_vars(LockReturns(c))
                          /\ SF_vars(StopHeartbeat(c))
                          /\ WF_vars(ReleaseLock(c))

FairSpec == Spec /\ Fairness

-----------------------------------------------------------------------------
(* The lease outlives every tolerated gap between two good renewals, seen  *)
(* from the fastest clock.  The first gap is the longest: the put is on    *)
(* its way, its answer, and the first renewal.                             *)
HeartbeatKeepsUp ==
    (MaxFails + 1) * Interval + 2 * MaxSkew + 3 * MaxDelay <= TTL

(* At most one caller works under the lock, provided its heartbeat keeps   *)
(* up: DefaultInterval's third of the TTL leaves room for two missed ticks *)
(* less whatever the clocks and the network eat up.                        *)
OneHolder ==
    HeartbeatKeepsUp =>
        \A c, e \in Callers : pc[c] = "held" /\ pc[e] = "held" => c = e

(* An item that is in force is taken from its owner by nobody: it changes  *)
(* hands only when its owner deletes it or its time is up, also when the   *)
(* owner of an earlier, lapsed lease is still alive.                       *)
OthersItemUntouched ==
    [][\A c \in Callers : item.owner = c /\ item'.owner # c =>
          pc[c] = "releasing" \/ item.left < MaxSkew]_vars

(* Whatever crashes, fails to release or never learns that it acquired the *)
(* lock, a caller that polls gets it in the end or gives up.               *)
WaitersServed ==
    \A c \in Callers : pc[c] = "waiting" ~> pc[c] \in {"held", "done"}

(* The lock as the workflow runtime sees it: free as soon as some clock    *)
(* may say so.                                                             *)
Holder == IF item.left < MaxSkew THEN NoOwner ELSE item.owner

Mutex == INSTANCE RunMutex WITH
    Drivers <- Callers, NoDriver <- NoOwner, lock <- Holder

(* The lease implements the lock the runtime model is built on.            *)
ImplementsMutex == Mutex!MutexSpec
=============================================================================
