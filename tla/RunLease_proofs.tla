-------------------------- MODULE RunLease_proofs --------------------------
(***************************************************************************)
(* Theorems about the run lease for every number of callers, every TTL and *)
(* interval, and every clock skew and network delay within their bounds.   *)
(***************************************************************************)
EXTENDS RunLease, TLAPS

USE NoOwnerAssumption, TimesAssumption, SkewAssumption, LeaseLongEnough

LEMMA IntervalType == Interval \in Nat \ {0} /\ 2 * MaxDelay <= Interval
  BY AnsweredInTime DEF Interval, DefaultInterval

USE IntervalType

LEMMA NoItemType ==
  NoItem \in [owner : Callers \cup {NoOwner}, left : LongGone..(TTL + MaxSkew)]
  BY DEF NoItem, LongGone

LEMMA LeasedType ==
  ASSUME NEW c \in Callers, NEW age \in 0..MaxDelay
  PROVE  /\ Leased(c, age) \in [owner : Callers \cup {NoOwner},
                                left : LongGone..(TTL + MaxSkew)]
         /\ Leased(c, age).owner = c
         /\ Leased(c, age).left >= TTL - MaxSkew - MaxDelay
         /\ Leased(c, age).left >= MaxSkew
<1>1. Skew[c] \in (-MaxSkew)..MaxSkew
  OBVIOUS
<1>2. /\ TTL + Skew[c] - age \in LongGone..(TTL + MaxSkew)
      /\ TTL + Skew[c] - age >= TTL - MaxSkew - MaxDelay
      /\ TTL + Skew[c] - age >= MaxSkew
  BY <1>1 DEF LongGone
<1>3. QED
  BY <1>2 DEF Leased

-----------------------------------------------------------------------------
(* Type correctness.  A renewal is under way only while its caller holds   *)
(* the lock, and for no longer than a request may take.                    *)

AskInv ==
    \A c \in Callers :
        /\ beat[c] # "off" => pc[c] = "held"
        /\ beat[c] = "asking" => Age(c) <= MaxDelay

TypeInv == TypeOK /\ AskInv

LEMMA TypeInit == Init => TypeInv
  BY NoItemType DEF Init, TypeInv, TypeOK, AskInv

LEMMA AgeType ==
  ASSUME TypeInv, NEW c \in Callers, beat[c] = "asking"
  PROVE  Age(c) \in 0..MaxDelay
  BY DEF TypeInv, TypeOK, AskInv, Age

LEMMA TypeStep == TypeInv /\ [Next]_vars => TypeInv'
<1> SUFFICES ASSUME TypeInv, [Next]_vars PROVE TypeInv'
  OBVIOUS
<1>t. TypeOK /\ AskInv
  BY DEF TypeInv
<1> DEFINE Items == [owner : Callers \cup {NoOwner},
                     left : LongGone..(TTL + MaxSkew)]
<1>u. CASE UNCHANGED vars
  BY <1>t, <1>u DEF vars, TypeInv, TypeOK, AskInv, Age
<1>1. ASSUME NEW c \in Callers, TryAcquire(c) PROVE TypeInv'
  <2>1. item' \in Items
    BY <1>1, LeasedType DEF TryAcquire
  <2>2. TypeOK'
    BY <1>1, <1>t, <2>1 DEF TryAcquire, Goto, TypeOK
  <2>3. AskInv'
    BY <1>1, <1>t DEF TryAcquire, Goto, TypeOK, AskInv, Age
  <2>4. QED
    BY <2>2, <2>3 DEF TypeInv
<1>2. ASSUME NEW c \in Callers, LockReturns(c) PROVE TypeInv'
  BY <1>2, <1>t DEF LockReturns, Goto, TypeInv, TypeOK, AskInv, Age
<1>3. ASSUME NEW c \in Callers, AnswerLost(c) \/ GiveUp(c) PROVE TypeInv'
  BY <1>3, <1>t DEF AnswerLost, GiveUp, Goto, TypeInv, TypeOK, AskInv, Age
<1>4. ASSUME NEW c \in Callers, HeartbeatTick(c) PROVE TypeInv'
  BY <1>4, <1>t DEF HeartbeatTick, TypeInv, TypeOK, AskInv, Age
<1>5. ASSUME NEW c \in Callers, Renew(c) \/ RenewFails(c) PROVE TypeInv'
  <2>1. item' \in Items
    BY <1>5, <1>t, LeasedType, AgeType DEF Renew, RenewFails, TypeOK
  <2>2. fails' \in [Callers -> 0..MaxFails]
    BY <1>5, <1>t DEF Renew, RenewFails, TypeOK
  <2>3. QED
    BY <1>5, <1>t, <2>1, <2>2
    DEF Renew, RenewFails, TypeInv, TypeOK, AskInv, Age
<1>6. ASSUME NEW c \in Callers, LeaseLost(c) PROVE TypeInv'
  BY <1>6, <1>t DEF LeaseLost, TypeInv, TypeOK, AskInv, Age
<1>7. ASSUME NEW c \in Callers, StopHeartbeat(c) PROVE TypeInv'
  BY <1>7, <1>t DEF StopHeartbeat, Goto, TypeInv, TypeOK, AskInv, Age
<1>8. ASSUME NEW c \in Callers, ReleaseLock(c) PROVE TypeInv'
  BY <1>8, <1>t, NoItemType
  DEF ReleaseLock, Goto, TypeInv, TypeOK, AskInv, Age
<1>9. ASSUME NEW c \in Callers, Crash(c) PROVE TypeInv'
  <2>1. item' \in Items
    BY <1>9, <1>t, LeasedType, AgeType DEF Crash, TypeOK
  <2>2. QED
    BY <1>9, <1>t, <2>1 DEF Crash, Goto, TypeInv, TypeOK, AskInv, Age
<1>10. CASE Tick
  <2>1. item'.left \in LongGone..(TTL + MaxSkew) /\ item'.owner = item.owner
    BY <1>10, <1>t DEF Tick, TypeOK, LongGone
  <2>2. item' \in Items
    BY <1>10, <1>t, <2>1 DEF Tick, TypeOK
  <2>3. due' \in [Callers -> 0..Interval]
    BY <1>10, <1>t DEF Tick, TypeOK
  <2>4. ASSUME NEW c \in Callers, beat[c] = "asking"
        PROVE  Interval - due'[c] <= MaxDelay
    <3>1. due'[c] = due[c] - 1 /\ Interval - due[c] < MaxDelay
      BY <1>10, <1>t, <2>4 DEF Tick, Timed, TypeOK, Age
    <3>2. QED
      BY <1>t, <3>1 DEF TypeOK
  <2>5. AskInv'
    BY <1>10, <1>t, <2>4 DEF Tick, AskInv, Age
  <2>6. QED
    BY <1>10, <1>t, <2>2, <2>3, <2>5 DEF Tick, TypeInv, TypeOK
<1>11. QED
  BY <1>u, <1>1, <1>2, <1>3, <1>4, <1>5, <1>6, <1>7, <1>8, <1>9, <1>10
  DEF Next, Heartbeat

(* The lease's state stays within its types.                               *)
THEOREM LeaseTypeCorrect == Spec => []TypeOK
<1>1. TypeInv => TypeOK
  BY DEF TypeInv
<1>2. QED
  BY <1>1, TypeInit, TypeStep, PTL DEF Spec

-----------------------------------------------------------------------------
(* Mutual exclusion.  From the moment the put is applied, the time left to *)
(* a lease covers what may pass before its next good renewal: the rest of  *)
(* the way of the put's answer, the next tick, all the ticks that may      *)
(* still be missed and the way of the renewal, with the fastest clock's    *)
(* lead to spare.                                                          *)

Pending(c) ==
    IF pc[c] = "granted" THEN (MaxFails + 1) * Interval
    ELSE IF beat[c] = "asking" THEN (MaxFails - fails[c]) * Interval - Interval
    ELSE (MaxFails - fails[c]) * Interval

Reserve(c) == MaxSkew + MaxDelay + due[c] + Pending(c)

Covered(c) ==
    /\ item.owner = c
    /\ pc[c] = "held" => beat[c] # "off"
    /\ item.left >= Reserve(c)

Leasing(c) == pc[c] \in {"granted", "held"}

HeldInv == HeartbeatKeepsUp => \A c \in Callers : Leasing(c) => Covered(c)

LEMMA Products ==
  ASSUME NEW f \in 0..MaxFails
  PROVE  /\ (MaxFails - f) * Interval \in Nat
         /\ (MaxFails - f) * Interval <= MaxFails * Interval
         /\ f < MaxFails => (MaxFails - f) * Interval =
                              Interval + (MaxFails - (f + 1)) * Interval
         /\ (MaxFails + 1) * Interval = Interval + MaxFails * Interval
         /\ MaxFails * Interval \in Nat
<1>1. PICK n \in Nat : n = MaxFails - f /\ n <= MaxFails
  OBVIOUS
<1>2. n * Interval \in Nat /\ n * Interval <= MaxFails * Interval
  BY <1>1
<1>3. f < MaxFails => n * Interval = Interval + (n - 1) * Interval
  OBVIOUS
<1>4. f < MaxFails => n - 1 = MaxFails - (f + 1)
  BY <1>1
<1>5. /\ (MaxFails + 1) * Interval = Interval + MaxFails * Interval
      /\ MaxFails * Interval \in Nat
  OBVIOUS
<1>6. QED
  BY <1>1, <1>2, <1>3, <1>4, <1>5

(* The figures of one caller, as plain integers.                           *)
LEMMA Figures ==
  ASSUME TypeInv, NEW c \in Callers
  PROVE  /\ item.left \in Int /\ due[c] \in 0..Interval
         /\ fails[c] \in 0..MaxFails
         /\ (MaxFails - fails[c]) * Interval \in Nat
         /\ (MaxFails + 1) * Interval \in Nat
         /\ beat[c] = "asking" => Interval - due[c] <= MaxDelay
<1>1. item.left \in Int /\ due[c] \in 0..Interval /\ fails[c] \in 0..MaxFails
  BY DEF TypeInv, TypeOK, LongGone
<1>2. beat[c] = "asking" => Interval - due[c] <= MaxDelay
  BY DEF TypeInv, AskInv, Age
<1>3. QED
  BY <1>1, <1>2, Products

(* A covered lease is in force for every clock and every delay.            *)
LEMMA CoveredNotFree ==
  ASSUME TypeInv, NEW c \in Callers, Covered(c),
         NEW e \in Callers, NEW age \in 0..MaxDelay
  PROVE  ~Free(e, age)
<1>1. MaxDelay + due[c] + Pending(c) >= 0 /\ Pending(c) \in Int
  BY Figures DEF Pending
<1>2. item.left >= MaxSkew
  BY <1>1, Figures DEF Covered, Reserve
<1>3. Skew[e] - age <= MaxSkew
  OBVIOUS
<1>4. item.owner # NoOwner
  BY DEF Covered
<1>5. QED
  BY <1>2, <1>3, <1>4, Figures DEF Free

(* A lease just written outlasts the whole way of an answer, and all the   *)
(* ticks that may be missed, and the way of the next renewal.              *)
LEMMA LeasedCovers ==
  ASSUME HeartbeatKeepsUp, NEW c \in Callers, NEW age \in 0..MaxDelay
  PROVE  /\ Leased(c, age).left \in Int
         /\ Leased(c, age).left >= MaxSkew + MaxDelay + (Interval - age)
                                     + MaxFails * Interval
         /\ Leased(c, age).left >= MaxSkew + MaxDelay + MaxDelay
                                     + (MaxFails + 1) * Interval
<1>1. Skew[c] \in (-MaxSkew)..MaxSkew
  OBVIOUS
<1>2. Leased(c, age).left = TTL + Skew[c] - age
  BY DEF Leased
<1>3. /\ (MaxFails + 1) * Interval = Interval + MaxFails * Interval
      /\ MaxFails * Interval \in Nat
  OBVIOUS
<1>4. QED
  BY <1>1, <1>2, <1>3 DEF HeartbeatKeepsUp

LEMMA HeldInit == Init => HeldInv
  BY DEF Init, HeldInv, Leasing

LEMMA HeldStep == TypeInv /\ HeldInv /\ [Next]_vars => HeldInv'
<1> SUFFICES ASSUME TypeInv, HeldInv, [Next]_vars, HeartbeatKeepsUp,
                    NEW h \in Callers, Leasing(h)'
             PROVE  Covered(h)'
  BY DEF HeldInv
<1>h. Leasing(h) => Covered(h)
  BY DEF HeldInv
<1>t. TypeOK /\ AskInv
  BY DEF TypeInv
<1>s. ASSUME UNCHANGED <<item, pc[h], beat[h], due[h], fails[h]>>
      PROVE  Covered(h)'
  BY <1>h, <1>s DEF Leasing, Covered, Reserve, Pending
<1>u. CASE UNCHANGED vars
  BY <1>s, <1>u DEF vars
<1>1. ASSUME NEW c \in Callers, TryAcquire(c) PROVE Covered(h)'
  <2>1. PICK age \in 0..MaxDelay : Free(c, age) /\ item' = Leased(c, age)
    BY <1>1 DEF TryAcquire
  <2>2. h = c
    <3>1. h # c => Leasing(h)
      BY <1>1, <1>t DEF TryAcquire, Goto, TypeOK, Leasing
    <3>2. QED
      BY <1>h, <2>1, <3>1, CoveredNotFree
  <2>3. pc'[c] = "granted" /\ due'[c] = MaxDelay
    BY <1>1, <1>t DEF TryAcquire, Goto, TypeOK
  <2>4. item'.owner = c
    BY <2>1, LeasedType
  <2>5. item'.left >= MaxSkew + MaxDelay + MaxDelay + (MaxFails + 1) * Interval
    BY <2>1, LeasedCovers
  <2>6. QED
    BY <2>2, <2>3, <2>4, <2>5 DEF Covered, Reserve, Pending
<1>2. ASSUME NEW c \in Callers, LockReturns(c) PROVE Covered(h)'
  <2>1. CASE h # c
    BY <1>2, <1>s, <1>t, <2>1 DEF LockReturns, Goto, TypeOK
  <2>2. CASE h = c
    <3>1. /\ pc'[c] = "held" /\ beat'[c] = "on" /\ due'[c] = Interval
          /\ fails'[c] = 0 /\ item' = item /\ pc[c] = "granted"
      BY <1>2, <1>t DEF LockReturns, Goto, TypeOK
    <3>2. /\ item.owner = c
          /\ item.left >= MaxSkew + MaxDelay + due[c] + (MaxFails + 1) * Interval
      BY <1>h, <2>2, <3>1 DEF Leasing, Covered, Reserve, Pending
    <3>3. (MaxFails + 1) * Interval = Interval + MaxFails * Interval
      OBVIOUS
    <3>4. item.left >= MaxSkew + MaxDelay + Interval + (MaxFails - 0) * Interval
      <4>1. item.left \in Int /\ due[c] \in 0..Interval
            /\ MaxFails * Interval \in Nat /\ MaxFails - 0 = MaxFails
        BY Figures
      <4>2. QED
        BY <3>2, <3>3, <4>1
    <3>5. QED
      BY <2>2, <3>1, <3>2, <3>4 DEF Covered, Reserve, Pending
  <2>3. QED
    BY <2>1, <2>2
<1>3. ASSUME NEW c \in Callers, AnswerLost(c) \/ GiveUp(c) PROVE Covered(h)'
  <2>1. h # c
    BY <1>3, <1>t DEF AnswerLost, GiveUp, Goto, TypeOK, Leasing
  <2>2. QED
    BY <1>3, <1>s, <1>t, <2>1 DEF AnswerLost, GiveUp, Goto, TypeOK
<1>4. ASSUME NEW c \in Callers, HeartbeatTick(c) PROVE Covered(h)'
  <2>1. CASE h # c
    BY <1>4, <1>s, <1>t, <2>1 DEF HeartbeatTick, TypeOK
  <2>2. CASE h = c
    <3>1. /\ pc[c] = "held" /\ pc'[c] = "held" /\ beat[c] = "on"
          /\ beat'[c] = "asking" /\ due[c] = 0 /\ due'[c] = Interval
          /\ fails'[c] = fails[c] /\ item' = item
      BY <1>4, <1>t DEF HeartbeatTick, TypeOK, AskInv
    <3>2. /\ item.owner = c
          /\ item.left >= MaxSkew + MaxDelay + 0 + (MaxFails - fails[c]) * Interval
      BY <1>h, <2>2, <3>1 DEF Leasing, Covered, Reserve, Pending
    <3>3. item.left >= MaxSkew + MaxDelay + Interval
                         + ((MaxFails - fails[c]) * Interval - Interval)
      BY <3>2, Figures
    <3>4. QED
      BY <2>2, <3>1, <3>2, <3>3 DEF Covered, Reserve, Pending
  <2>3. QED
    BY <2>1, <2>2
<1>5. ASSUME NEW c \in Callers, Renew(c) \/ RenewFails(c) PROVE Covered(h)'
  <2>0. /\ beat[c] = "asking" /\ pc[c] = "held" /\ pc' = pc
        /\ beat'[c] = "on" /\ due' = due
    BY <1>5, <1>t DEF Renew, RenewFails, TypeOK, AskInv
  <2>1. Leasing(h) /\ Covered(h) /\ Covered(c)
    BY <1>h, <2>0 DEF HeldInv, Leasing
  <2>2. h = c
    BY <1>h, <2>0, <2>1 DEF Covered
  <2>3. PICK a \in 0..MaxDelay : a = Age(c)
    BY <2>0, AgeType
  <2>4. Interval - a = due[c] /\ due[c] \in 0..Interval
    BY <2>3, Figures DEF Age
  <2>5. item'.owner = c
    BY <1>5, <2>1, <2>3, LeasedType DEF Renew, RenewFails, Covered
  <2>6. fails'[c] \in 0..MaxFails
    BY <1>5, <1>t DEF Renew, RenewFails, TypeOK
  <2>7. item'.left >= MaxSkew + MaxDelay + due[c]
                        + (MaxFails - fails'[c]) * Interval
    <3>1. CASE item' = Leased(c, a)
      <4>1. /\ item'.left \in Int
            /\ item'.left >= MaxSkew + MaxDelay + (Interval - a)
                               + MaxFails * Interval
        BY <3>1, LeasedCovers
      <4>2. /\ (MaxFails - fails'[c]) * Interval \in Nat
            /\ (MaxFails - fails'[c]) * Interval <= MaxFails * Interval
            /\ MaxFails * Interval \in Nat
        BY <2>6, Products
      <4>3. QED
        BY <2>4, <4>1, <4>2
    <3>2. CASE item' # Leased(c, a)
      <4>1. item' = item /\ fails'[c] = fails[c] + 1 /\ fails[c] < MaxFails
        BY <1>5, <1>t, <2>3, <3>2 DEF Renew, RenewFails, TypeOK
      <4>2. item.left >= MaxSkew + MaxDelay + due[c]
                           + ((MaxFails - fails[c]) * Interval - Interval)
        BY <2>0, <2>1 DEF Covered, Reserve, Pending
      <4>3. /\ (MaxFails - fails[c]) * Interval
                 = Interval + (MaxFails - (fails[c] + 1)) * Interval
            /\ (MaxFails - (fails[c] + 1)) * Interval \in Nat
        BY <4>1, Figures, Products
      <4>4. QED
        BY <2>4, <4>1, <4>2, <4>3
    <3>3. QED
      BY <3>1, <3>2
  <2>8. QED
    BY <2>0, <2>2, <2>5, <2>7 DEF Covered, Reserve, Pending
<1>6. ASSUME NEW c \in Callers, LeaseLost(c) PROVE Covered(h)'
  <2>1. pc[c] = "held"
    BY <1>6, <1>t DEF LeaseLost, AskInv
  <2>2. Covered(c)
    BY <2>1 DEF HeldInv, Leasing
  <2>3. QED
    BY <1>6, <2>2 DEF LeaseLost, Covered
<1>7. ASSUME NEW c \in Callers, StopHeartbeat(c) PROVE Covered(h)'
  <2>1. h # c
    BY <1>7, <1>t DEF StopHeartbeat, Goto, TypeOK, Leasing
  <2>2. QED
    BY <1>7, <1>s, <1>t, <2>1 DEF StopHeartbeat, Goto, TypeOK
<1>8. ASSUME NEW c \in Callers, ReleaseLock(c) PROVE Covered(h)'
  <2>1. h # c
    BY <1>8, <1>t DEF ReleaseLock, Goto, TypeOK, Leasing
  <2>2. Leasing(h) /\ item.owner = h
    BY <1>8, <1>h, <1>t, <2>1
    DEF ReleaseLock, Goto, TypeOK, Leasing, Covered
  <2>3. item' = item
    BY <1>8, <2>1, <2>2 DEF ReleaseLock
  <2>4. QED
    BY <1>8, <1>s, <1>t, <2>1, <2>3 DEF ReleaseLock, Goto, TypeOK
<1>9. ASSUME NEW c \in Callers, Crash(c) PROVE Covered(h)'
  <2>1. h # c
    BY <1>9, <1>t DEF Crash, Goto, TypeOK, Leasing
  <2>2. Leasing(h) /\ item.owner = h
    BY <1>9, <1>h, <1>t, <2>1 DEF Crash, Goto, TypeOK, Leasing, Covered
  <2>3. item' = item
    BY <1>9, <2>1, <2>2 DEF Crash
  <2>4. QED
    BY <1>9, <1>s, <1>t, <2>1, <2>3 DEF Crash, Goto, TypeOK
<1>10. CASE Tick
  <2>1. Covered(h) /\ pc' = pc /\ beat' = beat /\ fails' = fails
    BY <1>10, <1>h DEF Tick, Leasing
  <2>2. Timed(h)
    BY <1>10, <2>1 DEF Tick, Timed, Leasing, Covered
  <2>3. due'[h] = due[h] - 1
    BY <1>10, <1>t, <2>2 DEF Tick, TypeOK
  <2>4. /\ item'.left >= item.left - 1 /\ item'.left \in Int
        /\ item'.owner = item.owner
    BY <1>10, <1>t, Figures DEF Tick, TypeOK
  <2>5. Pending(h)' = Pending(h) /\ Pending(h) \in Int
    BY <2>1, Figures DEF Pending
  <2>6. Reserve(h)' = Reserve(h) - 1 /\ Reserve(h) \in Int
    BY <2>3, <2>5, Figures DEF Reserve
  <2>7. QED
    BY <2>1, <2>4, <2>6, Figures DEF Covered
<1>11. QED
  BY <1>u, <1>1, <1>2, <1>3, <1>4, <1>5, <1>6, <1>7, <1>8, <1>9, <1>10
  DEF Next, Heartbeat

(* A lease whose TTL covers the tolerated missed heartbeats, both clock    *)
(* errors, the way of the put and of its answer and the way of the renewal *)
(* gives mutual exclusion.                                                 *)
THEOREM LeaseExclusive == Spec => []OneHolder
<1>1. HeldInv => OneHolder
  BY DEF HeldInv, Leasing, Covered, OneHolder
<1>2. QED
  BY <1>1, TypeInit, TypeStep, HeldInit, HeldStep, PTL DEF Spec

-----------------------------------------------------------------------------
(* Ownership and refinement hold without any assumption on the heartbeat.  *)

(* How one step may change the lock item.                                  *)
Writes(c) == /\ item'.owner = c /\ item'.left >= MaxSkew
             /\ item.owner = c \/ item.owner = NoOwner \/ item.left < MaxSkew
Deletes(c) == pc[c] = "releasing" /\ item.owner = c /\ item' = NoItem
Ages == /\ item'.owner = item.owner
        /\ item'.left \in {item.left, item.left - 1}

LEMMA ItemMoves ==
  ASSUME TypeInv, [Next]_vars
  PROVE  Ages \/ \E c \in Callers : Writes(c) \/ Deletes(c)
<1>t. item.left \in Int
  BY DEF TypeInv, TypeOK, LongGone
<1>u. ASSUME item' = item PROVE Ages
  BY <1>u DEF Ages
<1>f. ASSUME NEW c \in Callers, NEW age \in 0..MaxDelay, item' = Leased(c, age),
             Free(c, age) \/ item.owner = c
      PROVE  Writes(c)
  <2>1. Skew[c] - age <= MaxSkew
    OBVIOUS
  <2>2. item.owner = c \/ item.owner = NoOwner \/ item.left < MaxSkew
    BY <1>f, <1>t, <2>1 DEF Free
  <2>3. QED
    BY <1>f, <2>2, LeasedType DEF Writes
<1>1. ASSUME NEW c \in Callers, TryAcquire(c) PROVE Writes(c)
  BY <1>1, <1>f DEF TryAcquire
<1>2. ASSUME NEW c \in Callers, Renew(c) \/ RenewFails(c) \/ Crash(c)
      PROVE  Writes(c) \/ Ages
  <2>1. CASE item' = item
    BY <1>u, <2>1
  <2>2. CASE item' # item
    <3>1. beat[c] = "asking" /\ item.owner = c /\ item' = Leased(c, Age(c))
      BY <1>2, <2>2 DEF Renew, RenewFails, Crash
    <3>2. QED
      BY <1>f, <3>1, AgeType
  <2>3. QED
    BY <2>1, <2>2
<1>3. ASSUME NEW c \in Callers, ReleaseLock(c) PROVE Deletes(c) \/ Ages
  BY <1>3, <1>u DEF ReleaseLock, Deletes
<1>4. CASE Tick
  BY <1>4, <1>t DEF Tick, Ages, TypeInv, TypeOK
<1>5. QED
  BY <1>u, <1>1, <1>2, <1>3, <1>4
  DEF Next, Heartbeat, LockReturns, AnswerLost, GiveUp, HeartbeatTick,
      LeaseLost, StopHeartbeat, vars

(* A lease in force leaves its owner only by the owner's own release, even *)
(* when heartbeats fail and earlier owners are still running.              *)
THEOREM LeaseOwnership == Spec => OthersItemUntouched
<1>1. TypeInv /\ [Next]_vars =>
        [\A c \in Callers : item.owner = c /\ item'.owner # c =>
            pc[c] = "releasing" \/ item.left < MaxSkew]_vars
  BY ItemMoves DEF Writes, Deletes, Ages
<1>2. QED
  BY <1>1, TypeInit, TypeStep, PTL DEF Spec, OthersItemUntouched

LEMMA MutexStep ==
  ASSUME TypeInv, [Next]_vars
  PROVE  [Mutex!MutexNext]_Holder
<1>t. item.left \in Int /\ item.owner \in Callers \cup {NoOwner}
  BY DEF TypeInv, TypeOK, LongGone
<1>1. CASE Ages
  <2>1. CASE item.left >= MaxSkew /\ item'.left < MaxSkew
    <3>1. Holder = item.owner /\ Holder' = NoOwner
      BY <1>t, <2>1 DEF Holder
    <3>2. QED
      BY <1>t, <3>1 DEF Mutex!MutexNext, Mutex!Lapse
  <2>2. CASE ~(item.left >= MaxSkew /\ item'.left < MaxSkew)
    <3>1. Holder' = Holder
      BY <1>t, <1>1, <2>2 DEF Holder, Ages
    <3>2. QED
      BY <3>1
  <2>3. QED
    BY <2>1, <2>2
<1>2. ASSUME NEW c \in Callers, Writes(c) PROVE [Mutex!MutexNext]_Holder
  <2>1. Holder' = c
    <3>1. item'.left \in Int
      BY TypeStep DEF TypeInv, TypeOK, LongGone
    <3>2. QED
      BY <1>2, <3>1 DEF Writes, Holder
  <2>2. Holder = NoOwner \/ Holder = c
    BY <1>2 DEF Writes, Holder
  <2>3. QED
    BY <2>1, <2>2 DEF Mutex!MutexNext, Mutex!Acquire
<1>3. ASSUME NEW c \in Callers, Deletes(c) PROVE [Mutex!MutexNext]_Holder
  <2>1. Holder' = NoOwner
    BY <1>3 DEF Deletes, Holder, NoItem
  <2>2. Holder = c \/ Holder = NoOwner
    BY <1>3 DEF Deletes, Holder
  <2>3. QED
    BY <2>1, <2>2 DEF Mutex!MutexNext, Mutex!Release
<1>4. QED
  BY <1>1, <1>2, <1>3, ItemMoves

(* The lease is the lock that the model of the workflow runtime assumes,   *)
(* lapsing included.                                                       *)
THEOREM LeaseRefinesMutex == Spec => ImplementsMutex
<1>1. Init => Mutex!MutexInit
  BY DEF Init, Mutex!MutexInit, Holder, NoItem, LongGone
<1>2. TypeInv /\ [Next]_vars => [Mutex!MutexNext]_Holder
  BY MutexStep
<1>3. QED
  BY <1>1, <1>2, TypeInit, TypeStep, PTL
  DEF Spec, ImplementsMutex, Mutex!MutexSpec
=============================================================================
