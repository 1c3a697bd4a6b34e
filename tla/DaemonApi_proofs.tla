--------------------------- MODULE DaemonApi_proofs ---------------------------
(***************************************************************************)
(* For any number of requests, clients and keys: requests never see each   *)
(* other's credentials, the rate limit is exact, and an outdated answer in *)
(* the cache has one of the three causes StaleOnlyByRace names.            *)
(*                                                                         *)
(* Credentials: deployMu keeps the section to one request; between two     *)
(* sections the environment holds nothing but the daemon's own values, so  *)
(* what a request saves never is another's.                                *)
(***************************************************************************)
EXTENDS DaemonApi, FiniteSetTheorems, TLAPS

Steps ==
    {"new", "lock", "op", "unlock", "unlock_failed",
     "set", "index", "members", "delete", "delete_set"} \cup Ended

(* Only the owner of deployMu is in the section.                           *)
OneInSection == \A r \in Requests : InSection(r) => mutex = r

(* Outside the section the environment is the daemon's own.                *)
CleanWhenFree == mutex = None => \A k \in Keys : env[k] \notin Requests

(* What is put back at the end of the section is the daemon's own.         *)
SavedClean == \A k \in Keys : saved[k] \notin Requests

OwnerInSection == mutex # None => mutex \in Requests /\ InSection(mutex)

EnvInv ==
    /\ pc \in [Requests -> Steps]
    /\ env \in [Keys -> Requests \cup {None, Ambient}]
    /\ saved \in [Keys -> Requests \cup {None, Ambient}]
    /\ OneInSection /\ CleanWhenFree /\ SavedClean /\ OwnerInSection
    /\ OwnCredentials

(* The environment starts as the daemon's own, with nobody in the section. *)
LEMMA EnvInit == Init => EnvInv
BY NamesAssumption DEF Init, EnvInv, Steps, OneInSection, CleanWhenFree, SavedClean,
   OwnerInSection, OwnCredentials, InSection, Ended

(* Entering the section: nobody else is in it, the environment is clean,   *)
(* and afterwards it holds this request's values and no other's.           *)
LEMMA EnterSection ==
    ASSUME NEW r \in Requests, EnvInv, LockEnv(r)
    PROVE  EnvInv'
<1>1. /\ pc[r] = "lock" /\ mutex = None /\ mutex' = r /\ saved' = env
      /\ pc' = [pc EXCEPT ![r] = "op"]
      /\ env' = Promote(ApplyCredentials(r))
  BY DEF LockEnv, Goto
<1>2. \A q \in Requests : ~InSection(q)
  BY <1>1, NamesAssumption DEF EnvInv, OneInSection
<1>3. \A q \in Requests : InSection(q)' <=> q = r
  BY <1>1, <1>2 DEF InSection, EnvInv
<1>4. \A k \in Keys : env[k] \in {None, Ambient}
  BY <1>1 DEF EnvInv, CleanWhenFree
<1>5. \A k \in Keys : env'[k] = IF k \in Carries[r] THEN r ELSE env'[k]
  BY <1>1, NamesAssumption DEF Promote, ApplyCredentials
<1>6. \A k \in Keys \ Carries[r] : env'[k] \in {None, Ambient}
  BY <1>1, <1>4 DEF Promote, ApplyCredentials
<1>7. env' \in [Keys -> Requests \cup {None, Ambient}]
  BY <1>1, <1>5, <1>6 DEF Promote
<1>8. pc' \in [Requests -> Steps]
  BY <1>1 DEF EnvInv, Steps
<1>9. OwnCredentials'
  BY <1>3, <1>5, <1>6, NamesAssumption DEF OwnCredentials
<1>10. OneInSection' /\ OwnerInSection'
  BY <1>1, <1>3 DEF OneInSection, OwnerInSection
<1>11. SavedClean' /\ CleanWhenFree'
  BY <1>1, <1>4, NamesAssumption DEF SavedClean, CleanWhenFree
<1> QED
  BY <1>1, <1>7, <1>8, <1>9, <1>10, <1>11 DEF EnvInv

(* Leaving it: every key that held the request's value is put back.        *)
LEMMA LeaveSection ==
    ASSUME NEW r \in Requests, EnvInv, UnlockEnv(r)
    PROVE  EnvInv'
<1>1. /\ InSection(r) /\ mutex' = None /\ saved' = env'
      /\ pc' = [pc EXCEPT ![r] = AfterUnlock(r)]
      /\ env' = [k \in Keys |-> IF k \in Touched(r) THEN saved[k] ELSE env[k]]
  BY DEF UnlockEnv, Goto, InSection
<1>2. AfterUnlock(r) \in {"failed", "members", "served", "set"}
  BY DEF AfterUnlock
<1>3. \A q \in Requests : ~InSection(q)'
  BY <1>1, <1>2, NamesAssumption DEF InSection, EnvInv, OneInSection
<1>4. Carries[r] \subseteq Touched(r)
  BY RequestsAssumption DEF Touched
<1>5. \A k \in Keys : env'[k] \in {None, Ambient}
  BY <1>1, <1>4 DEF EnvInv, SavedClean, OwnCredentials
<1>6. pc' \in [Requests -> Steps]
  BY <1>1, <1>2 DEF EnvInv, Steps, Ended
<1>7. env' \in [Keys -> Requests \cup {None, Ambient}]
  BY <1>1, <1>5
<1> QED
  BY <1>1, <1>3, <1>5, <1>6, <1>7, NamesAssumption
  DEF EnvInv, OneInSection, OwnerInSection, SavedClean, CleanWhenFree, OwnCredentials

(* Every other step leaves the environment and deployMu alone, and moves   *)
(* its request neither into the section nor out of it.                     *)
LEMMA OtherSteps ==
    ASSUME EnvInv, UNCHANGED <<mutex, env, saved>>, pc' \in [Requests -> Steps],
           \A q \in Requests : InSection(q)' <=> InSection(q)
    PROVE  EnvInv'
BY DEF EnvInv, OneInSection, OwnerInSection, SavedClean, CleanWhenFree, OwnCredentials

(* The invariant holds in every reachable state.                           *)
LEMMA EnvInvariant == Spec => []EnvInv
<1>1. EnvInv /\ [Next]_vars => EnvInv'
  <2> SUFFICES ASSUME EnvInv, [Next]_vars PROVE EnvInv'
    OBVIOUS
  <2> USE DEF redis, limiter
  <2>1. CASE UNCHANGED vars
    <3>1. UNCHANGED <<pc, mutex, env, saved>>
      BY <2>1 DEF vars
    <3> QED
      BY <3>1, OtherSteps DEF EnvInv, InSection
  <2>2. CASE Tick
    <3>1. UNCHANGED <<pc, mutex, env, saved>>
      BY <2>2 DEF Tick
    <3> QED
      BY <3>1, OtherSteps DEF EnvInv, InSection
  <2>3. ASSUME NEW r \in Requests, Handle(r) PROVE EnvInv'
    <3> DEFINE Moves(s) == pc' = [pc EXCEPT ![r] = s] /\ UNCHANGED <<mutex, env, saved>>
    <3>1. ASSUME NEW s \in Steps \ {"op", "unlock", "unlock_failed"},
                 Moves(s), ~InSection(r)
          PROVE  EnvInv'
      BY <3>1, OtherSteps DEF EnvInv, InSection
    <3>2. ASSUME NEW s \in {"unlock", "unlock_failed"}, Moves(s), pc[r] = "op"
          PROVE  EnvInv'
      <4>1. pc' \in [Requests -> Steps]
        BY <3>2 DEF EnvInv, Steps
      <4>2. \A q \in Requests : InSection(q)' <=> InSection(q)
        BY <3>2 DEF EnvInv, InSection
      <4> QED
        BY <3>2, <4>1, <4>2, OtherSteps
    <3>3. CASE ServeCached(r)
      BY <3>1, <3>3 DEF ServeCached, Goto, Steps, Ended, InSection
    <3>4. CASE AuthorizeAndLimit(r)
      <4>1. PICK s \in {"limited", "lock"} : Moves(s)
        BY <3>4 DEF AuthorizeAndLimit, Goto
      <4> QED
        BY <3>1, <3>4, <4>1 DEF AuthorizeAndLimit, Steps, Ended, InSection
    <3>5. CASE LockEnv(r)
      BY <3>5, EnterSection
    <3>6. CASE Plan(r)
      BY <3>2, <3>6 DEF Plan, Goto
    <3>7. CASE Deploy(r)
      BY <3>2, <3>7 DEF Deploy, Goto
    <3>8. CASE OperationFails(r)
      BY <3>2, <3>8 DEF OperationFails, Goto
    <3>9. CASE UnlockEnv(r)
      BY <3>9, LeaveSection
    <3>10. CASE SetAnswer(r)
      BY <3>1, <3>10 DEF SetAnswer, Goto, Steps, InSection
    <3>11. CASE IndexAnswer(r)
      BY <3>1, <3>11 DEF IndexAnswer, Goto, Steps, Ended, InSection
    <3>12. CASE StageMembers(r)
      BY <3>1, <3>12 DEF StageMembers, Goto, Steps, InSection
    <3>13. CASE DeleteMembers(r)
      BY <3>1, <3>13 DEF DeleteMembers, Goto, Steps, InSection
    <3>14. CASE DeleteStageSet(r)
      BY <3>1, <3>14 DEF DeleteStageSet, Goto, Steps, Ended, InSection
    <3>15. CASE RedisFails(r)
      <4>1. PICK s \in {"index", "delete_set", "served"} : Moves(s)
        BY <3>15 DEF RedisFails, Goto
      <4> QED
        BY <3>1, <3>15, <4>1 DEF RedisFails, Steps, Ended, InSection
    <3> QED
      BY <2>3, <3>3, <3>4, <3>5, <3>6, <3>7, <3>8, <3>9, <3>10, <3>11, <3>12, <3>13,
         <3>14, <3>15 DEF Handle
  <2> QED
    BY <2>1, <2>2, <2>3 DEF Next
<1> QED
  BY <1>1, EnvInit, PTL DEF Spec

(* An operation works with the credentials its own request brought and     *)
(* never with another request's: withProviderCreds.                        *)
THEOREM CredentialsIsolated == Spec => []OwnCredentials
<1>1. EnvInv => OwnCredentials
  BY DEF EnvInv
<1> QED
  BY <1>1, EnvInvariant, PTL

(* Whatever a request ended with, nothing of its credentials is left in    *)
(* the environment once nobody is in the section.                          *)
THEOREM CredentialsGone == Spec => []CredentialsRestored
<1>1. EnvInv => CredentialsRestored
  BY NamesAssumption DEF EnvInv, OwnerInSection, CleanWhenFree, CredentialsRestored
<1> QED
  BY <1>1, EnvInvariant, PTL

-----------------------------------------------------------------------------
(* The rate limit                                                          *)

(* A client's bucket holds only its own requests and all of those let      *)
(* through in the last window, which are never too many.                   *)
LimiterInv ==
    /\ hits \in [Clients -> SUBSET Requests]
    /\ age \in [Requests -> 0..(Window + 1)]
    /\ \A c \in Clients :
         /\ \A r \in hits[c] : Client[r] = c
         /\ LetThrough(c) \subseteq hits[c]
         /\ IsFiniteSet(LetThrough(c))
    /\ RateBounded

(* What the filter leaves of a bucket, swept or not, are the requests let  *)
(* through in the window: a sweep drops no bucket with such a request.     *)
LEMMA KeptIsLetThrough ==
    ASSUME LimiterInv, NEW c \in Clients
    PROVE  Kept(Swept[c]) = LetThrough(c)
<1>1. Kept(hits[c]) = LetThrough(c)
  BY DEF LimiterInv, Kept, LetThrough
<1>2. CASE Swept[c] = hits[c]
  BY <1>1, <1>2
<1>3. CASE Swept[c] # hits[c]
  <2>1. Swept[c] = {} /\ \A r \in hits[c] : ~(age[r] <= Window)
    BY <1>3 DEF Swept
  <2>2. \A r \in Requests : age[r] < Window => age[r] <= Window
    BY TimesAssumption DEF LimiterInv
  <2>3. LetThrough(c) = {}
    BY <2>1, <2>2 DEF LimiterInv, LetThrough
  <2> QED
    BY <2>1, <2>3 DEF Kept
<1> QED
  BY <1>2, <1>3

(* Nobody has been let through at the start.                               *)
LEMMA LimiterInit == Init => LimiterInv
<1> SUFFICES ASSUME Init PROVE LimiterInv
  OBVIOUS
<1>1. \A c \in Clients : LetThrough(c) = {}
  BY TimesAssumption DEF Init, LetThrough
<1>2. IsFiniteSet({}) /\ Cardinality({}) = 0
  BY FS_EmptySet
<1>3. RateBounded
  BY <1>1, <1>2, TimesAssumption DEF RateBounded
<1>4. age \in [Requests -> 0..(Window + 1)]
  BY TimesAssumption DEF Init
<1> QED
  BY <1>1, <1>2, <1>3, <1>4 DEF Init, LimiterInv

(* A request is added to the window only while there is room for it.       *)
LEMMA LimiterAuthorize ==
    ASSUME NEW r \in Requests, LimiterInv, AuthorizeAndLimit(r)
    PROVE  LimiterInv'
<1> DEFINE c == Client[r]
           limited == Cardinality(LetThrough(c)) >= RateLimitN
<1>0. c \in Clients
  BY RequestsAssumption
<1>1. Kept(Swept[c]) = LetThrough(c)
  BY <1>0, KeptIsLetThrough
<1>2. /\ hits' = [Swept EXCEPT ![c] = IF limited THEN LetThrough(c)
                                      ELSE LetThrough(c) \cup {r}]
      /\ age' = IF limited THEN age ELSE [age EXCEPT ![r] = 0]
  BY <1>1 DEF AuthorizeAndLimit
<1>3. \A b \in Clients : Swept[b] \subseteq hits[b] /\ LetThrough(b) \subseteq Swept[b]
  <2> TAKE b \in Clients
  <2>1. Kept(Swept[b]) = LetThrough(b)
    BY KeptIsLetThrough
  <2> QED
    BY <2>1 DEF Swept, Kept
<1>4. Swept \in [Clients -> SUBSET Requests]
  BY DEF Swept, LimiterInv
<1>5. LetThrough(c) \subseteq Requests
  BY DEF LetThrough
<1>6. hits' \in [Clients -> SUBSET Requests]
  BY <1>2, <1>4, <1>5
<1>7. age' \in [Requests -> 0..(Window + 1)]
  BY <1>2, TimesAssumption DEF LimiterInv
<1>8. \A b \in Clients : b # c => LetThrough(b)' = LetThrough(b)
  BY <1>2 DEF LetThrough, LimiterInv
<1>9. LetThrough(c)' = IF limited THEN LetThrough(c) ELSE LetThrough(c) \cup {r}
  BY <1>2, TimesAssumption DEF LetThrough, LimiterInv
<1>10. hits'[c] = LetThrough(c)'
  BY <1>0, <1>2, <1>4, <1>9
<1>11. \A b \in Clients : b # c => hits'[b] = Swept[b]
  BY <1>2, <1>4
<1>12. \A b \in Clients : /\ \A q \in hits'[b] : Client[q] = b
                          /\ LetThrough(b)' \subseteq hits'[b]
  BY <1>3, <1>8, <1>10, <1>11 DEF LimiterInv, LetThrough
<1>13. IsFiniteSet(LetThrough(c)) /\ Cardinality(LetThrough(c)) \in Nat
  BY <1>0, FS_CardinalityType DEF LimiterInv
<1>14. /\ IsFiniteSet(LetThrough(c) \cup {r})
       /\ \/ Cardinality(LetThrough(c) \cup {r}) = Cardinality(LetThrough(c))
          \/ Cardinality(LetThrough(c) \cup {r}) = Cardinality(LetThrough(c)) + 1
  BY <1>13, FS_AddElement
<1>15. Cardinality(LetThrough(c)) <= RateLimitN
  BY <1>0 DEF LimiterInv, RateBounded
<1>16. IsFiniteSet(LetThrough(c)') /\ Cardinality(LetThrough(c)') <= RateLimitN
  BY <1>9, <1>13, <1>14, <1>15, TimesAssumption
<1>17. RateBounded'
  BY <1>8, <1>16 DEF LimiterInv, RateBounded
<1> QED
  BY <1>6, <1>7, <1>8, <1>12, <1>16, <1>17 DEF LimiterInv

(* Time only takes requests out of the window.                             *)
LEMMA LimiterTick == LimiterInv /\ Tick => LimiterInv'
<1> SUFFICES ASSUME LimiterInv, Tick PROVE LimiterInv'
  OBVIOUS
<1>1. hits' = hits /\ age' = [r \in Requests |-> Older(age[r])]
  BY DEF Tick
<1>2. \A r \in Requests : age'[r] \in 0..(Window + 1) /\ (age'[r] < Window => age[r] < Window)
  BY <1>1, TimesAssumption DEF LimiterInv, Older
<1>3. age' \in [Requests -> 0..(Window + 1)]
  BY <1>1, <1>2
<1>4. \A c \in Clients : LetThrough(c)' \subseteq LetThrough(c)
  BY <1>2 DEF LetThrough
<1>5. \A c \in Clients : /\ IsFiniteSet(LetThrough(c)')
                         /\ Cardinality(LetThrough(c)') <= Cardinality(LetThrough(c))
                         /\ Cardinality(LetThrough(c)') \in Nat
                         /\ Cardinality(LetThrough(c)) \in Nat
  <2> TAKE c \in Clients
  <2>1. IsFiniteSet(LetThrough(c)) /\ LetThrough(c)' \subseteq LetThrough(c)
    BY <1>4 DEF LimiterInv
  <2> QED
    BY <2>1, FS_Subset, FS_CardinalityType
<1>6. RateBounded'
  BY <1>5, TimesAssumption DEF LimiterInv, RateBounded
<1> QED
  BY <1>1, <1>3, <1>4, <1>5, <1>6 DEF LimiterInv

(* Nobody else touches the limiter.                                        *)
LEMMA LimiterFrame == LimiterInv /\ UNCHANGED limiter => LimiterInv'
BY DEF LimiterInv, limiter, LetThrough, RateBounded

(* Of a request's steps only authorizeAndLimit changes the limiter, and    *)
(* only it turns a request away.                                           *)
LEMMA LimiterStep ==
    ASSUME NEW r \in Requests, Handle(r)
    PROVE  AuthorizeAndLimit(r) \/ UNCHANGED limiter
BY DEF Handle, ServeCached, LockEnv, Plan, Deploy, OperationFails, UnlockEnv, SetAnswer,
       IndexAnswer, StageMembers, DeleteMembers, DeleteStageSet, RedisFails

LEMMA LimitedStep ==
    ASSUME EnvInv, NEW r \in Requests, Handle(r),
           NEW q \in Requests, pc[q] # "limited", pc'[q] = "limited"
    PROVE  q = r /\ AuthorizeAndLimit(r)
<1>1. AuthorizeAndLimit(r) \/ \E s \in Steps \ {"limited"} : Goto(r, s)
  BY DEF Handle, ServeCached, LockEnv, Plan, Deploy, OperationFails, UnlockEnv, SetAnswer,
         IndexAnswer, StageMembers, DeleteMembers, DeleteStageSet, RedisFails, AfterUnlock,
         Steps, Ended
<1>2. \E s \in Steps : pc' = [pc EXCEPT ![r] = s]
  BY <1>1 DEF AuthorizeAndLimit, Goto, Steps, Ended
<1>3. q = r
  BY <1>2 DEF EnvInv
<1> QED
  BY <1>1, <1>3 DEF EnvInv, Goto

LEMMA LimiterInvariant == Spec => []LimiterInv
<1>1. LimiterInv /\ [Next]_vars => LimiterInv'
  <2> SUFFICES ASSUME LimiterInv, [Next]_vars PROVE LimiterInv'
    OBVIOUS
  <2>1. CASE UNCHANGED vars
    BY <2>1, LimiterFrame DEF vars
  <2>2. CASE Tick
    BY <2>2, LimiterTick
  <2>3. ASSUME NEW r \in Requests, Handle(r) PROVE LimiterInv'
    BY <2>3, LimiterStep, LimiterAuthorize, LimiterFrame
  <2> QED
    BY <2>1, <2>2, <2>3 DEF Next
<1> QED
  BY <1>1, LimiterInit, PTL DEF Spec

(* authorizeAndLimit lets at most RateLimitN requests of a client through  *)
(* in any window, although sweepLocked throws buckets away.                *)
THEOREM LimitHolds == Spec => []RateBounded
<1>1. LimiterInv => RateBounded
  BY DEF LimiterInv
<1> QED
  BY <1>1, LimiterInvariant, PTL

(* Nobody is turned away before RateLimitN requests of the same client     *)
(* really went through in the window.                                      *)
THEOREM LimitNotEarly == Spec => LimitedOnlyAtLimit
<1> DEFINE Limits == \A r \in Requests :
                       pc[r] # "limited" /\ pc'[r] = "limited" =>
                           Cardinality(LetThrough(Client[r])) = RateLimitN
<1>1. EnvInv /\ LimiterInv /\ [Next]_vars => [Limits]_vars
  <2> SUFFICES ASSUME EnvInv, LimiterInv, Next,
                      NEW q \in Requests, pc[q] # "limited", pc'[q] = "limited"
               PROVE  Cardinality(LetThrough(Client[q])) = RateLimitN
    OBVIOUS
  <2>1. PICK r \in Requests : Handle(r)
    BY DEF Next, Tick
  <2>2. q = r /\ AuthorizeAndLimit(q)
    BY <2>1, LimitedStep
  <2>3. Client[q] \in Clients
    BY RequestsAssumption
  <2>4. Kept(Swept[Client[q]]) = LetThrough(Client[q])
    BY <2>3, KeptIsLetThrough
  <2>5. pc'[q] = IF Cardinality(LetThrough(Client[q])) >= RateLimitN THEN "limited" ELSE "lock"
    BY <2>2, <2>4 DEF AuthorizeAndLimit, Goto, EnvInv
  <2>6. Cardinality(LetThrough(Client[q])) \in Nat
    BY <2>3, FS_CardinalityType DEF LimiterInv
  <2>7. Cardinality(LetThrough(Client[q])) <= RateLimitN
    BY <2>3 DEF LimiterInv, RateBounded
  <2> QED
    BY <2>5, <2>6, <2>7, TimesAssumption
<1> QED
  BY <1>1, EnvInvariant, LimiterInvariant, PTL DEF Spec, LimitedOnlyAtLimit

-----------------------------------------------------------------------------
(* The cache                                                               *)

StaleType ==
    /\ data \in Nat /\ val \in [Requests -> Nat]
    /\ cache \in [val : Int, by : Requests \cup {None}, left : Nat]
    /\ index \in BOOLEAN /\ found \in [Requests -> BOOLEAN] /\ silent \in BOOLEAN

(* A plan that is under way together with a deploy is marked.              *)
OverlapsMarked == \A r, d \in Requests : Filling(r) /\ Unsettled(d) => r \in raced

(* The cached answer was stored by a request that goes on to index it.     *)
StoredBy == cache # NoAnswer => cache.by \in Requests /\ pc[cache.by] \in {"index", "served"}

(* What an unmarked plan read and has not stored yet is still true.        *)
ReadIsFresh ==
    \A r \in Requests \ raced : Filling(r) /\ pc[r] # "index" => val[r] = data

(* An unmarked answer is indexed once its plan has ended, so that every    *)
(* deploy that read the index since then found it, and none is past the    *)
(* deletion; it is outdated only while a deploy is on its way there.       *)
AnswerReachable ==
    cache # NoAnswer /\ cache.by \notin raced =>
        /\ pc[cache.by] = "served" =>
             index /\ \A d \in Requests : (pc[d] = "delete" => found[d]) /\ pc[d] # "delete_set"
        /\ cache.val # data => \E d \in Requests : Unsettled(d)

StaleInv ==
    /\ StaleType /\ OverlapsMarked /\ StoredBy
    /\ ~silent => ReadIsFresh /\ AnswerReachable

LEMMA StaleInit == Init => StaleInv
<1> SUFFICES ASSUME Init PROVE StaleInv
  OBVIOUS
<1>1. cache = NoAnswer /\ \A r \in Requests : pc[r] = "new"
  BY DEF Init
<1>2. cache \in [val : Int, by : Requests \cup {None}, left : Nat]
  BY DEF Init, NoAnswer
<1>3. data \in Nat /\ val \in [Requests -> Nat]
  BY DEF Init
<1>4. index \in BOOLEAN /\ found \in [Requests -> BOOLEAN] /\ silent \in BOOLEAN
  BY DEF Init
<1> QED
  BY <1>1, <1>2, <1>3, <1>4
  DEF StaleInv, StaleType, OverlapsMarked, StoredBy, ReadIsFresh, AnswerReachable,
      Filling, Unsettled

(* Marks are set by every overlap, and a mark stays with a plan until it   *)
(* has ended and its answer is gone.                                       *)
LEMMA Marks ==
    ASSUME Track
    PROVE  /\ OverlapsMarked'
           /\ \A q \in Requests : q \in raced /\ (pc'[q] \notin Ended \/ cache'.by = q) => q \in raced'
BY DEF Track, OverlapsMarked

(* What was read stays true while the stage does not change.               *)
LEMMA FreshKept ==
    ASSUME StaleInv, Track, ~silent, data' = data,
           \A q \in Requests : Filling(q)' /\ pc'[q] # "index" =>
               q \in raced \/ (Filling(q) /\ pc[q] # "index" /\ val'[q] = val[q])
    PROVE  ReadIsFresh'
<1> SUFFICES ASSUME NEW q \in Requests, q \notin raced', Filling(q)', pc'[q] # "index"
             PROVE  val'[q] = data
  BY DEF ReadIsFresh
<1>1. pc'[q] \notin Ended
  BY DEF Filling, Ended
<1> QED
  BY <1>1, Marks DEF StaleInv, ReadIsFresh

(* A step that leaves Redis and the stage alone, by a request that neither *)
(* begins to fill the cache nor settles.                                   *)
LEMMA QuietStep ==
    ASSUME EnvInv, StaleInv, Track, NEW r \in Requests, NEW s \in Steps, Goto(r, s),
           UNCHANGED <<data, val, cache, index, found, silent>>,
           pc[r] \notin {"index", "served"}, s \notin {"delete", "delete_set"},
           Filling(r)' => Filling(r), Unsettled(r) => Unsettled(r)'
    PROVE  StaleInv'
<1>1. pc'[r] = s /\ \A q \in Requests \ {r} : pc'[q] = pc[q]
  BY DEF Goto, EnvInv
<1>2. \A q \in Requests : /\ Filling(q)' => Filling(q)
                          /\ Filling(q)' /\ pc[q] = "index" => pc'[q] = "index"
                          /\ Unsettled(q) => Unsettled(q)'
  BY <1>1 DEF Filling, Unsettled
<1>3. cache # NoAnswer => cache.by \in Requests \ {r}
  BY DEF StaleInv, StoredBy
<1>4. StaleType' /\ OverlapsMarked'
  BY Marks DEF StaleInv, StaleType
<1>5. StoredBy'
  BY <1>1, <1>3 DEF StaleInv, StoredBy, NoAnswer
<1>6. ASSUME ~silent' PROVE ReadIsFresh'
  BY <1>1, <1>2, <1>6, FreshKept
<1>7. ASSUME ~silent' PROVE AnswerReachable'
  <2> SUFFICES ASSUME cache # NoAnswer, cache.by \notin raced'
               PROVE  /\ pc'[cache.by] = "served" =>
                           index /\ \A d \in Requests :
                                      (pc'[d] = "delete" => found[d]) /\ pc'[d] # "delete_set"
                      /\ cache.val # data => \E d \in Requests : Unsettled(d)'
    BY DEF AnswerReachable, NoAnswer
  <2>1. cache.by \notin raced
    BY <1>3, Marks
  <2>2. /\ pc[cache.by] = "served" =>
             index /\ \A d \in Requests : (pc[d] = "delete" => found[d]) /\ pc[d] # "delete_set"
        /\ cache.val # data => \E d \in Requests : Unsettled(d)
    BY <1>7, <2>1 DEF StaleInv, AnswerReachable
  <2>3. pc'[cache.by] = pc[cache.by]
    BY <1>1, <1>3
  <2> QED
    BY <1>1, <1>2, <2>2, <2>3
<1> QED
  BY <1>4, <1>5, <1>6, <1>7 DEF StaleInv

(* After a failure that nobody is told of, only the shape is left to show. *)
LEMMA SilentStep ==
    ASSUME EnvInv, StaleInv, Track, NEW r \in Requests, NEW s \in Steps, Goto(r, s),
           silent', StaleType', cache' = cache,
           pc[r] = "index" => s = "served", pc[r] # "served"
    PROVE  StaleInv'
<1>1. pc'[r] = s /\ \A q \in Requests \ {r} : pc'[q] = pc[q]
  BY DEF Goto, EnvInv
<1>2. StoredBy'
  BY <1>1 DEF StaleInv, StoredBy, NoAnswer
<1> QED
  BY <1>2, Marks DEF StaleInv

(* The operations.  A plan reads what is true; after a deploy everything   *)
(* that is under way is marked, and what is cached has a deploy to wait    *)
(* for.                                                                    *)
LEMMA StalePlan ==
    ASSUME EnvInv, StaleInv, Track, NEW r \in Requests, Plan(r)
    PROVE  StaleInv'
<1>1. /\ pc[r] = "op" /\ Op[r] = "plan" /\ pc'[r] = "unlock"
      /\ \A q \in Requests \ {r} : pc'[q] = pc[q]
      /\ UNCHANGED <<data, cache, index, found, silent>>
  BY DEF Plan, Goto, EnvInv, redis
<1>2. /\ val' = [val EXCEPT ![r] = data] /\ val \in [Requests -> Nat] /\ data \in Nat
  BY DEF Plan, StaleInv, StaleType
<1>3. /\ \A q \in Requests \ {r} : Filling(q)' => Filling(q)
      /\ \A q \in Requests : Unsettled(q) => Unsettled(q)'
  BY <1>1 DEF Filling, Unsettled
<1>4. cache # NoAnswer => cache.by \in Requests \ {r}
  BY <1>1 DEF StaleInv, StoredBy
<1>5. StaleType' /\ OverlapsMarked'
  BY <1>1, <1>2, Marks DEF StaleInv, StaleType
<1>6. StoredBy'
  BY <1>1, <1>4 DEF StaleInv, StoredBy, NoAnswer
<1>7. ASSUME ~silent' PROVE ReadIsFresh'
  <2> SUFFICES ASSUME NEW q \in Requests, q \notin raced', Filling(q)', pc'[q] # "index"
               PROVE  val'[q] = data'
    BY DEF ReadIsFresh
  <2>1. CASE q = r
    BY <1>1, <1>2, <2>1
  <2>2. CASE q # r
    <3>1. pc'[q] \notin Ended
      BY DEF Filling, Ended
    <3>2. q \notin raced /\ Filling(q) /\ pc[q] # "index" /\ val'[q] = val[q]
      BY <1>1, <1>2, <1>3, <2>2, <3>1, Marks
    <3> QED
      BY <1>1, <1>7, <3>2 DEF StaleInv, ReadIsFresh
  <2> QED
    BY <2>1, <2>2
<1>8. ASSUME ~silent' PROVE AnswerReachable'
  <2> SUFFICES ASSUME cache # NoAnswer, cache.by \notin raced'
               PROVE  AnswerReachable'
    BY <1>1 DEF AnswerReachable, NoAnswer
  <2>1. cache.by \notin raced
    BY <1>1, <1>4, Marks
  <2>2. pc'[cache.by] = pc[cache.by]
    BY <1>1, <1>4
  <2> QED
    BY <1>1, <1>3, <1>8, <2>1, <2>2 DEF StaleInv, AnswerReachable, NoAnswer
<1> QED
  BY <1>5, <1>6, <1>7, <1>8 DEF StaleInv

LEMMA StaleDeploy ==
    ASSUME EnvInv, StaleInv, Track, NEW r \in Requests, Deploy(r)
    PROVE  StaleInv'
<1>1. /\ pc[r] = "op" /\ Op[r] = "deploy" /\ pc'[r] = "unlock"
      /\ \A q \in Requests \ {r} : pc'[q] = pc[q]
      /\ UNCHANGED <<val, cache, index, found, silent>> /\ data' = data + 1
  BY DEF Deploy, Goto, EnvInv, redis
<1>2. Unsettled(r)'
  BY <1>1 DEF Unsettled
<1>3. cache # NoAnswer => cache.by \in Requests \ {r}
  BY <1>1 DEF StaleInv, StoredBy
<1>4. StaleType' /\ OverlapsMarked'
  BY <1>1, Marks DEF StaleInv, StaleType
<1>5. StoredBy'
  BY <1>1, <1>3 DEF StaleInv, StoredBy, NoAnswer
<1>6. ReadIsFresh'
  BY <1>2, <1>4 DEF ReadIsFresh, OverlapsMarked
<1>7. ASSUME ~silent' PROVE AnswerReachable'
  <2> SUFFICES ASSUME cache # NoAnswer, cache.by \notin raced'
               PROVE  AnswerReachable'
    BY <1>1 DEF AnswerReachable, NoAnswer
  <2>1. cache.by \notin raced
    BY <1>1, <1>3, Marks
  <2>2. pc'[cache.by] = pc[cache.by]
    BY <1>1, <1>3
  <2> QED
    BY <1>1, <1>2, <1>7, <2>1, <2>2 DEF StaleInv, AnswerReachable, NoAnswer
<1> QED
  BY <1>4, <1>5, <1>6, <1>7 DEF StaleInv

(* Redis.  An unmarked plan stores what is true and, when it ends, has     *)
(* indexed it with no deploy about.                                        *)
LEMMA StaleSet ==
    ASSUME EnvInv, StaleInv, Track, NEW r \in Requests, SetAnswer(r)
    PROVE  StaleInv'
<1>1. /\ pc[r] = "set" /\ pc'[r] = "index"
      /\ \A q \in Requests \ {r} : pc'[q] = pc[q]
      /\ UNCHANGED <<data, index, found, silent>>
  BY DEF SetAnswer, Goto, EnvInv
<1>2. /\ cache' = [val |-> val[r], by |-> r, left |-> TTL]
      /\ val' = [val EXCEPT ![r] = 0] /\ val \in [Requests -> Nat]
  BY DEF SetAnswer, StaleInv, StaleType, Lifetime
<1>3. /\ \A q \in Requests \ {r} : Filling(q)' => Filling(q)
      /\ \A q \in Requests : Unsettled(q) => Unsettled(q)'
  BY <1>1 DEF Filling, Unsettled
<1>4. StaleType' /\ OverlapsMarked'
  BY <1>1, <1>2, TimesAssumption, Marks DEF StaleInv, StaleType
<1>5. StoredBy'
  BY <1>1, <1>2 DEF StoredBy
<1>6. ASSUME ~silent' PROVE ReadIsFresh'
  BY <1>1, <1>2, <1>3, <1>6, FreshKept
<1>7. ASSUME ~silent' PROVE AnswerReachable'
  <2>1. ASSUME r \notin raced' PROVE val[r] = data
    <3>1. r \notin raced
      BY <1>1, <2>1, Marks DEF Ended
    <3> QED
      BY <1>1, <1>7, <3>1 DEF StaleInv, ReadIsFresh, Filling
  <2>2. cache'.by = r /\ cache'.val = val[r]
    BY <1>2
  <2> QED
    BY <1>1, <2>1, <2>2 DEF AnswerReachable
<1> QED
  BY <1>4, <1>5, <1>6, <1>7 DEF StaleInv

LEMMA StaleIndex ==
    ASSUME EnvInv, StaleInv, Track, NEW r \in Requests, IndexAnswer(r)
    PROVE  StaleInv'
<1>1. /\ pc[r] = "index" /\ pc'[r] = "served" /\ index' = TRUE
      /\ \A q \in Requests \ {r} : pc'[q] = pc[q]
      /\ UNCHANGED <<data, val, cache, found, silent>>
  BY DEF IndexAnswer, Goto, EnvInv
<1>2. /\ \A q \in Requests : Filling(q)' => Filling(q) /\ q # r
      /\ \A q \in Requests : Unsettled(q) <=> Unsettled(q)'
  BY <1>1 DEF Filling, Unsettled
<1>3. StaleType' /\ OverlapsMarked'
  BY <1>1, Marks DEF StaleInv, StaleType
<1>4. StoredBy'
  BY <1>1 DEF StaleInv, StoredBy, NoAnswer
<1>5. ASSUME ~silent' PROVE ReadIsFresh'
  BY <1>1, <1>2, <1>5, FreshKept
<1>6. ASSUME ~silent' PROVE AnswerReachable'
  <2> SUFFICES ASSUME cache # NoAnswer, cache.by \notin raced'
               PROVE  AnswerReachable'
    BY <1>1 DEF AnswerReachable, NoAnswer
  <2>0. cache.by \in Requests
    BY DEF StaleInv, StoredBy
  <2>1. cache.by \notin raced
    BY <1>1, <2>0, Marks
  <2>2. cache.val # data => \E d \in Requests : Unsettled(d)'
    BY <1>2, <1>6, <1>1, <2>1 DEF StaleInv, AnswerReachable
  <2>3. CASE cache.by = r
    <3>1. \A d \in Requests : ~Unsettled(d)
      BY <1>1, <2>1, <2>3 DEF StaleInv, OverlapsMarked, Filling
    <3>2. \A d \in Requests : pc'[d] \notin {"delete", "delete_set"}
      BY <1>1, <3>1 DEF Unsettled
    <3> QED
      BY <1>1, <2>2, <3>2 DEF AnswerReachable, NoAnswer
  <2>4. CASE cache.by # r
    <3>1. pc'[cache.by] = pc[cache.by]
      BY <1>1, <2>0, <2>4
    <3> QED
      BY <1>1, <1>6, <2>1, <2>2, <3>1 DEF StaleInv, AnswerReachable, NoAnswer
  <2> QED
    BY <2>3, <2>4
<1> QED
  BY <1>3, <1>4, <1>5, <1>6 DEF StaleInv

(* A deploy reads the index while every unmarked answer is in it, deletes  *)
(* what it found, and drops the index only when no such answer is left.    *)
LEMMA StaleMembers ==
    ASSUME EnvInv, StaleInv, Track, NEW r \in Requests, StageMembers(r)
    PROVE  StaleInv'
<1>1. /\ pc[r] = "members" /\ pc'[r] = "delete"
      /\ \A q \in Requests \ {r} : pc'[q] = pc[q]
      /\ UNCHANGED <<data, val, cache, index, silent>>
  BY DEF StageMembers, Goto, EnvInv
<1>2. /\ found' = [found EXCEPT ![r] = index] /\ found \in [Requests -> BOOLEAN]
      /\ index \in BOOLEAN
  BY DEF StageMembers, StaleInv, StaleType
<1>3. /\ \A q \in Requests : Filling(q)' => Filling(q) /\ pc'[q] = pc[q]
      /\ \A q \in Requests : Unsettled(q) => Unsettled(q)'
  BY <1>1 DEF Filling, Unsettled
<1>4. cache # NoAnswer => cache.by \in Requests \ {r}
  BY <1>1 DEF StaleInv, StoredBy
<1>5. StaleType' /\ OverlapsMarked'
  BY <1>1, <1>2, Marks DEF StaleInv, StaleType
<1>6. StoredBy'
  BY <1>1, <1>4 DEF StaleInv, StoredBy, NoAnswer
<1>7. ASSUME ~silent' PROVE ReadIsFresh'
  BY <1>1, <1>3, <1>7, FreshKept
<1>8. ASSUME ~silent' PROVE AnswerReachable'
  <2> SUFFICES ASSUME cache # NoAnswer, cache.by \notin raced'
               PROVE  AnswerReachable'
    BY <1>1 DEF AnswerReachable, NoAnswer
  <2>1. cache.by \notin raced
    BY <1>1, <1>4, Marks
  <2>2. pc'[cache.by] = pc[cache.by]
    BY <1>1, <1>4
  <2>3. /\ pc[cache.by] = "served" =>
             index /\ \A d \in Requests : (pc[d] = "delete" => found[d]) /\ pc[d] # "delete_set"
        /\ cache.val # data => \E d \in Requests : Unsettled(d)
    BY <1>1, <1>8, <2>1 DEF StaleInv, AnswerReachable
  <2>4. ASSUME pc[cache.by] = "served"
        PROVE  \A d \in Requests : (pc'[d] = "delete" => found'[d]) /\ pc'[d] # "delete_set"
    <3> TAKE d \in Requests
    <3>1. CASE d = r
      BY <1>1, <1>2, <2>3, <2>4, <3>1
    <3>2. CASE d # r
      BY <1>1, <1>2, <2>3, <2>4, <3>2
    <3> QED
      BY <3>1, <3>2
  <2>5. cache.val # data => \E d \in Requests : Unsettled(d)'
    BY <1>3, <2>3
  <2> QED
    BY <1>1, <2>2, <2>3, <2>4, <2>5 DEF AnswerReachable
<1> QED
  BY <1>5, <1>6, <1>7, <1>8 DEF StaleInv

LEMMA StaleDelete ==
    ASSUME EnvInv, StaleInv, Track, NEW r \in Requests, DeleteMembers(r)
    PROVE  StaleInv'
<1>1. /\ pc[r] = "delete" /\ pc'[r] = "delete_set"
      /\ \A q \in Requests \ {r} : pc'[q] = pc[q]
      /\ cache' = IF found[r] THEN NoAnswer ELSE cache
      /\ UNCHANGED <<data, val, index, silent>>
  BY DEF DeleteMembers, Goto, EnvInv
<1>2. found' = [found EXCEPT ![r] = FALSE] /\ found \in [Requests -> BOOLEAN]
  BY DEF DeleteMembers, StaleInv, StaleType
<1>3. \A q \in Requests : Filling(q)' => Filling(q) /\ pc'[q] = pc[q]
  BY <1>1 DEF Filling
<1>4. cache # NoAnswer => cache.by \in Requests \ {r}
  BY <1>1 DEF StaleInv, StoredBy
<1>5. StaleType'
  BY <1>1, <1>2 DEF StaleInv, StaleType, NoAnswer
<1>6. StoredBy'
  BY <1>1, <1>4 DEF StaleInv, StoredBy, NoAnswer
<1>7. ASSUME ~silent' PROVE ReadIsFresh'
  BY <1>1, <1>3, <1>7, FreshKept
<1>8. ASSUME ~silent' PROVE AnswerReachable'
  <2> SUFFICES ASSUME cache' # NoAnswer, cache'.by \notin raced'
               PROVE  AnswerReachable'
    BY DEF AnswerReachable, NoAnswer
  <2>1. cache' = cache /\ ~found[r] /\ cache # NoAnswer
    BY <1>1
  <2>2. cache.by \notin raced
    BY <1>4, <2>1, Marks
  <2>3. pc[cache.by] # "served"
    BY <1>1, <1>8, <2>1, <2>2 DEF StaleInv, AnswerReachable
  <2>4. pc[cache.by] = "index" /\ Unsettled(r)
    BY <1>1, <2>1, <2>3 DEF StaleInv, StoredBy, Unsettled
  <2>5. cache.by \in raced
    BY <1>4, <2>1, <2>4 DEF StaleInv, OverlapsMarked, Filling
  <2> QED
    BY <2>2, <2>5
<1> QED
  BY <1>5, <1>6, <1>7, <1>8, Marks DEF StaleInv

LEMMA StaleDeleteSet ==
    ASSUME EnvInv, StaleInv, Track, NEW r \in Requests, DeleteStageSet(r)
    PROVE  StaleInv'
<1>1. /\ pc[r] = "delete_set" /\ pc'[r] = "served" /\ index' = FALSE
      /\ \A q \in Requests \ {r} : pc'[q] = pc[q]
      /\ UNCHANGED <<data, val, cache, found, silent>>
  BY DEF DeleteStageSet, Goto, EnvInv
<1>2. \A q \in Requests : Filling(q)' => Filling(q) /\ pc'[q] = pc[q]
  BY <1>1 DEF Filling
<1>3. cache # NoAnswer => cache.by \in Requests \ {r}
  BY <1>1 DEF StaleInv, StoredBy
<1>4. StaleType'
  BY <1>1 DEF StaleInv, StaleType
<1>5. StoredBy'
  BY <1>1, <1>3 DEF StaleInv, StoredBy, NoAnswer
<1>6. ASSUME ~silent' PROVE ReadIsFresh'
  BY <1>1, <1>2, <1>6, FreshKept
<1>7. ASSUME ~silent' PROVE AnswerReachable'
  <2> SUFFICES ASSUME cache # NoAnswer, cache.by \notin raced'
               PROVE  FALSE
    BY <1>1 DEF AnswerReachable, NoAnswer
  <2>1. cache.by \notin raced
    BY <1>1, <1>3, Marks
  <2>2. pc[cache.by] = "index" /\ Unsettled(r)
    BY <1>1, <1>7, <2>1 DEF StaleInv, StoredBy, AnswerReachable, Unsettled
  <2> QED
    BY <1>3, <2>1, <2>2 DEF StaleInv, OverlapsMarked, Filling
<1> QED
  BY <1>4, <1>5, <1>6, <1>7, Marks DEF StaleInv

(* Time takes the answer away or leaves it as it is.                       *)
LEMMA StaleTick ==
    ASSUME EnvInv, StaleInv, Track, Tick
    PROVE  StaleInv'
<1>1. UNCHANGED <<pc, data, val, index, found, silent>>
  BY DEF Tick
<1>2. cache' = NoAnswer \/ (cache # NoAnswer /\ cache'.by = cache.by /\ cache'.val = cache.val)
  BY DEF Tick, StaleInv, StaleType, NoAnswer
<1>3. cache' \in [val : Int, by : Requests \cup {None}, left : Nat]
  BY DEF Tick, StaleInv, StaleType, NoAnswer
<1>4. StaleType' /\ StoredBy'
  BY <1>1, <1>2, <1>3 DEF StaleInv, StaleType, StoredBy, NoAnswer
<1>5. \A q \in Requests : (Filling(q)' <=> Filling(q)) /\ (Unsettled(q)' <=> Unsettled(q))
  BY <1>1 DEF Filling, Unsettled
<1>6. ASSUME ~silent' PROVE ReadIsFresh'
  BY <1>1, <1>5, <1>6, FreshKept
<1>7. ASSUME ~silent' PROVE AnswerReachable'
  <2> SUFFICES ASSUME cache' # NoAnswer, cache'.by \notin raced'
               PROVE  AnswerReachable'
    BY DEF AnswerReachable, NoAnswer
  <2>1. cache # NoAnswer /\ cache'.by = cache.by /\ cache'.val = cache.val
    BY <1>2
  <2>2. cache.by \notin raced
    BY <2>1, Marks DEF StaleInv, StoredBy
  <2>3. /\ pc[cache.by] = "served" =>
             index /\ \A d \in Requests : (pc[d] = "delete" => found[d]) /\ pc[d] # "delete_set"
        /\ cache.val # data => \E d \in Requests : Unsettled(d)
    BY <1>1, <1>7, <2>1, <2>2 DEF StaleInv, AnswerReachable
  <2> QED
    BY <1>1, <1>5, <2>1, <2>3 DEF AnswerReachable
<1> QED
  BY <1>4, <1>6, <1>7, Marks DEF StaleInv

(* An operation that failed: either nothing changed, or silent says so.    *)
LEMMA StaleFails ==
    ASSUME EnvInv, StaleInv, Track, NEW r \in Requests, OperationFails(r) \/ RedisFails(r)
    PROVE  StaleInv'
<1>1. CASE OperationFails(r)
  <2>1. /\ pc[r] = "op" /\ Goto(r, "unlock_failed") /\ UNCHANGED <<val, cache, index, found>>
        /\ data' \in {data, data + 1} /\ silent' = (silent \/ data' # data)
    BY <1>1 DEF OperationFails, redis
  <2>2. StaleType'
    BY <2>1 DEF StaleInv, StaleType
  <2>3. pc'[r] = "unlock_failed"
    BY <2>1 DEF Goto, EnvInv
  <2>4. CASE data' # data
    BY <2>1, <2>2, <2>4, SilentStep DEF Steps
  <2>5. CASE data' = data
    <3>1. silent' = silent
      BY <2>1, <2>5 DEF StaleInv, StaleType
    <3> QED
      BY <2>1, <2>3, <2>5, <3>1, QuietStep DEF Steps, Filling, Unsettled
  <2> QED
    BY <2>4, <2>5
<1>2. CASE RedisFails(r)
  <2>1. silent' /\ UNCHANGED <<data, val, cache, index, found>>
    BY <1>2 DEF RedisFails, redis
  <2>2. PICK s \in {"index", "delete_set", "served"} :
            Goto(r, s) /\ (pc[r] = "index" => s = "served") /\ pc[r] # "served"
    BY <1>2 DEF RedisFails, Goto
  <2>3. StaleType'
    BY <1>2, <2>1 DEF RedisFails, StaleInv, StaleType
  <2> QED
    BY <2>1, <2>2, <2>3, SilentStep DEF Steps, Ended
<1> QED
  BY <1>1, <1>2

(* The remaining steps leave Redis and the stage alone.                    *)
LEMMA StaleQuiet ==
    ASSUME EnvInv, StaleInv, Track, NEW r \in Requests,
           ServeCached(r) \/ AuthorizeAndLimit(r) \/ LockEnv(r) \/ UnlockEnv(r)
    PROVE  StaleInv'
<1>1. UNCHANGED <<data, val, cache, index, found, silent>>
  BY DEF ServeCached, AuthorizeAndLimit, LockEnv, UnlockEnv, redis
<1>2. CASE UnlockEnv(r)
  <2>1. Goto(r, AfterUnlock(r)) /\ pc[r] \in {"unlock", "unlock_failed"}
    BY <1>2 DEF UnlockEnv
  <2>2. AfterUnlock(r) \in {"failed", "members", "served", "set"}
    BY DEF AfterUnlock
  <2>3. pc'[r] = AfterUnlock(r)
    BY <2>1 DEF Goto, EnvInv
  <2>4. (Filling(r)' => Filling(r)) /\ (Unsettled(r) => Unsettled(r)')
    BY <2>1, <2>3, RequestsAssumption DEF Filling, Unsettled, AfterUnlock
  <2> QED
    BY <1>1, <2>1, <2>2, <2>4, QuietStep DEF Steps, Ended
<1>3. CASE ServeCached(r) \/ AuthorizeAndLimit(r) \/ LockEnv(r)
  <2>1. pc[r] \in {"new", "lock"} /\ \E s \in {"served", "limited", "lock", "op"} : Goto(r, s)
    BY <1>3 DEF ServeCached, AuthorizeAndLimit, LockEnv
  <2>2. PICK s \in {"served", "limited", "lock", "op"} : Goto(r, s)
    BY <2>1
  <2>3. pc'[r] = s
    BY <2>2 DEF Goto, EnvInv
  <2> QED
    BY <1>1, <2>1, <2>2, <2>3, QuietStep DEF Steps, Ended, Filling, Unsettled
<1> QED
  BY <1>2, <1>3

LEMMA StaleInvariant == Spec => []StaleInv
<1>1. EnvInv /\ StaleInv /\ [Next]_vars => StaleInv'
  <2> SUFFICES ASSUME EnvInv, StaleInv, [Next]_vars PROVE StaleInv'
    OBVIOUS
  <2>1. CASE UNCHANGED vars
    <3>1. UNCHANGED <<pc, data, val, cache, index, found, raced, silent>>
      BY <2>1 DEF vars, redis
    <3> QED
      BY <3>1 DEF StaleInv, StaleType, OverlapsMarked, StoredBy, ReadIsFresh,
                  AnswerReachable, Filling, Unsettled, NoAnswer
  <2>2. CASE Tick /\ Track
    BY <2>2, StaleTick
  <2>3. ASSUME NEW r \in Requests, Handle(r), Track PROVE StaleInv'
    BY <2>3, StaleQuiet, StaleFails, StalePlan, StaleDeploy, StaleSet, StaleIndex,
       StaleMembers, StaleDelete, StaleDeleteSet DEF Handle
  <2> QED
    BY <2>1, <2>2, <2>3 DEF Next
<1> QED
  BY <1>1, StaleInit, EnvInvariant, PTL DEF Spec

(* invalidateStage misses an outdated answer only if its plan overlapped   *)
(* with the deploy, or the deploy failed half-way, or a Redis command did. *)
THEOREM StaleAnswersRaced == Spec => []StaleOnlyByRace
<1>1. StaleInv => StaleOnlyByRace
  BY DEF StaleInv, AnswerReachable, StaleOnlyByRace
<1> QED
  BY <1>1, StaleInvariant, PTL
=============================================================================
