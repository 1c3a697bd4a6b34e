------------------------------ MODULE DaemonApi ------------------------------
(***************************************************************************)
(* The daemon's config API for one stage: the Redis cache in front of it,  *)
(* the sliding-window rate limit, and the section in which a request's own *)
(* credentials replace the ones in the process environment.                *)
(*                                                                         *)
(* Requests run concurrently.  A plan reads what is deployed and its       *)
(* answer is cached; a deploy changes it and invalidates the stage when it *)
(* succeeds.  Both work under deployMu, but the cache is read before it is *)
(* taken, and written after it is released, one Redis command at a time.   *)
(*                                                                         *)
(* Time passes in ticks; stamps are kept as ages, so that an age at the    *)
(* cap stands for everything older.  A request passes the limiter at most  *)
(* once: a client's list of stamps is the set of requests they belong to.  *)
(***************************************************************************)
EXTENDS Integers, FiniteSets

CONSTANTS
    Requests,    \* requests for one stage
    Clients,     \* client addresses
    Keys,        \* environment variables of credentials
    None,        \* unset, nobody, nothing
    Ambient,     \* a value from the daemon's own environment
    Op,          \* per request: "plan" or "deploy"
    Client,      \* per request: where it comes from
    Carries,     \* per request: the keys it brings values for
    Group,       \* per key: all keys of its provider
    Configured,  \* keys that are set in the daemon's environment
    Scoped,      \* keys with a scoped variable that is promoted to them
    RateLimitN,  \* requests allowed per window
    Window,      \* rateWindow, in ticks
    TTL          \* lifetime of a cached answer, in ticks

ASSUME NamesAssumption == None \notin Requests /\ Ambient \notin Requests
ASSUME RequestsAssumption ==
    /\ Op \in [Requests -> {"plan", "deploy"}]
    /\ Client \in [Requests -> Clients]
    /\ Carries \in [Requests -> SUBSET Keys]
    /\ Group \in [Keys -> SUBSET Keys] /\ \A k \in Keys : k \in Group[k]
    /\ Configured \subseteq Keys /\ Scoped \subseteq Keys
ASSUME TimesAssumption ==
    RateLimitN \in Nat \ {0} /\ Window \in Nat \ {0} /\ TTL \in Nat \ {0}

VARIABLES
    pc,        \* per request: its next step, or how it ended
    mutex,     \* deployMu
    env,       \* per key: whose value the environment holds
    saved,     \* the environment before the current request's credentials
    data,      \* what is deployed, as a number that grows
    val,       \* per request: what it read of data
    cache,     \* the cached answer: what it shows, who stored it, time left
    index,     \* the answer's key is in the stage's set of keys
    found,     \* per request: its invalidation read the key from that set
    hits,      \* per client: the requests whose stamps the limiter keeps
    sweptAge,  \* age of the last sweep of the limiter
    age,       \* per request: age of its stamp; one past the window if it has none
    raced,     \* plans that were under way together with a deploy
    silent     \* the stage changed without an invalidation reaching Redis

limiter == <<hits, sweptAge, age>>
redis == <<cache, index, found>>
vars == <<pc, mutex, env, saved, data, val, redis, limiter, raced, silent>>

NoAnswer == [val |-> -1, by |-> None, left |-> 0]
Ended == {"served", "failed", "limited"}

Credentialed(r) == Carries[r] # {}

(* Every key of a group of which the request brings one.                   *)
Touched(r) == UNION {Group[k] : k \in Carries[r]}

Goto(r, step) == pc' = [pc EXCEPT ![r] = step]

Init ==
    /\ pc = [r \in Requests |-> "new"]
    /\ mutex = None
    /\ env = [k \in Keys |-> IF k \in Configured THEN Ambient ELSE None]
    /\ saved = env
    /\ data = 0
    /\ val = [r \in Requests |-> 0]
    /\ cache = NoAnswer /\ index = FALSE
    /\ found = [r \in Requests |-> FALSE]
    /\ hits = [c \in Clients |-> {}] /\ sweptAge = Window
    /\ age = [r \in Requests |-> Window + 1]
    /\ raced = {} /\ silent = FALSE

-----------------------------------------------------------------------------
(* Cache lookup and rate limit                                             *)

(* Once per window the buckets are dropped whose newest request is older.  *)
Swept ==
    IF sweptAge < Window THEN hits
    ELSE [c \in Clients |->
            IF \E r \in hits[c] : age[r] <= Window THEN hits[c] ELSE {}]

(* Mutants: a window one tick too short, one too long.                     *)
MutantKeptShort(bucket) == {r \in bucket : age[r] < Window - 1}
MutantKeptLong(bucket) == {r \in bucket : age[r] <= Window}
Kept(bucket) == {r \in bucket : age[r] < Window}

(* Only a plan without credentials looks into the cache, and a hit is      *)
(* answered without the limiter.                                           *)
Looks(r) == Op[r] = "plan" /\ ~Credentialed(r)

ServeCached(r) ==
    /\ pc[r] = "new" /\ Looks(r) /\ cache # NoAnswer
    /\ Goto(r, "served")
    /\ UNCHANGED <<mutex, env, saved, data, val, redis, limiter, silent>>

(* Also the way of a request that looks, for an error of Redis is a miss.  *)
AuthorizeAndLimit(r) ==
    /\ pc[r] = "new"
    /\ sweptAge' = IF sweptAge < Window THEN sweptAge ELSE 0
    /\ LET c == Client[r]
           kept == Kept(Swept[c])
           limited == Cardinality(kept) >= RateLimitN
       IN /\ hits' = [Swept EXCEPT ![c] = IF limited THEN kept ELSE kept \cup {r}]
          /\ age' = IF limited THEN age ELSE [age EXCEPT ![r] = 0]
          /\ Goto(r, IF limited THEN "limited" ELSE "lock")
    /\ UNCHANGED <<mutex, env, saved, data, val, redis, silent>>

-----------------------------------------------------------------------------
(* The section under deployMu                                              *)

(* The groups the request touches are cleared, then its values are set.    *)
ApplyCredentials(r) ==
    [k \in Keys |-> IF k \in Carries[r] THEN r
                    ELSE IF k \in Touched(r) THEN None ELSE env[k]]

(* Bootstrap promotes scoped variables to the native names that are unset. *)
Promote(e) == [k \in Keys |-> IF k \in Scoped /\ e[k] = None THEN Ambient ELSE e[k]]

(* Mutant: the lock is taken only by requests with credentials.            *)
MutantLockEnv(r) ==
    /\ pc[r] = "lock" /\ (Credentialed(r) => mutex = None)
    /\ mutex' = IF Credentialed(r) THEN r ELSE mutex
    /\ saved' = env
    /\ env' = Promote(ApplyCredentials(r))
    /\ Goto(r, "op")
    /\ UNCHANGED <<data, val, redis, limiter, silent>>

LockEnv(r) ==
    /\ pc[r] = "lock" /\ mutex = None
    /\ mutex' = r
    /\ saved' = env
    /\ env' = Promote(ApplyCredentials(r))
    /\ Goto(r, "op")
    /\ UNCHANGED <<data, val, redis, limiter, silent>>

Plan(r) ==
    /\ pc[r] = "op" /\ Op[r] = "plan"
    /\ val' = [val EXCEPT ![r] = data]
    /\ Goto(r, "unlock")
    /\ UNCHANGED <<mutex, env, saved, data, redis, limiter, silent>>

Deploy(r) ==
    /\ pc[r] = "op" /\ Op[r] = "deploy"
    /\ data' = data + 1
    /\ Goto(r, "unlock")
    /\ UNCHANGED <<mutex, env, saved, val, redis, limiter, silent>>

(* An operation can fail, a deploy also after it changed the stage: the    *)
(* answer is an error, and nothing is cached or invalidated.               *)
OperationFails(r) ==
    /\ pc[r] = "op"
    /\ data' \in IF Op[r] = "deploy" THEN {data, data + 1} ELSE {data}
    /\ silent' = (silent \/ data' # data)
    /\ Goto(r, "unlock_failed")
    /\ UNCHANGED <<mutex, env, saved, val, redis, limiter>>

(* Mutant: the path for credentialed requests returns without invalidating. *)
MutantAfterUnlock(r) ==
    IF pc[r] = "unlock_failed" THEN "failed"
    ELSE IF Credentialed(r) THEN "served"
    ELSE IF Op[r] = "deploy" THEN "members" ELSE "set"

AfterUnlock(r) ==
    IF pc[r] = "unlock_failed" THEN "failed"
    ELSE IF Op[r] = "deploy" THEN "members"
    ELSE IF Credentialed(r) THEN "served" ELSE "set"

(* Mutants: a failed operation skips the restore, or keeps the lock.       *)
MutantUnlockDirty(r) ==
    /\ pc[r] \in {"unlock", "unlock_failed"}
    /\ env' = [k \in Keys |->
                 IF k \in Touched(r) /\ pc[r] = "unlock" THEN saved[k] ELSE env[k]]
    /\ mutex' = None
    /\ saved' = saved
    /\ Goto(r, AfterUnlock(r))
    /\ UNCHANGED <<data, val, redis, limiter, silent>>

MutantUnlockNever(r) ==
    /\ pc[r] \in {"unlock", "unlock_failed"}
    /\ env' = [k \in Keys |-> IF k \in Touched(r) THEN saved[k] ELSE env[k]]
    /\ mutex' = IF pc[r] = "unlock" THEN None ELSE r
    /\ saved' = env'
    /\ Goto(r, AfterUnlock(r))
    /\ UNCHANGED <<data, val, redis, limiter, silent>>

(* The touched keys get their former values back, and the lock is freed.   *)
UnlockEnv(r) ==
    /\ pc[r] \in {"unlock", "unlock_failed"}
    /\ env' = [k \in Keys |-> IF k \in Touched(r) THEN saved[k] ELSE env[k]]
    /\ mutex' = None
    /\ saved' = env'
    /\ Goto(r, AfterUnlock(r))
    /\ UNCHANGED <<data, val, redis, limiter, silent>>

-----------------------------------------------------------------------------
(* Redis                                                                   *)

(* An answer lives as long as its endpoint allows; to Redis zero is for    *)
(* ever.  Mutant: no lifetime is passed on.                                *)
MutantLifetime == 0
Lifetime == TTL

SetAnswer(r) ==
    /\ pc[r] = "set"
    /\ cache' = [val |-> val[r], by |-> r, left |-> Lifetime]
    /\ val' = [val EXCEPT ![r] = 0]
    /\ Goto(r, "index")
    /\ UNCHANGED <<mutex, env, saved, data, index, found, limiter, silent>>

IndexAnswer(r) ==
    /\ pc[r] = "index"
    /\ index' = TRUE
    /\ Goto(r, "served")
    /\ UNCHANGED <<mutex, env, saved, data, val, cache, found, limiter, silent>>

StageMembers(r) ==
    /\ pc[r] = "members"
    /\ found' = [found EXCEPT ![r] = index]
    /\ Goto(r, "delete")
    /\ UNCHANGED <<mutex, env, saved, data, val, cache, index, limiter, silent>>

DeleteMembers(r) ==
    /\ pc[r] = "delete"
    /\ cache' = IF found[r] THEN NoAnswer ELSE cache
    /\ found' = [found EXCEPT ![r] = FALSE]
    /\ Goto(r, "delete_set")
    /\ UNCHANGED <<mutex, env, saved, data, val, index, limiter, silent>>

DeleteStageSet(r) ==
    /\ pc[r] = "delete_set"
    /\ index' = FALSE
    /\ Goto(r, "served")
    /\ UNCHANGED <<mutex, env, saved, data, val, cache, found, limiter, silent>>

(* The errors of Redis commands are dropped: the command has no effect and *)
(* the next one follows; without members there is nothing to delete.  One  *)
(* silent failure at most: the bound of this action.                       *)
RedisFails(r) ==
    /\ ~silent
    /\ pc[r] \in {"set", "index", "members", "delete", "delete_set"}
    /\ silent' = TRUE
    /\ Goto(r, CASE pc[r] = "set"    -> "index"
                 [] pc[r] = "delete" -> "delete_set"
                 [] OTHER            -> "served")
    /\ UNCHANGED <<mutex, env, saved, data, val, redis, limiter>>

-----------------------------------------------------------------------------
Older(a) == IF a > Window THEN a ELSE a + 1

Tick ==
    /\ age' = [r \in Requests |-> Older(age[r])]
    /\ sweptAge' = IF sweptAge < Window THEN sweptAge + 1 ELSE sweptAge
    /\ cache' = CASE cache.left = 0 -> cache
                  [] cache.left = 1 -> NoAnswer
                  [] OTHER          -> [cache EXCEPT !.left = @ - 1]
    /\ UNCHANGED <<pc, mutex, env, saved, data, val, index, found, hits, silent>>

Handle(r) ==
    \/ ServeCached(r) \/ AuthorizeAndLimit(r) \/ LockEnv(r)
    \/ Plan(r) \/ Deploy(r) \/ OperationFails(r) \/ UnlockEnv(r)
    \/ SetAnswer(r) \/ IndexAnswer(r)
    \/ StageMembers(r) \/ DeleteMembers(r) \/ DeleteStageSet(r) \/ RedisFails(r)

(* A plan fills the cache from its read on, a deploy is unsettled from the *)
(* change until the stage's keys are gone.                                 *)
Filling(r) ==
    pc[r] \in {"set", "index"} \/ (pc[r] = "unlock" /\ Op[r] = "plan")
Unsettled(r) ==
    \/ pc[r] \in {"members", "delete", "delete_set"}
    \/ pc[r] = "unlock" /\ Op[r] = "deploy"

Track ==
    raced' = {r \in Requests :
                \/ r \in raced /\ (pc'[r] \notin Ended \/ cache'.by = r)
                \/ Filling(r)' /\ \E d \in Requests : Unsettled(d)'}

Next == (Tick \/ \E r \in Requests : Handle(r)) /\ Track

(* Time passes, and the server's goroutines are scheduled.  The only step  *)
(* of a request that can be disabled again is to take deployMu, which is   *)
(* fair: a waiter that starves puts Go's mutex into starvation mode.       *)
Fairness ==
    /\ WF_vars(Tick /\ Track)
    /\ \A r \in Requests : SF_vars(Handle(r) /\ Track)

Spec == Init /\ [][Next]_vars
FairSpec == Spec /\ Fairness

-----------------------------------------------------------------------------
(* Properties                                                              *)

InSection(r) == pc[r] \in {"op", "unlock", "unlock_failed"}

(* An operation works with the credentials of its own request and never    *)
(* with those of another: what it brought is there, and where it brought   *)
(* nothing the environment holds the daemon's value or none.               *)
OwnCredentials ==
    \A r \in Requests : InSection(r) =>
        \A k \in Keys : IF k \in Carries[r] THEN env[k] = r ELSE env[k] \notin Requests

(* No request leaves its credentials behind, whether it succeeded or not.  *)
CredentialsRestored ==
    (\A r \in Requests : ~InSection(r)) => \A k \in Keys : env[k] \notin Requests

(* The client's requests that were let through within the last window,     *)
(* whether the limiter still knows of them or not.                         *)
LetThrough(c) == {r \in Requests : Client[r] = c /\ age[r] < Window}

(* No client gets more than RateLimitN requests past the limiter within    *)
(* any window, sweeps of its bucket included.                              *)
RateBounded == \A c \in Clients : Cardinality(LetThrough(c)) <= RateLimitN

(* And it is turned away only when that many really went through.          *)
LimitedOnlyAtLimit ==
    [][\A r \in Requests :
          pc[r] # "limited" /\ pc'[r] = "limited" =>
              Cardinality(LetThrough(Client[r])) = RateLimitN]_vars

(* The cache may show an outdated plan only if that plan was under way     *)
(* together with a deploy, or the deploy failed half-way or lost Redis.    *)
StaleOnlyByRace ==
    cache # NoAnswer /\ cache.val # data =>
        \/ cache.by \in raced
        \/ \E d \in Requests : Unsettled(d)
        \/ silent

(* However it came about, an outdated plan disappears from the cache.      *)
StaleExpires ==
    (cache # NoAnswer /\ cache.val # data) ~> (cache = NoAnswer \/ cache.val = data)

(* Requests under way are all answered in the end: no error path keeps     *)
(* deployMu.                                                               *)
RequestsEnd ==
    (\E r \in Requests : pc[r] \notin {"new"} \cup Ended) ~>
        (\A r \in Requests : pc[r] \in {"new"} \cup Ended)
=============================================================================
