-------------------------- MODULE PostIdempotency --------------------------
(***************************************************************************)
(* POST /posts with an X-Idempotency-Key: the result cache and in-flight   *)
(* lock of app/api/dependencies/client.py around the create_post handler   *)
(* of app/domain/posts/routers/post_router.py.                             *)
(*                                                                         *)
(* A key stands for the fingerprint of user and header; a post for the     *)
(* request that created it.  The lock holds the constant "1", so Redis     *)
(* knows that a key is locked and not by whom.                             *)
(***************************************************************************)
EXTENDS Naturals, FiniteSets

CONSTANTS Requests,  \* POST requests, each used once
          Keys,      \* fingerprints
          NoKey,     \* no header, or a blank one
          NoPost,    \* no cached result
          Faults,    \* the kinds of fault that may happen
          MaxFaults  \* bound on their number

FaultKinds == {"redisError",       \* a Redis call raises and had no effect
               "redisReplyLost",   \* a Redis call raises after taking effect
               "commitReplyLost",  \* COMMIT raises after the server committed
               "lockExpiry",       \* the lock's TTL ends
               "resultExpiry",     \* the cached result's TTL ends
               "crash"}            \* the process dies in the handler

(* The faults after which the result cache may not hold a sent answer. *)
CacheFaults == {"redisError", "redisReplyLost", "resultExpiry"}

ASSUME PostIdempotencyAssumption ==
  /\ IsFiniteSet(Requests)
  /\ NoKey \notin Keys
  /\ NoPost \notin Requests
  /\ Faults \subseteq FaultKinds
  /\ MaxFaults \in Nat

VARIABLES
  posts,       \* committed posts
  result,      \* idemp:post:create:res:{fp}
  lock,        \* keys whose idemp:post:create:lock:{fp} exists
  pc,          \* control state of each request
  key,         \* its key
  answer,      \* the post named in its 201 response
  faults,      \* history: number of faults so far
  cacheFaults, \* history: how many of them are CacheFaults
  late         \* history: requests sent after a 201 for their key

vars == <<posts, result, lock, pc, key, answer, faults, cacheFaults, late>>
faultVars == <<faults, cacheFaults>>

InFlightStates == {"creating", "created", "stored", "failing"}
States == InFlightStates \cup
          {"new", "missed", "replayed", "conflict", "done", "failed", "crashed"}

(* Types; in particular only a request that sent a key goes through the
   Redis steps of post_create_idempotency_before and its two after hooks. *)
TypeOK ==
  /\ posts \subseteq Requests
  /\ result \in [Keys -> Requests \cup {NoPost}]
  /\ lock \subseteq Keys
  /\ pc \in [Requests -> States]
  /\ key \in [Requests -> Keys \cup {NoKey}]
  /\ \A r \in Requests : pc[r] \in {"missed", "created", "stored", "failing"} => key[r] \in Keys
  /\ answer \in [Requests -> Requests \cup {NoPost}]
  /\ faults \in 0..MaxFaults
  /\ cacheFaults \in 0..faults
  /\ late \subseteq Requests

Init ==
  /\ posts = {}
  /\ result = [k \in Keys |-> NoPost]
  /\ lock = {}
  /\ pc = [r \in Requests |-> "new"]
  /\ key = [r \in Requests |-> NoKey]
  /\ answer = [r \in Requests |-> NoPost]
  /\ faults = 0
  /\ cacheFaults = 0
  /\ late = {}

Fault(kind) ==
  /\ kind \in Faults
  /\ faults < MaxFaults
  /\ faults' = faults + 1
  /\ cacheFaults' = cacheFaults + IF kind \in CacheFaults THEN 1 ELSE 0

RedisRaises(lost) == Fault(IF lost THEN "redisReplyLost" ELSE "redisError")

Goto(r, state) == pc' = [pc EXCEPT ![r] = state]

----------------------------------------------------------------------------
(* post_create_idempotency_before *)

(* Arrival: history of whether the client retries an answered key. *)
Arrive(r, k) ==
  /\ pc[r] = "new"
  /\ key' = [key EXCEPT ![r] = k]
  /\ late' = IF \E q \in Requests : pc[q] = "done" /\ key[q] = k /\ k # NoKey
             THEN late \cup {r} ELSE late

(* Defect: a blank header is hashed and locked like a key. *)
StartWithBlankKey(r) ==
  /\ Arrive(r, NoKey)
  /\ Goto(r, "creating")
  /\ lock' = lock \cup {NoKey}
  /\ UNCHANGED <<posts, result, answer, faultVars>>

(* No key: the handler runs unprotected. *)
StartWithoutKey(r) ==
  /\ Arrive(r, NoKey)
  /\ Goto(r, "creating")
  /\ UNCHANGED <<posts, result, lock, answer, faultVars>>

(* Defect: the fingerprint leaves the user out. *)
GetResultUnscoped(r, k) ==
  /\ Arrive(r, k)
  /\ \E other \in Keys :
       IF result[other] = NoPost
       THEN Goto(r, "missed") /\ UNCHANGED answer
       ELSE Goto(r, "replayed") /\ answer' = [answer EXCEPT ![r] = result[other]]
  /\ UNCHANGED <<posts, result, lock, faultVars>>

(* GET result: a hit is replayed, a miss goes on to the lock. *)
GetResult(r, k) ==
  /\ Arrive(r, k)
  /\ IF result[k] = NoPost
     THEN Goto(r, "missed") /\ UNCHANGED answer
     ELSE Goto(r, "replayed") /\ answer' = [answer EXCEPT ![r] = result[k]]
  /\ UNCHANGED <<posts, result, lock, faultVars>>

(* Redis is down: fail-open, the handler runs without the lock. *)
GetResultFails(r, k) ==
  /\ Arrive(r, k)
  /\ RedisRaises(FALSE)
  /\ Goto(r, "creating")
  /\ UNCHANGED <<posts, result, lock, answer>>

(* Defect: SET without NX. *)
TakeLockWithoutNX(r) ==
  /\ pc[r] = "missed"
  /\ Goto(r, "creating")
  /\ lock' = lock \cup {key[r]}
  /\ UNCHANGED <<posts, result, key, answer, faultVars, late>>

(* SET NX EX lock "1": 409 when it is held. *)
TakeLock(r) ==
  /\ pc[r] = "missed"
  /\ Goto(r, IF key[r] \in lock THEN "conflict" ELSE "creating")
  /\ lock' = lock \cup {key[r]}
  /\ UNCHANGED <<posts, result, key, answer, faultVars, late>>

TakeLockFails(r, lost) ==
  /\ pc[r] = "missed"
  /\ RedisRaises(lost)
  /\ Goto(r, "creating")
  /\ lock' = IF lost THEN lock \cup {key[r]} ELSE lock
  /\ UNCHANGED <<posts, result, key, answer, late>>

----------------------------------------------------------------------------
(* PostService.create_post, one transaction *)

CreatePost(r) ==
  /\ pc[r] = "creating"
  /\ posts' = posts \cup {r}
  /\ Goto(r, IF key[r] = NoKey THEN "done" ELSE "created")
  /\ answer' = [answer EXCEPT ![r] = r]
  /\ UNCHANGED <<result, lock, key, faultVars, late>>

(* It raises: rejected or rolled back, or committed with the reply lost. *)
CreatePostFails(r, committed) ==
  /\ pc[r] = "creating"
  /\ IF committed
     THEN Fault("commitReplyLost") /\ posts' = posts \cup {r}
     ELSE UNCHANGED <<posts, faultVars>>
  /\ Goto(r, IF key[r] = NoKey THEN "failed" ELSE "failing")
  /\ UNCHANGED <<result, lock, key, answer, late>>

----------------------------------------------------------------------------
(* post_create_idempotency_after_success: SET result, then DEL lock *)

(* Defect: the 201 is not cached. *)
StoreResultSkipped(r) ==
  /\ pc[r] = "created"
  /\ Goto(r, "stored")
  /\ UNCHANGED <<posts, result, lock, key, answer, faultVars, late>>

StoreResult(r) ==
  /\ pc[r] = "created"
  /\ result' = [result EXCEPT ![key[r]] = r]
  /\ Goto(r, "stored")
  /\ UNCHANGED <<posts, lock, key, answer, faultVars, late>>

(* The SET raises: logged, and the lock is released all the same. *)
StoreResultFails(r, lost) ==
  /\ pc[r] = "created"
  /\ RedisRaises(lost)
  /\ result' = IF lost THEN [result EXCEPT ![key[r]] = r] ELSE result
  /\ Goto(r, "stored")
  /\ UNCHANGED <<posts, lock, key, answer, late>>

(* The end of a handler, with or without success: DEL lock, whoever set it. *)
Outcome(r) == IF pc[r] = "stored" THEN "done" ELSE "failed"

(* Defect: a failed handler leaves the lock to its TTL. *)
ReleaseLockOnSuccess(r) ==
  /\ pc[r] \in {"stored", "failing"}
  /\ lock' = IF pc[r] = "stored" THEN lock \ {key[r]} ELSE lock
  /\ Goto(r, Outcome(r))
  /\ UNCHANGED <<posts, result, key, answer, faultVars, late>>

ReleaseLock(r) ==
  /\ pc[r] \in {"stored", "failing"}
  /\ lock' = lock \ {key[r]}
  /\ Goto(r, Outcome(r))
  /\ UNCHANGED <<posts, result, key, answer, faultVars, late>>

ReleaseLockFails(r, lost) ==
  /\ pc[r] \in {"stored", "failing"}
  /\ RedisRaises(lost)
  /\ lock' = IF lost THEN lock \ {key[r]} ELSE lock
  /\ Goto(r, Outcome(r))
  /\ UNCHANGED <<posts, result, key, answer, late>>

----------------------------------------------------------------------------
Crash(r) ==
  /\ pc[r] \in InFlightStates \cup {"missed"}
  /\ Fault("crash")
  /\ Goto(r, "crashed")
  /\ UNCHANGED <<posts, result, lock, key, answer, late>>

LockExpires(k) ==
  /\ k \in lock
  /\ Fault("lockExpiry")
  /\ lock' = lock \ {k}
  /\ UNCHANGED <<posts, result, pc, key, answer, late>>

ResultExpires(k) ==
  /\ result[k] # NoPost
  /\ Fault("resultExpiry")
  /\ result' = [result EXCEPT ![k] = NoPost]
  /\ UNCHANGED <<posts, lock, pc, key, answer, late>>

RequestStep(r) ==
  \/ StartWithoutKey(r)
  \/ \E k \in Keys : GetResult(r, k) \/ GetResultFails(r, k)
  \/ TakeLock(r)
  \/ CreatePost(r)
  \/ StoreResult(r)
  \/ ReleaseLock(r)
  \/ \E raised \in BOOLEAN :
       \/ TakeLockFails(r, raised)
       \/ CreatePostFails(r, raised)
       \/ StoreResultFails(r, raised)
       \/ ReleaseLockFails(r, raised)
  \/ Crash(r)

(* Every request was answered or died. *)
Finished == \A r \in Requests : pc[r] \in States \ (InFlightStates \cup {"new", "missed"})

Next ==
  \/ \E r \in Requests : RequestStep(r)
  \/ \E k \in Keys : LockExpires(k) \/ ResultExpires(k)
  \/ Finished /\ UNCHANGED vars

Spec == Init /\ [][Next]_vars

----------------------------------------------------------------------------
(* Requests with key k that run the handler. *)
InFlight(k) == {r \in Requests : key[r] = k /\ pc[r] \in InFlightStates}

(* With n faults at most n + 1 requests of one key run the create_post handler
   at once; without a fault they exclude each other.  The release deletes a
   lock it may not own, and still the number never grows beyond that. *)
InFlightBound == \A k \in Keys : Cardinality(InFlight(k)) <= 1 + faults

(* A retry sent after a 201 for its key creates no second post, unless a
   Redis fault or the TTL lost the cached answer: locks that expire, crashes
   and rejected creations of other attempts do not matter. *)
RetryAfterAnswerReplays == cacheFaults = 0 => late \cap posts = {}

(* Without a fault a locked key has a request at work: no path through the
   handler and its two hooks skips the release, which would answer retries
   with 409 until the TTL. *)
NoOrphanLock == faults = 0 => \A k \in lock : InFlight(k) # {}

(* A 201, fresh or replayed, names a committed post of the same key. *)
AnswerIsCommittedPost ==
  \A r \in Requests :
    answer[r] # NoPost => answer[r] \in posts /\ key[answer[r]] = key[r]

(* "DB 유니크 제약 없이도 생성 중복을 막는다" (docs/adr/0008): one post per key,
   the costs named there being a crash and the fail-open window. *)
OnePostPerKey ==
  faults = 0 => \A r, q \in posts : key[r] = key[q] /\ key[r] # NoKey => r = q
=============================================================================
