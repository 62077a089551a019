----------------------------- MODULE CacheAside -----------------------------
(***************************************************************************)
(* The trending posts: get_or_compute_json of app/infra/cache.py keeps one *)
(* pool for all users in Redis and lets one request at a time recompute    *)
(* it; TrendingPostService removes the authors a user has blocked from the *)
(* shared pool.  The trending hashtags use the same cache without a        *)
(* filter.  Both read the replica.                                         *)
(***************************************************************************)
EXTENDS FaultBudget, FiniteSets

CONSTANTS
  Viewers,     \* users; each has one request at a time
  Articles,    \* posts
  AuthorOf,    \* [Articles -> Viewers]
  MinPosts,    \* _MIN_POSTS_FOR_TIME_DECAY
  MaxPolls,    \* reads of a request that waits for the lock holder
  MaxEdits,    \* bound on the changes of posts and blocks
  NoPool,
  NoLock,
  Orphan       \* the lock value of a request that has ended

CacheFaults == {"redisError", "lockExpiry", "cacheExpiry", "loaderError"}

ASSUME CacheAssumption ==
  /\ AuthorOf \in [Articles -> Viewers]
  /\ {MinPosts, MaxPolls} \subseteq Nat \ {0}

VARIABLES
  article,   \* what the replica has: "none", "day", "week" or "old"
  hides,     \* the authors a user has blocked, on the replica
  pool,      \* the cached pool, or NoPool
  lock,      \* the request whose value the lock has, or NoLock
  view,      \* a user's request
  lapsed,    \* history: requests whose lock expired
  edits

cacheState == <<article, hides, pool, lock, view, lapsed, edits>>
cacheVars == <<cacheState, faults>>

-----------------------------------------------------------------------------
NoView == [step |-> "done", polls |-> 0, got |-> {}, hidden |-> {}]

CacheInit ==
  /\ article = [a \in Articles |-> "day"]
  /\ hides = [v \in Viewers |-> {}]
  /\ pool = NoPool
  /\ lock = NoLock
  /\ view = [v \in Viewers |-> NoView]
  /\ lapsed = {}
  /\ edits = 0

(* _compute_pool: the last day, the last week when that is too little, all *)
(* posts when there is none.                                               *)
Aged(ages) == {a \in Articles : article[a] \in ages}
ComputePool ==
  IF Cardinality(Aged({"day"})) >= MinPosts THEN Aged({"day"})
  ELSE IF Aged({"day", "week"}) # {} THEN Aged({"day", "week"})
  ELSE Aged({"day", "week", "old"})

ViewAt(v, step) == view[v].step = step
ViewTo(v, step) == view' = [view EXCEPT ![v].step = step]
Take(v, value, step) == view' = [view EXCEPT ![v].step = step, ![v].got = value]

-----------------------------------------------------------------------------
(* A request; hidden is history: what its user had blocked by then.        *)
StartView(v) ==
  /\ ViewAt(v, "done")
  /\ view' = [view EXCEPT ![v] = [NoView EXCEPT !.step = "read", !.hidden = hides[v]]]
  /\ lapsed' = lapsed \ {v}
  /\ UNCHANGED <<article, hides, pool, lock, edits, faults>>

ReadCache(v) ==
  /\ ViewAt(v, "read")
  /\ IF pool = NoPool THEN ViewTo(v, "lock") ELSE Take(v, pool, "filter")
  /\ UNCHANGED <<article, hides, pool, lock, lapsed, edits, faults>>

(* SET NX EX.                                                              *)
TakeLock(v) ==
  /\ ViewAt(v, "lock")
  /\ IF lock = NoLock
       THEN lock' = v /\ ViewTo(v, "loadLocked")
       ELSE ViewTo(v, "wait") /\ UNCHANGED lock
  /\ UNCHANGED <<article, hides, pool, lapsed, edits, faults>>

(* Redis fails on the read, the lock or a poll: the request loads itself.  *)
(* The lock may have been taken all the same.                              *)
FallBack(v, unanswered) ==
  /\ view[v].step \in {"read", "lock", "wait"}
  /\ Fault("redisError")
  /\ lock' = IF unanswered /\ ViewAt(v, "lock") /\ lock = NoLock THEN Orphan ELSE lock
  /\ ViewTo(v, "load")
  /\ UNCHANGED <<article, hides, pool, lapsed, edits>>

(* One turn of the wait loop.                                              *)
Poll(v) ==
  /\ ViewAt(v, "wait")
  /\ IF pool # NoPool THEN Take(v, pool, "filter")
     ELSE IF view[v].polls < MaxPolls THEN view' = [view EXCEPT ![v].polls = @ + 1]
     ELSE ViewTo(v, "load")
  /\ UNCHANGED <<article, hides, pool, lock, lapsed, edits, faults>>

(* The loader, outside and under the lock.                                 *)
Load(v) ==
  /\ view[v].step \in {"load", "loadLocked"}
  /\ Take(v, ComputePool, IF ViewAt(v, "load") THEN "filter" ELSE "write")
  /\ UNCHANGED <<article, hides, pool, lock, lapsed, edits, faults>>

(* The loader raises: the lock is released, the request fails.             *)
LoadRaises(v) ==
  /\ view[v].step \in {"load", "loadLocked"}
  /\ Fault("loaderError")
  /\ Take(v, {}, IF ViewAt(v, "load") THEN "done" ELSE "unlock")
  /\ UNCHANGED <<article, hides, pool, lock, lapsed, edits>>

(* SETEX; a failure is only logged.                                        *)
WriteCache(v) ==
  /\ ViewAt(v, "write")
  /\ pool' = view[v].got
  /\ ViewTo(v, "unlock")
  /\ UNCHANGED <<article, hides, lock, lapsed, edits, faults>>

WriteFails(v) ==
  /\ ViewAt(v, "write")
  /\ Fault("redisError")
  /\ ViewTo(v, "unlock")
  /\ UNCHANGED <<article, hides, pool, lock, lapsed, edits>>

(* Defect: the lock is deleted without comparing its value.                *)
UnlockAny(v) ==
  /\ ViewAt(v, "unlock")
  /\ lock' = NoLock
  /\ ViewTo(v, "filter")
  /\ UNCHANGED <<article, hides, pool, lapsed, edits, faults>>

(* _RELEASE_LOCK_LUA.                                                      *)
Unlock(v) ==
  /\ ViewAt(v, "unlock")
  /\ lock' = IF lock = v THEN NoLock ELSE lock
  /\ ViewTo(v, "filter")
  /\ UNCHANGED <<article, hides, pool, lapsed, edits, faults>>

UnlockFails(v) ==
  /\ ViewAt(v, "unlock")
  /\ Fault("redisError")
  /\ lock' = IF lock = v THEN Orphan ELSE lock
  /\ ViewTo(v, "filter")
  /\ UNCHANGED <<article, hides, pool, lapsed, edits>>

(* The overlay: blocked authors are removed from the pool.                 *)
FilterPool(v) ==
  /\ ViewAt(v, "filter")
  /\ Take(v, {a \in view[v].got : AuthorOf[a] \notin hides[v]}, "done")
  /\ UNCHANGED <<article, hides, pool, lock, lapsed, edits, faults>>

-----------------------------------------------------------------------------
(* The lock or the pool reaches its time to live.                          *)
LockExpires ==
  /\ lock # NoLock
  /\ Fault("lockExpiry")
  /\ lock' = NoLock
  /\ lapsed' = lapsed \cup ({lock} \cap Viewers)
  /\ UNCHANGED <<article, hides, pool, view, edits>>

PoolExpires ==
  /\ pool # NoPool
  /\ Fault("cacheExpiry")
  /\ pool' = NoPool
  /\ UNCHANGED <<article, hides, lock, view, lapsed, edits>>

Edit == edits < MaxEdits /\ edits' = edits + 1

(* A post is written, deleted or older.                                    *)
EditArticle(a, age) ==
  /\ Edit
  /\ <<article[a], age>> \in
       {<<"none", "day">>, <<"day", "week">>, <<"week", "old">>, <<"day", "none">>, <<"week", "none">>,
        <<"old", "none">>}
  /\ article' = [article EXCEPT ![a] = age]
  /\ UNCHANGED <<hides, pool, lock, view, lapsed, faults>>

BlockAuthor(v, u) ==
  /\ Edit
  /\ u # v
  /\ hides' = [hides EXCEPT ![v] = IF u \in @ THEN @ \ {u} ELSE @ \cup {u}]
  /\ view' = [view EXCEPT ![v].hidden = @ \cap hides'[v]]
  /\ UNCHANGED <<article, pool, lock, lapsed, faults>>

CacheNext ==
  \/ \E v \in Viewers :
       \/ StartView(v) \/ ReadCache(v) \/ TakeLock(v) \/ Poll(v) \/ Load(v) \/ LoadRaises(v)
       \/ WriteCache(v) \/ WriteFails(v) \/ Unlock(v) \/ UnlockFails(v) \/ FilterPool(v)
       \/ \E unanswered \in BOOLEAN : FallBack(v, unanswered)
       \/ \E u \in Viewers : BlockAuthor(v, u)
  \/ \E a \in Articles, age \in {"none", "day", "week", "old"} : EditArticle(a, age)
  \/ LockExpires \/ PoolExpires

CacheSpec == CacheInit /\ faults = 0 /\ [][CacheNext]_cacheVars

-----------------------------------------------------------------------------
Loading == {v \in Viewers : view[v].step \in {"loadLocked", "write", "unlock"}}

(* One pool serves all users: at most one request recomputes it under a    *)
(* lock that has not expired, also when an earlier holder finishes late;   *)
(* and what a user gets from it holds no author they had blocked before    *)
(* the request began, unless they unblocked them since, however old the    *)
(* pool is.                                                                *)
PoolIsShared ==
  /\ Cardinality(Loading \ lapsed) <= 1
  /\ \A v \in Viewers :
       ViewAt(v, "done") => \A a \in view[v].got : AuthorOf[a] \notin view[v].hidden
=============================================================================
