----------------------- MODULE PostIdempotencyProofs -----------------------
(***************************************************************************)
(* Proofs about PostIdempotency for any number of keys, requests and       *)
(* faults.                                                                 *)
(***************************************************************************)
EXTENDS PostIdempotency, FiniteSetTheorems, TLAPS

One(b) == IF b THEN 1 ELSE 0

(* Each request at work is paid for by the lock or by a fault. *)
Paid == \A k \in Keys : Cardinality(InFlight(k)) <= One(k \in lock) + faults

(* What the control state of a request says about its post and answer. *)
PostsByState ==
  \A r \in Requests :
    /\ pc[r] = "new" => answer[r] = NoPost
    /\ pc[r] \in {"new", "missed", "creating", "replayed", "conflict"} => r \notin posts
    /\ pc[r] \in {"created", "stored", "done"} => r \in posts

(* A cached result is a committed post of its key. *)
ResultsCommitted ==
  \A k \in Keys : result[k] # NoPost => result[k] \in posts /\ key[result[k]] = k

(* Until a cache fault an answered key has its result cached, and whoever
   came later had it replayed. *)
AnswersCached ==
  cacheFaults = 0 =>
    /\ \A r \in Requests : pc[r] \in {"stored", "done"} /\ key[r] # NoKey =>
         result[key[r]] # NoPost
    /\ \A r \in late : pc[r] = "replayed"

Inv ==
  /\ TypeOK
  /\ Paid
  /\ PostsByState
  /\ ResultsCommitted
  /\ AnswersCached
  /\ AnswerIsCommittedPost
  /\ NoOrphanLock

(* Every step of a request or an expiry keeps the types. *)
LEMMA TypeStep == TypeOK /\ [Next]_vars => TypeOK'
<1> SUFFICES ASSUME TypeOK, [Next]_vars PROVE TypeOK'
  OBVIOUS
<1> USE PostIdempotencyAssumption
    DEF TypeOK, States, InFlightStates, faultVars, Goto
<1>0. ASSUME NEW kind, Fault(kind)
      PROVE faults' \in 0..MaxFaults /\ cacheFaults' \in 0..faults'
  BY <1>0 DEF Fault
<1>1. ASSUME NEW r \in Requests, RequestStep(r) PROVE TypeOK'
  <2>1. CASE StartWithoutKey(r)
    BY <2>1, Zenon DEF StartWithoutKey, Arrive
  <2>2. ASSUME NEW k \in Keys, GetResult(r, k) PROVE TypeOK'
    BY <2>2 DEF GetResult, Arrive
  <2>3. ASSUME NEW k \in Keys, GetResultFails(r, k) PROVE TypeOK'
    BY <1>0, <2>3, Zenon DEF GetResultFails, Arrive, RedisRaises
  <2>4. CASE TakeLock(r)
    BY <2>4, Zenon DEF TakeLock
  <2>5. CASE CreatePost(r)
    BY <2>5, Zenon DEF CreatePost
  <2>6. CASE StoreResult(r)
    BY <2>6, Zenon DEF StoreResult
  <2>7. CASE ReleaseLock(r)
    BY <2>7, Zenon DEF ReleaseLock, Outcome
  <2>8. ASSUME NEW raised \in BOOLEAN, TakeLockFails(r, raised) PROVE TypeOK'
    BY <1>0, <2>8, Zenon DEF TakeLockFails, RedisRaises
  <2>9. ASSUME NEW raised \in BOOLEAN, CreatePostFails(r, raised) PROVE TypeOK'
    BY <1>0, <2>9, Zenon DEF CreatePostFails
  <2>10. ASSUME NEW raised \in BOOLEAN, StoreResultFails(r, raised) PROVE TypeOK'
    BY <1>0, <2>10, Zenon DEF StoreResultFails, RedisRaises
  <2>11. ASSUME NEW raised \in BOOLEAN, ReleaseLockFails(r, raised) PROVE TypeOK'
    BY <1>0, <2>11, Zenon DEF ReleaseLockFails, Outcome, RedisRaises
  <2>12. CASE Crash(r)
    BY <1>0, <2>12, Zenon DEF Crash
  <2> QED
    BY <1>1, <2>1, <2>2, <2>3, <2>4, <2>5, <2>6, <2>7, <2>8, <2>9, <2>10, <2>11, <2>12, Zenon
    DEF RequestStep
<1>2. ASSUME NEW k \in Keys, LockExpires(k) PROVE TypeOK'
  BY <1>0, <1>2, Zenon DEF LockExpires
<1>3. ASSUME NEW k \in Keys, ResultExpires(k) PROVE TypeOK'
  BY <1>0, <1>3, Zenon DEF ResultExpires
<1>4. CASE UNCHANGED vars
  BY <1>4, Zenon DEF vars
<1> QED
  BY <1>1, <1>2, <1>3, <1>4, Zenon DEF Next

(* Entering, leaving or staying changes the number of requests at work by
   one at most. *)
LEMMA InFlightCount ==
  ASSUME TypeOK, TypeOK', NEW r \in Requests,
         \A q \in Requests \ {r} : key'[q] = key[q] /\ pc'[q] = pc[q]
  PROVE  \A k \in Keys :
           /\ Cardinality(InFlight(k)) \in Nat /\ Cardinality(InFlight(k)') \in Nat
           /\ Cardinality(InFlight(k)') =
                Cardinality(InFlight(k)) + One(r \in InFlight(k)') - One(r \in InFlight(k))
<1> TAKE k \in Keys
<1> DEFINE Others == InFlight(k) \ {r}
<1>1. /\ InFlight(k) = IF r \in InFlight(k) THEN Others \cup {r} ELSE Others
      /\ InFlight(k)' = IF r \in InFlight(k)' THEN Others \cup {r} ELSE Others
  BY Zenon DEF InFlight
<1>2. IsFiniteSet(Others) /\ r \notin Others
  BY FS_Subset, PostIdempotencyAssumption, Zenon DEF InFlight
<1>3. Cardinality(Others) \in Nat /\ Cardinality(Others \cup {r}) = Cardinality(Others) + 1
  <2> HIDE DEF Others
  <2> QED
    BY <1>2, FS_AddElement, FS_CardinalityType, Zenon
<1> HIDE DEF Others
<1>4. Cardinality(InFlight(k)) = Cardinality(Others) + One(r \in InFlight(k))
  <2>1. CASE r \in InFlight(k)
    BY <1>1, <1>3, <2>1, Zenon DEF One
  <2>2. CASE r \notin InFlight(k)
    BY <1>1, <1>3, <2>2 DEF One
  <2> QED
    BY <2>1, <2>2, Zenon
<1>5. Cardinality(InFlight(k)') = Cardinality(Others) + One(r \in InFlight(k)')
  <2>1. CASE r \in InFlight(k)'
    BY <1>1, <1>3, <2>1, Zenon DEF One
  <2>2. CASE r \notin InFlight(k)'
    BY <1>1, <1>3, <2>2 DEF One
  <2> QED
    BY <2>1, <2>2, Zenon
<1> QED
  BY <1>3, <1>4, <1>5 DEF One

(* Every step keeps the requests at work paid for. *)
LEMMA PaidStep == TypeOK /\ Paid /\ [Next]_vars => Paid'
<1> SUFFICES ASSUME TypeOK, Paid, [Next]_vars, NEW k \in Keys
             PROVE  Cardinality(InFlight(k)') <= One(k \in lock') + faults'
  BY Zenon DEF Paid
<1> DEFINE n == Cardinality(InFlight(k))
           n1 == Cardinality(InFlight(k)')
<1>t. TypeOK'
  BY TypeStep, Zenon
<1>p. n <= One(k \in lock) + faults
  BY Zenon DEF Paid
<1>f. faults \in Nat /\ faults' \in Nat
  BY <1>t DEF TypeOK
<1>1. ASSUME NEW r \in Requests, RequestStep(r) PROVE n1 <= One(k \in lock') + faults'
  <2>1. \A q \in Requests \ {r} : key'[q] = key[q] /\ pc'[q] = pc[q]
    BY <1>1, Zenon DEF TypeOK, RequestStep, StartWithoutKey, GetResult, GetResultFails,
       TakeLock,
      CreatePost, StoreResult, ReleaseLock, TakeLockFails, CreatePostFails, StoreResultFails,
      ReleaseLockFails, Crash, Arrive, Goto
  <2>2. /\ n \in Nat /\ n1 \in Nat
        /\ n1 = n + One(r \in InFlight(k)') - One(r \in InFlight(k))
    BY <1>t, <2>1, InFlightCount, Zenon
  <2> DEFINE gain == One(r \in InFlight(k)') - One(r \in InFlight(k))
             Affordable == gain <= One(k \in lock') - One(k \in lock) + (faults' - faults)
  <2>3. Affordable
    <3> USE <1>f DEF One, InFlight, InFlightStates, TypeOK, Goto, faultVars, Arrive
    <3>1. CASE StartWithoutKey(r)
      BY <3>1, PostIdempotencyAssumption DEF StartWithoutKey
    <3>2. ASSUME NEW j \in Keys, GetResult(r, j) PROVE Affordable
      BY <3>2 DEF GetResult
    <3>3. ASSUME NEW j \in Keys, GetResultFails(r, j) PROVE Affordable
      BY <3>3 DEF GetResultFails, RedisRaises, Fault
    <3>4. CASE TakeLock(r)
      BY <3>4 DEF TakeLock
    <3>5. CASE CreatePost(r)
      BY <3>5 DEF CreatePost
    <3>6. CASE StoreResult(r)
      BY <3>6 DEF StoreResult
    <3>7. CASE ReleaseLock(r)
      BY <3>7 DEF ReleaseLock, Outcome
    <3>8. ASSUME NEW raised \in BOOLEAN, TakeLockFails(r, raised) PROVE Affordable
      BY <3>8 DEF TakeLockFails, RedisRaises, Fault
    <3>9. ASSUME NEW raised \in BOOLEAN, StoreResultFails(r, raised) PROVE Affordable
      BY <3>9 DEF StoreResultFails, RedisRaises, Fault
    <3>10. ASSUME NEW raised \in BOOLEAN, ReleaseLockFails(r, raised) PROVE Affordable
      BY <3>10 DEF ReleaseLockFails, Outcome, RedisRaises, Fault
    <3>11. ASSUME NEW raised \in BOOLEAN, CreatePostFails(r, raised) PROVE Affordable
      <4>1. gain <= 0 /\ lock' = lock
        BY <3>11 DEF CreatePostFails
      <4>2. faults' >= faults
        BY <3>11 DEF CreatePostFails, Fault
      <4>3. One(k \in lock') - One(k \in lock) = 0 /\ gain \in Int
        BY <4>1
      <4> HIDE DEF One, gain
      <4> QED
        BY <4>1, <4>2, <4>3
    <3>12. CASE Crash(r)
      BY <3>12 DEF Crash, Fault
    <3> HIDE DEF One, InFlight, TypeOK, gain, Affordable
    <3> QED
      BY <1>1, <3>1, <3>2, <3>3, <3>4, <3>5, <3>6, <3>7, <3>8, <3>9, <3>10,
         <3>11, <3>12, Zenon DEF RequestStep
  <2>4. One(k \in lock) \in {0, 1} /\ One(k \in lock') \in {0, 1} /\ gain \in Int
    BY DEF One
  <2> HIDE DEF n, n1
  <2> QED
    BY <1>p, <1>f, <2>2, <2>3, <2>4
<1>2. ASSUME (\E j \in Keys : LockExpires(j) \/ ResultExpires(j)) \/ UNCHANGED vars
      PROVE  n1 <= One(k \in lock') + faults'
  <2>1. n1 = n
    BY <1>2, Zenon DEF LockExpires, ResultExpires, vars, InFlight
  <2>2. One(k \in lock) + faults <= One(k \in lock') + faults'
    <3>1. faults' = faults + 1 \/ (faults' = faults /\ lock' = lock)
      BY <1>2, Zenon DEF LockExpires, ResultExpires, vars, Fault
    <3>2. One(k \in lock) <= 1 /\ One(k \in lock) \in Nat /\ One(k \in lock') \in Nat
      BY DEF One
    <3>3. lock' = lock => One(k \in lock') = One(k \in lock)
      BY Zenon DEF One
    <3> QED
      BY <1>f, <3>1, <3>2, <3>3
  <2>3. n \in Nat
    BY FS_Subset, FS_CardinalityType, PostIdempotencyAssumption, Zenon DEF InFlight
  <2>4. One(k \in lock) \in Nat /\ One(k \in lock') \in Nat
    BY Zenon DEF One
  <2> HIDE DEF n, n1
  <2> QED
    BY <1>p, <1>f, <2>1, <2>2, <2>3, <2>4
<1> QED
  BY <1>1, <1>2, Zenon DEF Next

(* Every step preserves the inductive invariant. *)
LEMMA InvStep == Inv /\ [Next]_vars => Inv'
<1> SUFFICES ASSUME Inv, [Next]_vars PROVE Inv'
  OBVIOUS
<1>t. TypeOK /\ TypeOK'
  BY TypeStep, Zenon DEF Inv
<1>p. Paid'
  BY PaidStep, Zenon DEF Inv
<1> DEFINE P == /\ PostsByState' /\ ResultsCommitted' /\ AnswersCached'
                /\ AnswerIsCommittedPost' /\ NoOrphanLock'
<1> USE <1>t, PostIdempotencyAssumption DEF faultVars
<1>1. ASSUME NEW r \in Requests, RequestStep(r) PROVE P
  <2> USE DEF Inv, TypeOK, PostsByState, ResultsCommitted, AnswersCached, CacheFaults,
              AnswerIsCommittedPost, NoOrphanLock, InFlight, InFlightStates, Goto, Arrive
  <2>1. CASE StartWithoutKey(r)
    BY <2>1 DEF StartWithoutKey
  <2>2. ASSUME NEW k \in Keys, GetResult(r, k) PROVE P
    BY <2>2 DEF GetResult
  <2>3. ASSUME NEW k \in Keys, GetResultFails(r, k) PROVE P
    BY <2>3 DEF GetResultFails, RedisRaises, Fault
  <2>4. CASE TakeLock(r)
    BY <2>4 DEF TakeLock
  <2>5. CASE CreatePost(r)
    BY <2>5 DEF CreatePost
  <2>6. CASE StoreResult(r)
    BY <2>6 DEF StoreResult
  <2>7. CASE ReleaseLock(r)
    BY <2>7 DEF ReleaseLock, Outcome
  <2>8. ASSUME NEW raised \in BOOLEAN, TakeLockFails(r, raised) PROVE P
    BY <2>8 DEF TakeLockFails, RedisRaises, Fault
  <2>9. ASSUME NEW raised \in BOOLEAN, CreatePostFails(r, raised) PROVE P
    BY <2>9 DEF CreatePostFails, Fault
  <2>10. ASSUME NEW raised \in BOOLEAN, StoreResultFails(r, raised) PROVE P
    BY <2>10 DEF StoreResultFails, RedisRaises, Fault
  <2>11. ASSUME NEW raised \in BOOLEAN, ReleaseLockFails(r, raised) PROVE P
    BY <2>11 DEF ReleaseLockFails, Outcome, RedisRaises, Fault
  <2>12. CASE Crash(r)
    BY <2>12 DEF Crash, Fault
  <2> HIDE DEF Inv, TypeOK, PostsByState, ResultsCommitted, AnswersCached,
              AnswerIsCommittedPost, NoOrphanLock, InFlight, Goto, Arrive, P
  <2> QED
    BY <1>1, <2>1, <2>2, <2>3, <2>4, <2>5, <2>6, <2>7, <2>8, <2>9, <2>10, <2>11, <2>12, Zenon
    DEF RequestStep
<1> USE DEF Inv, TypeOK, PostsByState, ResultsCommitted, AnswersCached,
            AnswerIsCommittedPost, NoOrphanLock, InFlight
<1>2. ASSUME NEW k \in Keys, LockExpires(k) PROVE P
  BY <1>2 DEF LockExpires, Fault
<1>3. ASSUME NEW k \in Keys, ResultExpires(k) PROVE P
  BY <1>3 DEF ResultExpires, Fault, CacheFaults
<1>4. ASSUME UNCHANGED vars PROVE P
  BY <1>4 DEF vars
<1> HIDE DEF TypeOK, PostsByState, ResultsCommitted, AnswersCached,
            AnswerIsCommittedPost, NoOrphanLock, InFlight
<1> QED
  BY <1>1, <1>2, <1>3, <1>4, <1>p, Zenon DEF Next, Inv

(* The inductive invariant holds in every reachable state. *)
THEOREM InvCorrect == Spec => []Inv
<1>1. Init => Inv
  <2> SUFFICES ASSUME Init PROVE Inv
    OBVIOUS
  <2>1. TypeOK
    BY PostIdempotencyAssumption DEF Init, TypeOK, States, InFlightStates
  <2>2. \A k \in Keys : InFlight(k) = {}
    BY Zenon DEF Init, InFlight, InFlightStates
  <2>3. Paid
    BY <2>2, FS_EmptySet DEF Init, Paid, One
  <2> QED
    BY <2>1, <2>2, <2>3, Zenon DEF Init, Inv, PostsByState, ResultsCommitted, AnswersCached,
      AnswerIsCommittedPost, NoOrphanLock
<1> QED
  BY <1>1, InvStep, PTL DEF Spec

(* Every reachable state of the idempotency hooks is well typed. *)
THEOREM TypeCorrect == Spec => []TypeOK
BY InvCorrect, PTL DEF Inv

(* With n faults at most n + 1 requests of one key run the create_post
   handler at once, although the release deletes a lock it may not own. *)
THEOREM InFlightBoundHolds == Spec => []InFlightBound
<1>1. Inv => InFlightBound
  <2> SUFFICES ASSUME Inv, NEW k \in Keys PROVE Cardinality(InFlight(k)) <= 1 + faults
    BY Zenon DEF InFlightBound
  <2>1. Cardinality(InFlight(k)) \in Nat
    BY FS_Subset, FS_CardinalityType, PostIdempotencyAssumption, Zenon DEF InFlight
  <2> QED
    BY <2>1 DEF Inv, Paid, TypeOK, One
<1> QED
  BY <1>1, InvCorrect, PTL

(* A retry sent after a 201 for its key creates no second post, unless a
   Redis fault or the TTL lost the cached answer. *)
THEOREM RetryAfterAnswerReplaysHolds == Spec => []RetryAfterAnswerReplays
<1>1. Inv => RetryAfterAnswerReplays
  BY Zenon DEF Inv, TypeOK, AnswersCached, PostsByState, RetryAfterAnswerReplays
<1> QED
  BY <1>1, InvCorrect, PTL

(* A 201, fresh or replayed, names a committed post of its own key. *)
THEOREM AnswerIsCommittedPostHolds == Spec => []AnswerIsCommittedPost
BY InvCorrect, PTL DEF Inv

(* Without a fault a locked key has a request at work. *)
THEOREM NoOrphanLockHolds == Spec => []NoOrphanLock
BY InvCorrect, PTL DEF Inv
=============================================================================
