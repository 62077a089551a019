------------------------- MODULE ViewCounterProofs -------------------------
(***************************************************************************)
(* Proofs about ViewCounter for any number of posts, viewers, requests,    *)
(* instances and faults.                                                   *)
(***************************************************************************)
EXTENDS ViewCounter, TLAPS

(* Every step of a view request, a flush call or a fault keeps the types. *)
LEMMA TypeStep == TypeOK /\ [Next]_vars => TypeOK'
<1> USE ViewCounterAssumption
<1> SUFFICES ASSUME TypeOK, [Next]_vars PROVE TypeOK'
  OBVIOUS
<1> USE DEF TypeOK, RequestStates, FlushStates, reqVars, flushVars, faultVars
<1>0. ASSUME NEW kind, Fault(kind) PROVE faults' \in 0..MaxFaults /\ lostReplies' \in Nat
  BY <1>0 DEF Fault
<1>1. ASSUME NEW r \in Requests, RequestStep(r) PROVE TypeOK'
  <2>1. ASSUME NEW p \in Posts, NEW v \in Viewers, ReadPost(r, p, v) PROVE TypeOK'
    BY <2>1, Zenon DEF ReadPost
  <2>2. CASE ConsumeView(r)
    BY <2>2 DEF ConsumeView, DedupKey
  <2>3. ASSUME NEW lost \in BOOLEAN, ConsumeViewFailOpen(r, lost) PROVE TypeOK'
    BY <2>3, <1>0 DEF ConsumeViewFailOpen, DedupKey, RedisRaises
  <2>4. CASE BufferView(r)
    BY <2>4, Zenon DEF BufferView
  <2>5. ASSUME NEW lost \in BOOLEAN, BufferViewFails(r, lost) PROVE TypeOK'
    BY <2>5, <1>0, Zenon DEF BufferViewFails, RedisRaises
  <2>6. CASE IncrementDirectly(r)
    BY <2>6 DEF IncrementDirectly, Increment
  <2>7. CASE IncrementDirectlyFails(r)
    BY <2>7, <1>0, Zenon DEF IncrementDirectlyFails
  <2>8. CASE Respond(r)
    BY <2>8, Zenon DEF Respond
  <2> QED
    BY <1>1, <2>1, <2>2, <2>3, <2>4, <2>5, <2>6, <2>7, <2>8, Zenon DEF RequestStep
<1>2. ASSUME NEW f \in Flushers, FlushStep(f) PROVE TypeOK'
  <2>1. CASE TakeLock(f)
    BY <2>1, Zenon DEF TakeLock, Step
  <2>2. CASE RenameBuffer(f)
    BY <2>2, Zenon DEF RenameBuffer, Step
  <2>3. CASE LoadDrain(f)
    BY <2>3, Zenon DEF LoadDrain, Step
  <2>4. CASE ApplyDeltas(f)
    BY <2>4 DEF ApplyDeltas, Step, Increment
  <2>5. ASSUME NEW p \in Posts, MergeField(f, p) PROVE TypeOK'
    BY <2>5, Zenon DEF MergeField, Step, Field
  <2>6. CASE MergeDone(f)
    BY <2>6, Zenon DEF MergeDone, Step
  <2>7. CASE DeleteDrain(f)
    BY <2>7, Zenon DEF DeleteDrain, Step
  <2>8. CASE Unlock(f)
    BY <2>8, Zenon DEF Unlock, Step
  <2> QED
    BY <1>2, <2>1, <2>2, <2>3, <2>4, <2>5, <2>6, <2>7, <2>8, Zenon DEF FlushStep
<1>3. ASSUME NEW f \in Flushers, FlushFault(f) PROVE TypeOK'
  <2>1. CASE TakeLockReplyLost(f)
    BY <2>1, <1>0, Zenon DEF TakeLockReplyLost, RedisRaises
  <2>2. ASSUME NEW lost \in BOOLEAN, RenameBufferFails(f, lost) PROVE TypeOK'
    BY <2>2, <1>0, Zenon DEF RenameBufferFails, RedisRaises, Step
  <2>3. CASE LoadDrainFails(f)
    BY <2>3, <1>0, Zenon DEF LoadDrainFails, RedisRaises, Step
  <2>4. ASSUME NEW committed \in BOOLEAN, ApplyDeltasFails(f, committed) PROVE TypeOK'
    BY <2>4, <1>0 DEF ApplyDeltasFails, Step, Increment
  <2>5. ASSUME NEW p \in Posts, NEW lost \in BOOLEAN, MergeFieldFails(f, p, lost)
        PROVE  TypeOK'
    BY <2>5, <1>0, Zenon DEF MergeFieldFails, RedisRaises, Step, Field
  <2>6. CASE UnlockFails(f)
    BY <2>6, <1>0, Zenon DEF UnlockFails, EndWithoutUnlock, RedisRaises, Step
  <2>7. CASE Crash(f)
    BY <2>7, <1>0, Zenon DEF Crash, EndWithoutUnlock, Step
  <2>8. CASE Cancel(f)
    BY <2>8, <1>0, Zenon DEF Cancel, Step
  <2> QED
    BY <1>3, <2>1, <2>2, <2>3, <2>4, <2>5, <2>6, <2>7, <2>8 DEF FlushFault
<1>4. CASE LockExpires
  BY <1>4, <1>0, Zenon DEF LockExpires
<1>5. ASSUME NEW key \in Posts \X Viewers, DedupExpires(key) PROVE TypeOK'
  BY <1>5, <1>0, Zenon DEF DedupExpires
<1>6. ASSUME NEW p \in Posts, DeletePost(p) PROVE TypeOK'
  BY <1>6, Zenon DEF DeletePost
<1>7. CASE UNCHANGED vars
  BY <1>7, Zenon DEF vars
<1> QED
  BY <1>1, <1>2, <1>3, <1>4, <1>5, <1>6, <1>7, Zenon DEF Next

(* Every reachable state of the view counter is well typed. *)
THEOREM TypeCorrect == Spec => []TypeOK
<1>1. Init => TypeOK
  BY ViewCounterAssumption DEF Init, TypeOK, RequestStates, FlushStates
<1> QED
  BY <1>1, TypeStep, PTL DEF Spec

----------------------------------------------------------------------------
(* The inductive invariant behind the counting properties.                  *)

(* A view waits in one place: the buffer or the drain of one call. *)
AtOnePlace ==
  /\ \A f \in Flushers : Live(f) \cap buffer = {}
  /\ \A f, g \in Flushers : f # g => Live(f) \cap Live(g) = {}

(* Before its HINCRBY a request has left no trace. *)
NoTrace ==
  \A r \in Requests : rpc[r] \in {"new", "read", "fresh"} =>
    /\ counted[r] = 0
    /\ r \notin buffer
    /\ \A f \in Flushers : r \notin drain[f]

One(b) == IF b THEN 1 ELSE 0

(* What is counted, waits or is still to be added directly adds up to one,
   plus one per lost reply. *)
Budget ==
  \A r \in Requests :
    counted[r] + One(InTransit(r)) + One(rpc[r] = "fallback") <= 1 + lostReplies

(* What a request read from the database stays in the database, and was not
   its own view. *)
BaseCounted ==
  \A r \in Requests : r \notin base[r] /\ \A q \in base[r] : counted[q] > 0

(* A view added directly does not wait in Redis too. *)
DirectOnly ==
  lostReplies = 0 => \A r \in Requests : rpc[r] = "direct" => ~InTransit(r)

Inv == TypeOK /\ AtOnePlace /\ NoTrace /\ Budget /\ BaseCounted /\ DirectOnly

(* Every step of Next preserves the inductive invariant. *)
LEMMA InvStep == Inv /\ [Next]_vars => Inv'
<1> USE ViewCounterAssumption
<1> SUFFICES ASSUME Inv, [Next]_vars PROVE Inv'
  OBVIOUS
<1>t. TypeOK /\ TypeOK'
  BY TypeStep, Zenon DEF Inv
<1> USE DEF reqVars, flushVars, faultVars
<1> DEFINE P == AtOnePlace' /\ NoTrace' /\ Budget' /\ BaseCounted' /\ DirectOnly'
<1> USE <1>t
<1>1. ASSUME NEW r \in Requests, RequestStep(r) PROVE P
  <2> USE DEF Inv, TypeOK, AtOnePlace, NoTrace, Budget, BaseCounted, DirectOnly, InTransit, Live, One
  <2>1. ASSUME NEW p \in Posts, NEW v \in Viewers, ReadPost(r, p, v) PROVE P
    BY <2>1 DEF ReadPost
  <2>2. CASE ConsumeView(r)
    BY <2>2 DEF ConsumeView
  <2>3. ASSUME NEW lost \in BOOLEAN, ConsumeViewFailOpen(r, lost) PROVE P
    BY <2>3 DEF ConsumeViewFailOpen, RedisRaises, Fault
  <2>4. CASE BufferView(r)
    BY <2>4 DEF BufferView
  <2>5. ASSUME NEW lost \in BOOLEAN, BufferViewFails(r, lost) PROVE P
    BY <2>5 DEF BufferViewFails, RedisRaises, Fault, ReplyLosses
  <2>6. CASE IncrementDirectly(r)
    BY <2>6 DEF IncrementDirectly, Increment
  <2>7. CASE IncrementDirectlyFails(r)
    BY <2>7 DEF IncrementDirectlyFails, Fault
  <2>8. CASE Respond(r)
    BY <2>8 DEF Respond
  <2> QED
    BY <1>1, <2>1, <2>2, <2>3, <2>4, <2>5, <2>6, <2>7, <2>8, Zenon DEF RequestStep
<1>2. ASSUME NEW f \in Flushers, FlushStep(f) PROVE P
  <2> USE DEF Inv, TypeOK, AtOnePlace, NoTrace, Budget, BaseCounted, DirectOnly, InTransit, Live, One
  <2>1. CASE TakeLock(f)
    BY <2>1 DEF TakeLock, Step
  <2>2. CASE RenameBuffer(f)
    BY <2>2 DEF RenameBuffer, Step
  <2>3. CASE LoadDrain(f)
    BY <2>3 DEF LoadDrain, Step
  <2>4. CASE ApplyDeltas(f)
    BY <2>4 DEF ApplyDeltas, Step, Increment
  <2>5. ASSUME NEW p \in Posts, MergeField(f, p) PROVE P
    BY <2>5, SMTT(30) DEF MergeField, Field
  <2>6. CASE MergeDone(f)
    BY <2>6 DEF MergeDone, Step
  <2>7. CASE DeleteDrain(f)
    BY <2>7 DEF DeleteDrain, Step
  <2>8. CASE Unlock(f)
    BY <2>8 DEF Unlock, Step
  <2> QED
    BY <1>2, <2>1, <2>2, <2>3, <2>4, <2>5, <2>6, <2>7, <2>8, Zenon DEF FlushStep
<1>3. ASSUME NEW f \in Flushers, FlushFault(f) PROVE P
  <2> USE DEF Inv, TypeOK, AtOnePlace, NoTrace, Budget, BaseCounted, DirectOnly, InTransit, Live, One
  <2>1. CASE TakeLockReplyLost(f)
    BY <2>1 DEF TakeLockReplyLost, RedisRaises, Fault
  <2>2. ASSUME NEW lost \in BOOLEAN, RenameBufferFails(f, lost) PROVE P
    BY <2>2 DEF RenameBufferFails, RedisRaises, Fault, Step
  <2>3. CASE LoadDrainFails(f)
    BY <2>3 DEF LoadDrainFails, RedisRaises, Fault, Step
  <2>4. ASSUME NEW committed \in BOOLEAN, ApplyDeltasFails(f, committed) PROVE P
    <3> USE <2>4 DEF ApplyDeltasFails, Fault, ReplyLosses, Step, Increment
    <3>1. \A g \in Flushers : Live(g)' = Live(g)
      OBVIOUS
    <3>2. AtOnePlace' /\ NoTrace' /\ BaseCounted' /\ DirectOnly'
      BY <3>1
    <3>3. \A q \in Requests : InTransit(q)' <=> InTransit(q)
      BY <3>1, Zenon
    <3>4. lostReplies' = lostReplies + One(committed)
      OBVIOUS
    <3>5. \A q \in Requests : counted'[q] \in {counted[q], counted[q] + One(committed)}
      OBVIOUS
    <3>6. Budget'
      <4> HIDE <2>4 DEF Live, InTransit, One, ApplyDeltasFails
      <4>1. UNCHANGED rpc
        BY <2>4, Zenon DEF ApplyDeltasFails
      <4>2. One(committed) \in {0, 1}
        BY Zenon DEF One
      <4>3. \A q \in Requests : One(InTransit(q)') = One(InTransit(q))
        BY <3>3, Zenon DEF One
      <4> QED
        BY <3>4, <3>5, <4>1, <4>2, <4>3, SMTT(30) DEF One
    <3> QED
      BY <3>2, <3>6, Zenon
  <2>5. ASSUME NEW p \in Posts, NEW lost \in BOOLEAN, MergeFieldFails(f, p, lost) PROVE P
    BY <2>5, SMTT(30) DEF MergeFieldFails, RedisRaises, Fault, Step, Field
  <2>6. CASE UnlockFails(f)
    BY <2>6 DEF UnlockFails, EndWithoutUnlock, RedisRaises, Fault, Step
  <2>7. CASE Crash(f)
    BY <2>7 DEF Crash, EndWithoutUnlock, Fault, Step
  <2>8. CASE Cancel(f)
    BY <2>8 DEF Cancel, Fault, Step
  <2> HIDE DEF Inv, TypeOK, AtOnePlace, NoTrace, Budget, BaseCounted, DirectOnly, InTransit, Live, One, P
  <2> QED
    BY <1>3, <2>1, <2>2, <2>3, <2>4, <2>5, <2>6, <2>7, <2>8, Zenon DEF FlushFault
<1>4. CASE LockExpires
  BY <1>4 DEF LockExpires, Fault, TypeOK, One, Inv, AtOnePlace, NoTrace, Budget, BaseCounted,
     DirectOnly, InTransit, Live
<1>5. ASSUME NEW key \in Posts \X Viewers, DedupExpires(key) PROVE P
  BY <1>5 DEF DedupExpires, Fault, TypeOK, One, Inv, AtOnePlace, NoTrace, Budget,
     BaseCounted, DirectOnly, InTransit, Live
<1>6. ASSUME NEW p \in Posts, DeletePost(p) PROVE P
  BY <1>6, Zenon DEF DeletePost, Inv, AtOnePlace, NoTrace, Budget, BaseCounted, DirectOnly,
     InTransit, Live
<1>7. CASE UNCHANGED vars
  BY <1>7, Zenon DEF vars, Inv, AtOnePlace, NoTrace, Budget, BaseCounted, DirectOnly,
     InTransit, Live
<1> QED
  BY <1>1, <1>2, <1>3, <1>4, <1>5, <1>6, <1>7, Zenon DEF Next, Inv

(* The inductive invariant holds in every reachable state. *)
THEOREM InvCorrect == Spec => []Inv
<1>1. Init => Inv
  <2> SUFFICES ASSUME Init PROVE Inv
    OBVIOUS
  <2>1. TypeOK
    BY ViewCounterAssumption DEF Init, TypeOK, RequestStates, FlushStates
  <2> QED
    BY <2>1 DEF Init, Inv, AtOnePlace, NoTrace, Budget, BaseCounted, DirectOnly,
                InTransit, Live, One
<1> QED
  BY <1>1, InvStep, PTL DEF Spec

(* No view is added to posts.view_count more often than once plus once per
   lost reply, whatever else fails in flush_view_counts_to_db or
   _apply_view_increment. *)
THEOREM CountedAtMostOnceHolds == Spec => []CountedAtMostOnce
<1>1. Inv => CountedAtMostOnce
  BY DEF Inv, TypeOK, Budget, One, CountedAtMostOnce
<1> QED
  BY <1>1, InvCorrect, PTL

(* The view count get_post_detail answers includes no view twice while no
   reply was lost. *)
THEOREM ResponseCountsEachViewOnceHolds == Spec => []ResponseCountsEachViewOnce
<1>1. Inv => ResponseCountsEachViewOnce
  <2> SUFFICES ASSUME Inv, lostReplies = 0, NEW r \in Requests
               PROVE  /\ base[r] \cap buffer = {}
                      /\ rpc[r] = "direct" => r \notin base[r] \cup buffer
    BY Zenon DEF ResponseCountsEachViewOnce
  <2>1. ASSUME NEW q \in base[r], q \in buffer PROVE FALSE
    <3>1. q \in Requests /\ counted[q] > 0 /\ InTransit(q)
      BY <2>1, Zenon DEF Inv, TypeOK, BaseCounted, InTransit
    <3> QED
      BY <3>1 DEF Inv, TypeOK, Budget, One
  <2>2. rpc[r] = "direct" => r \notin base[r] \cup buffer
    BY Zenon DEF Inv, BaseCounted, DirectOnly, InTransit
  <2> QED
    BY <2>1, <2>2, Zenon
<1> QED
  BY <1>1, InvCorrect, PTL

(* A flush call that still works keeps its lock in every step that is not a
   fault: the compare-and-delete never removes another call's lock. *)
THEOREM LockKeptHolds == Spec => LockKept
<1>1. TypeOK /\ [Next]_vars =>
        [\A f \in Flushers :
           lock = f /\ fpc[f] # "unlock" /\ faults' = faults => lock' = f]_vars
  <2> SUFFICES ASSUME TypeOK, Next, NEW f \in Flushers,
                      lock = f, fpc[f] # "unlock", faults' = faults
               PROVE  lock' = f
    BY Zenon DEF vars
  <2> USE ViewCounterAssumption DEF TypeOK, faultVars
  <2>0. \A kind : ~Fault(kind)
    BY DEF Fault
  <2>1. ASSUME NEW r \in Requests, RequestStep(r) PROVE lock' = lock
    BY <2>1, <2>0, Zenon DEF RequestStep, ReadPost, ConsumeView, ConsumeViewFailOpen,
       BufferView,
      BufferViewFails, IncrementDirectly, IncrementDirectlyFails, Respond, RedisRaises
  <2>2. ASSUME NEW g \in Flushers, FlushStep(g) PROVE lock' = lock
    BY <2>2, Zenon DEF FlushStep, TakeLock, RenameBuffer, LoadDrain, ApplyDeltas, MergeField,
      MergeDone, DeleteDrain, Unlock
  <2>3. ASSUME NEW g \in Flushers, FlushFault(g) PROVE FALSE
    BY <2>3, <2>0, Zenon DEF FlushFault, TakeLockReplyLost, RenameBufferFails, LoadDrainFails,
      ApplyDeltasFails, MergeFieldFails, UnlockFails, Crash, Cancel, RedisRaises
  <2> QED
    BY <2>0, <2>1, <2>2, <2>3, Zenon DEF Next, LockExpires, DedupExpires, DeletePost
<1> QED
  BY <1>1, TypeCorrect, PTL DEF Spec, LockKept

(* If nothing worse happens than failed transactions and expired keys, no
   step of a request or a flush call loses a view of a live post. *)
THEOREM NoViewLostHolds == Spec => NoViewLost
<1>1. Inv /\ [Next]_vars =>
        [Faults \subseteq {"dbError", "lockExpiry", "dedupExpiry"} =>
           \A r \in Requests : Held(r) => Held(r)' \/ post[r] \in deleted']_vars
  <2> SUFFICES ASSUME Inv, Next, Faults \subseteq {"dbError", "lockExpiry", "dedupExpiry"},
                      NEW r \in Requests, Held(r), post[r] \notin deleted'
               PROVE  Held(r)'
    BY Zenon DEF vars
  <2>t. TypeOK /\ TypeOK' /\ NoTrace
    BY TypeStep, Zenon DEF Inv
  <2> USE <2>t DEF TypeOK, NoTrace, Held, InTransit, Live, reqVars, flushVars, faultVars
  <2>0. /\ \A lost \in BOOLEAN : ~RedisRaises(lost)
        /\ ~Fault("crash") /\ ~Fault("cancel") /\ ~Fault("commitReplyLost")
    BY Zenon DEF RedisRaises, Fault
  <2>1. ASSUME NEW q \in Requests, RequestStep(q) PROVE Held(r)'
    <3>1. ASSUME NEW p \in Posts, NEW v \in Viewers, ReadPost(q, p, v) PROVE Held(r)'
      BY <3>1 DEF ReadPost
    <3>2. CASE IncrementDirectly(q)
      BY <3>2 DEF IncrementDirectly, Increment
    <3>3. CASE BufferView(q)
      BY <3>3, Zenon DEF BufferView
    <3>4. CASE ConsumeView(q) \/ IncrementDirectlyFails(q) \/ Respond(q)
      BY <3>4, Zenon DEF ConsumeView, IncrementDirectlyFails, Respond
    <3> QED
      BY <2>0, <2>1, <3>1, <3>2, <3>3, <3>4, Zenon
         DEF RequestStep, ConsumeViewFailOpen, BufferViewFails
  <2>2. ASSUME NEW f \in Flushers, FlushStep(f) PROVE Held(r)'
    <3>1. CASE TakeLock(f) \/ LoadDrain(f) \/ DeleteDrain(f) \/ Unlock(f)
      BY <3>1 DEF TakeLock, LoadDrain, DeleteDrain, Unlock, Step
    <3>2. CASE RenameBuffer(f)
      BY <3>2, Zenon DEF RenameBuffer, Step
    <3>3. CASE ApplyDeltas(f)
      BY <3>3 DEF ApplyDeltas, Increment, Step
    <3>4. ASSUME NEW p \in Posts, MergeField(f, p) PROVE Held(r)'
      BY <3>4, Zenon DEF MergeField, Field
    <3>5. CASE MergeDone(f)
      BY <3>5, Zenon DEF MergeDone, Field, Step
    <3> QED
      BY <2>2, <3>1, <3>2, <3>3, <3>4, <3>5, Zenon DEF FlushStep
  <2>3. ASSUME NEW f \in Flushers, FlushFault(f) PROVE Held(r)'
    <3>1. ApplyDeltasFails(f, FALSE)
      BY <2>0, <2>3, Zenon DEF FlushFault, TakeLockReplyLost, RenameBufferFails, LoadDrainFails,
        ApplyDeltasFails, MergeFieldFails, UnlockFails, Crash, Cancel
    <3> QED
      BY <3>1, Zenon DEF ApplyDeltasFails, Step
  <2>4. CASE \/ LockExpires
             \/ \E key \in Posts \X Viewers : DedupExpires(key)
             \/ \E p \in Posts : DeletePost(p)
    BY <2>4, Zenon DEF LockExpires, DedupExpires, DeletePost
  <2> QED
    BY <2>1, <2>2, <2>3, <2>4, Zenon DEF Next
<1> QED
  BY <1>1, InvCorrect, PTL DEF Spec, NoViewLost

----------------------------------------------------------------------------
(* One view per viewer.                                                     *)

(* The dedup keys do their work: Redis answers and no key expires. *)
KeysHold == DedupOn /\ Faults \cap {"redisError", "redisReplyLost", "dedupExpiry"} = {}

(* A request that SET NX let through, or whose view exists. *)
Owns(r) == rpc[r] = "fresh" \/ Held(r)

(* The key of every request that was let through exists, no two of them have
   the same key, and none fell back to the database. *)
OwnedKeys ==
  /\ \A r \in Requests : rpc[r] # "fallback"
  /\ \A r \in Requests : Owns(r) => DedupKey(r) \in dedup
  /\ \A r, q \in Requests : Owns(r) /\ Owns(q) /\ DedupKey(r) = DedupKey(q) => r = q

(* ReadPost gives a request its key before it owns a view, ConsumeView makes
   it the owner of a key that did not exist, and no other step makes an owner
   or removes a key. *)
LEMMA OwnedKeysStep == KeysHold /\ Inv /\ OwnedKeys /\ [Next]_vars => OwnedKeys'
<1> SUFFICES ASSUME KeysHold, Inv, OwnedKeys, [Next]_vars PROVE OwnedKeys'
  OBVIOUS
<1>t. TypeOK /\ TypeOK' /\ NoTrace
  BY TypeStep, Zenon DEF Inv
<1>f. /\ \A lost \in BOOLEAN : ~RedisRaises(lost)
      /\ ~Fault("dedupExpiry")
  BY Zenon DEF KeysHold, RedisRaises, Fault
<1> DEFINE NoNewOwner == /\ UNCHANGED <<post, viewer>>
                         /\ dedup \subseteq dedup'
                         /\ \A r \in Requests : rpc'[r] # "fallback"
                         /\ \A r \in Requests : Owns(r)' => Owns(r)
<1>n. NoNewOwner => OwnedKeys'
  BY Zenon DEF OwnedKeys, DedupKey
<1> USE <1>t DEF TypeOK, Held, InTransit, Live, reqVars, flushVars, faultVars
<1>1. ASSUME NEW r \in Requests, RequestStep(r) PROVE OwnedKeys'
  <2>1. ASSUME NEW p \in Posts, NEW v \in Viewers, ReadPost(r, p, v) PROVE OwnedKeys'
    <3>1. \A q \in Requests : Owns(q)' => Owns(q) /\ q # r
      BY <2>1 DEF ReadPost, NoTrace, Owns
    <3>2. \A q \in Requests : q # r => DedupKey(q)' = DedupKey(q)
      BY <2>1, Zenon DEF ReadPost, DedupKey
    <3> QED
      BY <2>1, <3>1, <3>2 DEF ReadPost, OwnedKeys
  <2>2. CASE ConsumeView(r)
    <3>1. \A q \in Requests : Owns(q)' => Owns(q) \/ (q = r /\ DedupKey(r) \notin dedup)
      BY <2>2, Zenon DEF ConsumeView, Owns, KeysHold
    <3>2. \A q \in Requests : DedupKey(q)' = DedupKey(q)
      BY <2>2, Zenon DEF ConsumeView, DedupKey
    <3>3. dedup' = dedup \cup {DedupKey(r)}
      BY <2>2, Zenon DEF ConsumeView, KeysHold
    <3>4. \A q \in Requests : rpc'[q] # "fallback"
      BY <2>2, Zenon DEF ConsumeView, OwnedKeys
    <3> QED
      BY <3>1, <3>2, <3>3, <3>4, Zenon DEF OwnedKeys
  <2>3. CASE BufferView(r)
    BY <1>n, <2>3 DEF BufferView, Owns, OwnedKeys
  <2>4. CASE Respond(r)
    BY <1>n, <2>4 DEF Respond, Owns, OwnedKeys
  <2>5. ~IncrementDirectly(r) /\ ~IncrementDirectlyFails(r)
    BY Zenon DEF IncrementDirectly, IncrementDirectlyFails, OwnedKeys
  <2> QED
    BY <1>1, <1>f, <2>1, <2>2, <2>3, <2>4, <2>5, Zenon
       DEF RequestStep, ConsumeViewFailOpen, BufferViewFails
<1>2. ASSUME NEW f \in Flushers, FlushStep(f) PROVE OwnedKeys'
  <2>1. UNCHANGED <<rpc, post, viewer, dedup>>
    BY <1>2, Zenon DEF FlushStep, TakeLock, RenameBuffer, LoadDrain, ApplyDeltas, MergeField,
       MergeDone,
                DeleteDrain, Unlock
  <2>2. CASE TakeLock(f) \/ LoadDrain(f) \/ MergeDone(f) \/ DeleteDrain(f) \/ Unlock(f)
    BY <1>n, <2>1, <2>2 DEF TakeLock, LoadDrain, MergeDone, DeleteDrain, Unlock, Step, Owns,
       OwnedKeys
  <2>3. CASE RenameBuffer(f)
    BY <1>n, <2>1, <2>3, Zenon DEF RenameBuffer, Step, Owns, OwnedKeys
  <2>4. CASE ApplyDeltas(f)
    BY <1>n, <2>1, <2>4, Zenon DEF ApplyDeltas, Increment, Step, Owns, OwnedKeys
  <2>5. ASSUME NEW p \in Posts, MergeField(f, p) PROVE OwnedKeys'
    BY <1>n, <2>1, <2>5 DEF MergeField, Field, Owns, OwnedKeys
  <2> QED
    BY <1>2, <2>2, <2>3, <2>4, <2>5, Zenon DEF FlushStep
<1>3. ASSUME NEW f \in Flushers, FlushFault(f) PROVE OwnedKeys'
  <2>1. ASSUME NEW committed \in BOOLEAN, ApplyDeltasFails(f, committed) PROVE OwnedKeys'
    BY <1>n, <2>1 DEF ApplyDeltasFails, Increment, Step, Owns, OwnedKeys
  <2>2. CASE Crash(f) \/ Cancel(f)
    BY <1>n, <2>2 DEF Crash, Cancel, EndWithoutUnlock, Step, Owns, OwnedKeys
  <2> QED
    BY <1>3, <1>f, <2>1, <2>2, Zenon DEF FlushFault, TakeLockReplyLost, RenameBufferFails,
       LoadDrainFails,
       MergeFieldFails, UnlockFails
<1>4. CASE LockExpires \/ \E p \in Posts : DeletePost(p)
  BY <1>n, <1>4, Zenon DEF LockExpires, DeletePost, Owns, OwnedKeys
<1>5. \A key \in Posts \X Viewers : ~DedupExpires(key)
  BY <1>f, Zenon DEF DedupExpires
<1>6. CASE UNCHANGED vars
  BY <1>n, <1>6, Zenon DEF vars, Owns, OwnedKeys
<1> QED
  BY <1>1, <1>2, <1>3, <1>4, <1>5, <1>6, Zenon DEF Next

(* While dedup keys live and Redis answers, one viewer adds at most one view
   to a post, however many of their requests run at once: the SET NX of
   _consume_view_if_new_redis lets one of them through. *)
THEOREM OneViewPerViewerHolds == Spec => []OneViewPerViewer
<1>1. Init => (KeysHold => OwnedKeys)
  BY DEF Init, OwnedKeys, Owns, Held, InTransit, Live
<1>2. Inv /\ (KeysHold => OwnedKeys) /\ [Next]_vars => (KeysHold => OwnedKeys)'
  <2>1. KeysHold' <=> KeysHold
    BY Zenon DEF KeysHold
  <2> QED
    BY <2>1, OwnedKeysStep, Zenon
<1>3. (KeysHold => OwnedKeys) => OneViewPerViewer
  BY Zenon DEF KeysHold, OwnedKeys, Owns, OneViewPerViewer
<1> QED
  BY <1>1, <1>2, <1>3, InvCorrect, PTL DEF Spec
=============================================================================
