---------------------------- MODULE ViewCounter ----------------------------
(***************************************************************************)
(* Post view counting: viewer dedup, the Redis write-behind buffer, and    *)
(* the flush loop every application instance runs                          *)
(* (app/domain/posts/services/post_service.py, app/main.py).               *)
(*                                                                         *)
(* A counter is modelled by WHICH view requests it has absorbed.  The      *)
(* Redis buffer hash is the set of requests whose +1 it holds, a drain     *)
(* hash likewise, and field p of a hash is the part of the set whose post  *)
(* is p; posts.view_count is the sum over r of counted[r], the number of   *)
(* times the +1 of request r was added to it.  This is what lets a         *)
(* property tell a lost view from a view counted twice.                    *)
(***************************************************************************)
EXTENDS Naturals, FiniteSets

CONSTANTS Posts,        \* post ids
          Viewers,      \* viewer keys: u:{user} or ip:{client}
          Requests,     \* GET /posts/{id} requests, each used once
          Flushers,     \* application instances running the flush loop
          DedupOn,      \* VIEW_CACHE_TTL_SECONDS > 0
          Faults,       \* the kinds of fault that may happen
          MaxFaults     \* bound on their number

FaultKinds == {"redisError",       \* a Redis call raises and had no effect
               "redisReplyLost",   \* a Redis call raises after taking effect
               "dbError",          \* a transaction raises and is rolled back
               "commitReplyLost",  \* COMMIT raises after the server committed
               "lockExpiry",       \* the flush lock outlives its TTL
               "dedupExpiry",      \* a dedup key outlives its TTL
               "crash",            \* the process dies
               "cancel"}           \* shutdown cancels the flush task

ReplyLosses == {"redisReplyLost", "commitReplyLost"}

NoFlusher == "no flusher"   \* the lock key does not exist
StaleToken == "stale token" \* the lock value of a call that is over

ASSUME ViewCounterAssumption ==
  /\ DedupOn \in BOOLEAN
  /\ Faults \subseteq FaultKinds
  /\ MaxFaults \in Nat
  /\ Posts # {} /\ Viewers # {}
  /\ NoFlusher \notin Flushers
  /\ StaleToken \notin Flushers

VARIABLES
  deleted,   \* posts soft-deleted (deleted_at set)
  counted,   \* [Requests -> Nat]: times its +1 is in posts.view_count
  buffer,    \* views:{v}:buffer
  dedup,     \* existing view:post:{p}:viewer:{v} keys
  lock,      \* views:{v}:flush:lock: the token of a running call, or none
  rpc,       \* control state of each request
  post, viewer,  \* its parameters, meaningful once it has started
  base,      \* the views in the view_count it read from the database
  fpc,       \* control state of each flush call
  drain,     \* the drain hash of the running call
  merged,    \* fields of it already HINCRBYed back into the buffer
  faults,    \* history: number of faults so far
  lostReplies \* history: how many of them took effect but raised

reqVars == <<rpc, post, viewer, base>>
flushVars == <<fpc, drain, merged>>
faultVars == <<faults, lostReplies>>
vars == <<deleted, counted, buffer, dedup, lock, reqVars, flushVars, faultVars>>

RequestStates == {"new", "read", "fresh", "fallback",
                  "skipped", "buffered", "direct", "done", "failed"}
FlushStates == {"idle", "locked", "renamed", "loaded",
                "committed", "merging", "unlock"}

(* Types; in particular the flush lock always names the call that took it,
   the value the compare-and-delete of the release relies on. *)
TypeOK ==
  /\ deleted \subseteq Posts
  /\ counted \in [Requests -> Nat]
  /\ buffer \subseteq Requests
  /\ dedup \subseteq Posts \X Viewers
  /\ lock \in Flushers \cup {NoFlusher, StaleToken}
  /\ rpc \in [Requests -> RequestStates]
  /\ post \in [Requests -> Posts]
  /\ viewer \in [Requests -> Viewers]
  /\ base \in [Requests -> SUBSET Requests]
  /\ fpc \in [Flushers -> FlushStates]
  /\ drain \in [Flushers -> SUBSET Requests]
  /\ merged \in [Flushers -> SUBSET Posts]
  /\ faults \in 0..MaxFaults
  /\ lostReplies \in Nat

Init ==
  /\ deleted = {}
  /\ counted = [r \in Requests |-> 0]
  /\ buffer = {}
  /\ dedup = {}
  /\ lock = NoFlusher
  /\ rpc = [r \in Requests |-> "new"]
  /\ post = [r \in Requests |-> CHOOSE p \in Posts : TRUE]
  /\ viewer = [r \in Requests |-> CHOOSE v \in Viewers : TRUE]
  /\ base = [r \in Requests |-> {}]
  /\ fpc = [f \in Flushers |-> "idle"]
  /\ drain = [f \in Flushers |-> {}]
  /\ merged = [f \in Flushers |-> {}]
  /\ faults = 0
  /\ lostReplies = 0

Fault(kind) ==
  /\ kind \in Faults
  /\ faults < MaxFaults
  /\ faults' = faults + 1
  /\ lostReplies' = lostReplies + IF kind \in ReplyLosses THEN 1 ELSE 0

(* A Redis call that raises: without its effect (lost = FALSE) or after it. *)
RedisRaises(lost) == Fault(IF lost THEN "redisReplyLost" ELSE "redisError")

(* The fields of a set of views that belong to post p. *)
Field(views, p) == {r \in views : post[r] = p}

----------------------------------------------------------------------------
(* A view request: get_post_detail and _apply_view_increment.               *)

(* The post is read (a deleted one is a 404 and changes nothing). *)
ReadPost(r, p, v) ==
  /\ rpc[r] = "new"
  /\ p \notin deleted
  /\ rpc' = [rpc EXCEPT ![r] = "read"]
  /\ post' = [post EXCEPT ![r] = p]
  /\ viewer' = [viewer EXCEPT ![r] = v]
  /\ base' = [base EXCEPT ![r] = {q \in Requests : counted[q] > 0 /\ post[q] = p}]
  /\ UNCHANGED <<deleted, counted, buffer, dedup, lock, flushVars, faultVars>>

DedupKey(r) == <<post[r], viewer[r]>>

(* Defect: GET and SET instead of SET NX, the answer ignored. *)
ConsumeViewWithoutNX(r) ==
  /\ rpc[r] = "read"
  /\ rpc' = [rpc EXCEPT ![r] = "fresh"]
  /\ dedup' = dedup \cup {DedupKey(r)}
  /\ UNCHANGED <<deleted, counted, buffer, lock, post, viewer, base, flushVars, faultVars>>

(* SET NX EX on the dedup key; with TTL <= 0 every view is new. *)
ConsumeView(r) ==
  /\ rpc[r] = "read"
  /\ rpc' = [rpc EXCEPT ![r] = IF DedupOn /\ DedupKey(r) \in dedup
                               THEN "skipped" ELSE "fresh"]
  /\ dedup' = IF DedupOn THEN dedup \cup {DedupKey(r)} ELSE dedup
  /\ UNCHANGED <<deleted, counted, buffer, lock, post, viewer, base, flushVars, faultVars>>

(* The SET raises: fail-open, the view counts. *)
ConsumeViewFailOpen(r, lost) ==
  /\ rpc[r] = "read" /\ DedupOn
  /\ RedisRaises(lost)
  /\ rpc' = [rpc EXCEPT ![r] = "fresh"]
  /\ dedup' = IF lost THEN dedup \cup {DedupKey(r)} ELSE dedup
  /\ UNCHANGED <<deleted, counted, buffer, lock, post, viewer, base, flushVars>>

(* HINCRBY buffer post 1. *)
BufferView(r) ==
  /\ rpc[r] = "fresh"
  /\ rpc' = [rpc EXCEPT ![r] = "buffered"]
  /\ buffer' = buffer \cup {r}
  /\ UNCHANGED <<deleted, counted, dedup, lock, post, viewer, base, flushVars, faultVars>>

(* The HINCRBY raises: the view falls back to the database. *)
BufferViewFails(r, lost) ==
  /\ rpc[r] = "fresh"
  /\ RedisRaises(lost)
  /\ rpc' = [rpc EXCEPT ![r] = "fallback"]
  /\ buffer' = IF lost THEN buffer \cup {r} ELSE buffer
  /\ UNCHANGED <<deleted, counted, dedup, lock, post, viewer, base, flushVars>>

(* Posts of deleted rows are skipped by the UPDATE's WHERE clause. *)
Increment(views) ==
  counted' = [r \in Requests |->
                IF r \in views /\ post[r] \notin deleted THEN counted[r] + 1 ELSE counted[r]]

(* increment_view_count in a writer transaction of its own. *)
IncrementDirectly(r) ==
  /\ rpc[r] = "fallback"
  /\ rpc' = [rpc EXCEPT ![r] = "direct"]
  /\ Increment({r})
  /\ UNCHANGED <<deleted, buffer, dedup, lock, post, viewer, base, flushVars, faultVars>>

IncrementDirectlyFails(r) ==
  /\ rpc[r] = "fallback"
  /\ Fault("dbError")
  /\ rpc' = [rpc EXCEPT ![r] = "failed"]
  /\ UNCHANGED <<deleted, counted, buffer, dedup, lock, post, viewer, base, flushVars>>

(* The response shows base + the post's field of the buffer now + 1 if the
   view was added directly. *)
Respond(r) ==
  /\ rpc[r] \in {"skipped", "buffered", "direct"}
  /\ rpc' = [rpc EXCEPT ![r] = "done"]
  /\ UNCHANGED <<deleted, counted, buffer, dedup, lock, post, viewer, base, flushVars, faultVars>>

----------------------------------------------------------------------------
(* A flush call: flush_view_counts_to_db, ticked by _view_buffer_flush_loop. *)
(* After the call ends its drain key, deleted or left behind, is never read  *)
(* again: drain keys are unique per call.                                    *)

Step(f, state) == fpc' = [fpc EXCEPT ![f] = state]

(* Defect: the lock holds a constant, not the call's token. *)
TakeLockConstantValue(f) ==
  /\ fpc[f] = "idle"
  /\ lock = NoFlusher
  /\ lock' = "1"
  /\ Step(f, "locked")
  /\ UNCHANGED <<deleted, counted, buffer, dedup, reqVars, drain, merged, faultVars>>

(* SET NX EX lock token; a held lock ends the call with nothing changed. *)
TakeLock(f) ==
  /\ fpc[f] = "idle"
  /\ lock = NoFlusher
  /\ lock' = f
  /\ Step(f, "locked")
  /\ UNCHANGED <<deleted, counted, buffer, dedup, reqVars, drain, merged, faultVars>>

(* The SET raises after it took effect: the call ends, its token stays. *)
TakeLockReplyLost(f) ==
  /\ fpc[f] = "idle"
  /\ lock = NoFlusher
  /\ RedisRaises(TRUE)
  /\ lock' = StaleToken
  /\ UNCHANGED <<deleted, counted, buffer, dedup, reqVars, flushVars>>

(* Defect: the buffer is copied, to be deleted after the commit. *)
CopyBuffer(f) ==
  /\ fpc[f] = "locked"
  /\ Step(f, IF buffer = {} THEN "unlock" ELSE "renamed")
  /\ drain' = [drain EXCEPT ![f] = buffer]
  /\ UNCHANGED <<deleted, counted, buffer, dedup, lock, reqVars, merged, faultVars>>

(* Lua: if the buffer exists, RENAME it to this call's drain key. *)
RenameBuffer(f) ==
  /\ fpc[f] = "locked"
  /\ Step(f, IF buffer = {} THEN "unlock" ELSE "renamed")
  /\ drain' = [drain EXCEPT ![f] = buffer]
  /\ buffer' = {}
  /\ UNCHANGED <<deleted, counted, dedup, lock, reqVars, merged, faultVars>>

RenameBufferFails(f, lost) ==
  /\ fpc[f] = "locked"
  /\ RedisRaises(lost)
  /\ Step(f, "unlock")
  /\ buffer' = IF lost THEN {} ELSE buffer
  /\ UNCHANGED <<deleted, counted, dedup, lock, reqVars, drain, merged>>

(* HGETALL drain.  A drain just renamed is not empty. *)
LoadDrain(f) ==
  /\ fpc[f] = "renamed"
  /\ Step(f, "loaded")
  /\ UNCHANGED <<deleted, counted, buffer, dedup, lock, reqVars, drain, merged, faultVars>>

(* It raises outside the try that re-merges: the drain is left behind. *)
LoadDrainFails(f) ==
  /\ fpc[f] = "renamed"
  /\ RedisRaises(FALSE)
  /\ Step(f, "unlock")
  /\ UNCHANGED <<deleted, counted, buffer, dedup, lock, reqVars, drain, merged>>

(* One transaction adds every field's delta to its post. *)
ApplyDeltas(f) ==
  /\ fpc[f] = "loaded"
  /\ Increment(drain[f])
  /\ Step(f, "committed")
  /\ UNCHANGED <<deleted, buffer, dedup, lock, reqVars, drain, merged, faultVars>>

(* Defect: a failed transaction ends the call without the re-merge. *)
ApplyDeltasFailsWithoutMerge(f, committed) ==
  /\ fpc[f] = "loaded"
  /\ Fault(IF committed THEN "commitReplyLost" ELSE "dbError")
  /\ IF committed THEN Increment(drain[f]) ELSE UNCHANGED counted
  /\ Step(f, "unlock")
  /\ UNCHANGED <<deleted, buffer, dedup, lock, reqVars, drain, merged>>

(* The transaction raises, rolled back or not: the except branch re-merges. *)
ApplyDeltasFails(f, committed) ==
  /\ fpc[f] = "loaded"
  /\ Fault(IF committed THEN "commitReplyLost" ELSE "dbError")
  /\ IF committed THEN Increment(drain[f]) ELSE UNCHANGED counted
  /\ Step(f, "merging")
  /\ merged' = [merged EXCEPT ![f] = {}]
  /\ UNCHANGED <<deleted, buffer, dedup, lock, reqVars, drain>>

(* _merge_drain_into_buffer: one HINCRBY per field. *)
MergeField(f, p) ==
  /\ fpc[f] = "merging"
  /\ p \notin merged[f]
  /\ Field(drain[f], p) # {}
  /\ buffer' = buffer \cup Field(drain[f], p)
  /\ merged' = [merged EXCEPT ![f] = @ \cup {p}]
  /\ UNCHANGED <<deleted, counted, dedup, lock, reqVars, fpc, drain, faultVars>>

(* A HINCRBY raises: the remaining fields are left behind in the drain. *)
MergeFieldFails(f, p, lost) ==
  /\ fpc[f] = "merging"
  /\ p \notin merged[f]
  /\ Field(drain[f], p) # {}
  /\ RedisRaises(lost)
  /\ buffer' = IF lost THEN buffer \cup Field(drain[f], p) ELSE buffer
  /\ Step(f, "unlock")
  /\ UNCHANGED <<deleted, counted, dedup, lock, reqVars, drain, merged>>

(* All fields merged: the drain is deleted, or its DEL raises. *)
MergeDone(f) ==
  /\ fpc[f] = "merging"
  /\ \A p \in Posts \ merged[f] : Field(drain[f], p) = {}
  /\ Step(f, "unlock")
  /\ UNCHANGED <<deleted, counted, buffer, dedup, lock, reqVars, drain, merged, faultVars>>

(* Defect: a DEL that raises after the commit re-merges the drain. *)
DeleteDrainRemerges(f) ==
  /\ fpc[f] = "committed"
  /\ Step(f, "merging")
  /\ UNCHANGED <<deleted, counted, buffer, dedup, lock, reqVars, drain, merged, faultVars>>

(* After the commit the drain is deleted, best effort: never re-merged. *)
DeleteDrain(f) ==
  /\ fpc[f] = "committed"
  /\ Step(f, "unlock")
  /\ UNCHANGED <<deleted, counted, buffer, dedup, lock, reqVars, drain, merged, faultVars>>

(* Defect: the lock is deleted without comparing its value. *)
UnlockWithoutCompare(f) ==
  /\ fpc[f] = "unlock"
  /\ lock' = NoFlusher
  /\ Step(f, "idle")
  /\ drain' = [drain EXCEPT ![f] = {}]
  /\ merged' = [merged EXCEPT ![f] = {}]
  /\ UNCHANGED <<deleted, counted, buffer, dedup, reqVars, faultVars>>

(* finally: Lua compare-and-delete of the lock. *)
Unlock(f) ==
  /\ fpc[f] = "unlock"
  /\ lock' = IF lock = f THEN NoFlusher ELSE lock
  /\ Step(f, "idle")
  /\ drain' = [drain EXCEPT ![f] = {}]
  /\ merged' = [merged EXCEPT ![f] = {}]
  /\ UNCHANGED <<deleted, counted, buffer, dedup, reqVars, faultVars>>

EndWithoutUnlock(f) ==
  /\ lock' = IF lock = f THEN StaleToken ELSE lock
  /\ Step(f, "idle")
  /\ drain' = [drain EXCEPT ![f] = {}]
  /\ merged' = [merged EXCEPT ![f] = {}]
  /\ UNCHANGED <<deleted, counted, buffer, dedup, reqVars>>

UnlockFails(f) == fpc[f] = "unlock" /\ RedisRaises(FALSE) /\ EndWithoutUnlock(f)

(* The instance dies, and later runs the loop again. *)
Crash(f) == fpc[f] # "idle" /\ Fault("crash") /\ EndWithoutUnlock(f)

(* lifespan cancels the task: CancelledError passes by "except Exception"
   and only the finally clause runs. *)
Cancel(f) ==
  /\ fpc[f] \notin {"idle", "unlock"}
  /\ Fault("cancel")
  /\ Step(f, "unlock")
  /\ UNCHANGED <<deleted, counted, buffer, dedup, lock, reqVars, drain, merged>>

----------------------------------------------------------------------------
(* The lock's TTL ends while its call runs, or after the call left it.      *)
LockExpires ==
  /\ lock # NoFlusher
  /\ IF lock = StaleToken THEN UNCHANGED faultVars ELSE Fault("lockExpiry")
  /\ lock' = NoFlusher
  /\ UNCHANGED <<deleted, counted, buffer, dedup, reqVars, flushVars>>

DedupExpires(key) ==
  /\ key \in dedup
  /\ Fault("dedupExpiry")
  /\ dedup' = dedup \ {key}
  /\ UNCHANGED <<deleted, counted, buffer, lock, reqVars, flushVars>>

DeletePost(p) ==
  /\ p \notin deleted
  /\ deleted' = deleted \cup {p}
  /\ UNCHANGED <<counted, buffer, dedup, lock, reqVars, flushVars, faultVars>>

RequestStep(r) ==
  \/ \E p \in Posts, v \in Viewers : ReadPost(r, p, v)
  \/ ConsumeView(r)
  \/ \E lost \in BOOLEAN : ConsumeViewFailOpen(r, lost)
  \/ BufferView(r)
  \/ \E lost \in BOOLEAN : BufferViewFails(r, lost)
  \/ IncrementDirectly(r)
  \/ IncrementDirectlyFails(r)
  \/ Respond(r)

(* The steps of a flush call in which nothing goes wrong beyond the database. *)
FlushStep(f) ==
  \/ TakeLock(f)
  \/ RenameBuffer(f)
  \/ LoadDrain(f)
  \/ ApplyDeltas(f)
  \/ \E p \in Posts : MergeField(f, p)
  \/ MergeDone(f)
  \/ DeleteDrain(f)
  \/ Unlock(f)

FlushFault(f) ==
  \/ TakeLockReplyLost(f)
  \/ \E lost \in BOOLEAN : RenameBufferFails(f, lost)
  \/ LoadDrainFails(f)
  \/ \E committed \in BOOLEAN : ApplyDeltasFails(f, committed)
  \/ \E p \in Posts, lost \in BOOLEAN : MergeFieldFails(f, p, lost)
  \/ UnlockFails(f)
  \/ Crash(f)
  \/ Cancel(f)

Next ==
  \/ \E r \in Requests : RequestStep(r)
  \/ \E f \in Flushers : FlushStep(f) \/ FlushFault(f)
  \/ LockExpires
  \/ \E key \in Posts \X Viewers : DedupExpires(key)
  \/ \E p \in Posts : DeletePost(p)

Spec == Init /\ [][Next]_vars

(* Every instance's loop keeps ticking and a started call runs on: the event *)
(* loop resumes an awaiting task.  Nothing is assumed of requests or faults. *)
FairSpec == Spec /\ \A f \in Flushers : WF_vars(FlushStep(f))

----------------------------------------------------------------------------
(* The views of a running call that it will still write somewhere. *)
Live(f) ==
  {r \in drain[f] : \/ fpc[f] \in {"renamed", "loaded"}
                    \/ fpc[f] = "merging" /\ post[r] \notin merged[f]}

(* A view that is in the database or on its way there. *)
InTransit(r) == r \in buffer \/ \E f \in Flushers : r \in Live(f)
Held(r) == counted[r] > 0 \/ InTransit(r)

(* No view is added to posts.view_count more often than once plus once per
   lost reply: neither the fallback to the database, nor an expired lock and
   two flush calls at once, nor a re-merge after a failed transaction, nor a
   crash or a failed DEL of the drain counts a view twice
   (flush_view_counts_to_db, _apply_view_increment). *)
CountedAtMostOnce == \A r \in Requests : counted[r] <= 1 + lostReplies

(* While no reply was lost, the view count get_post_detail answers, the
   database value read first plus the buffer read last plus the view's own
   direct +1, never includes a view twice although a flush may run between
   the two reads. *)
ResponseCountsEachViewOnce ==
  lostReplies = 0 =>
    \A r \in Requests :
      /\ rpc[r] \in {"skipped", "buffered", "direct"} => base[r] \cap buffer = {}
      /\ rpc[r] = "direct" => r \notin base[r] \cup buffer

(* If nothing worse happens than failed transactions and expired keys, no
   step loses a view of a live post: RENAME, the transaction and the re-merge
   of _merge_drain_into_buffer hand every view on. *)
NoViewLost ==
  [][Faults \subseteq {"dbError", "lockExpiry", "dedupExpiry"} =>
       \A r \in Requests : Held(r) => Held(r)' \/ post[r] \in deleted']_vars

(* While dedup keys live and Redis answers, one viewer adds at most one view
   to a post, however many of their requests run at once
   (_consume_view_if_new_redis). *)
OneViewPerViewer ==
  DedupOn /\ Faults \cap {"redisError", "redisReplyLost", "dedupExpiry"} = {} =>
    \A r, q \in Requests :
      Held(r) /\ Held(q) /\ DedupKey(r) = DedupKey(q) => r = q

(* A flush call that still works loses the lock to a fault (expiry, crash)
   only: the compare-and-delete of a call whose lock expired never deletes
   the lock of the next one. *)
LockKept ==
  [][\A f \in Flushers :
       lock = f /\ fpc[f] # "unlock" /\ faults' = faults => lock' = f]_vars

(* Every buffered view of a live post reaches the database, through failed
   transactions and through locks that expire while a call runs. *)
FlushedEventually ==
  \A r \in Requests : InTransit(r) ~> (counted[r] > 0 \/ post[r] \in deleted)
=============================================================================
