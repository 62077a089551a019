---------------------------- MODULE SnsDelivery -----------------------------
(***************************************************************************)
(* Offline delivery of a notification through SNS.  After the commit       *)
(* NotificationService._dispatch_sns_publish queues a Celery task, or runs *)
(* the delivery as a task of the API process when the broker does not      *)
(* answer.  Both use deliver_once of app/infra/sns.py with the same key.   *)
(* The worker (app/worker) loads the row first and is retried by Celery.   *)
(***************************************************************************)
EXTENDS FaultBudget

CONSTANTS
  Notifs,      \* committed notifications; also the name of the inline task of one
  Workers,     \* Celery worker processes
  MaxRetries,  \* max_retries of deliver_notification_sns
  Nobody

Runners == Workers \cup Notifs
SnsFaults == {"brokerError", "redisError", "snsError", "dbError", "redelivery", "crash", "expiry"}

ASSUME SnsAssumption ==
  /\ Workers \cap Notifs = {}
  /\ Nobody \notin Notifs
  /\ MaxRetries \in Nat

VARIABLES
  celery,      \* CELERY_ENABLED
  stored,      \* notifications whose row exists
  dispatched,  \* notifications _dispatch_sns_publish was called for
  queued,      \* tasks in the broker, by notification and number of retries
  run,         \* what a runner is doing
  delivered,   \* the keys celery:notif:delivered:* in Redis
  copies,      \* messages SNS accepted
  unchecked,   \* history: deliveries whose look-up of the key failed
  dropped      \* history: notifications of which a delivery ended for good without its message

snsState == <<celery, stored, dispatched, queued, run, delivered, copies, unchecked, dropped>>
snsVars == <<snsState, faults>>

-----------------------------------------------------------------------------
Tries == 0..MaxRetries
Waiting == [step |-> "wait", notif |-> Nobody, tries |-> 0]
Runs == [step : {"wait", "load", "check", "publish", "mark", "retry"}, notif : Notifs \cup {Nobody},
         tries : Tries]

(* Types; a runner that does something does it for a notification.         *)
SnsTypeOK ==
  /\ celery \in BOOLEAN
  /\ stored \subseteq Notifs
  /\ dispatched \subseteq Notifs
  /\ queued \in [Notifs -> [Tries -> Nat]]
  /\ run \in [Runners -> Runs]
  /\ \A r \in Runners : run[r].step # "wait" => run[r].notif \in Notifs
  /\ delivered \subseteq Notifs
  /\ copies \in [Notifs -> Nat]
  /\ unchecked \in [Notifs -> Nat]
  /\ dropped \subseteq Notifs

SnsInit ==
  /\ celery \in BOOLEAN
  /\ stored = Notifs
  /\ dispatched = {}
  /\ queued = [n \in Notifs |-> [k \in Tries |-> 0]]
  /\ run = [r \in Runners |-> Waiting]
  /\ delivered = {}
  /\ copies = [n \in Notifs |-> 0]
  /\ unchecked = [n \in Notifs |-> 0]
  /\ dropped = {}

On(r, step) == run[r].step = step
To(r, step) == run' = [run EXCEPT ![r].step = step]
Finish(r) == run' = [run EXCEPT ![r] = Waiting]
Put(n, k) == queued' = [queued EXCEPT ![n][k] = @ + 1]

-----------------------------------------------------------------------------
StartInline(n) == run' = [run EXCEPT ![n] = [step |-> "check", notif |-> n, tries |-> 0]]

(* _dispatch_sns_publish without Celery: _schedule_sns_publish.            *)
DispatchInline(n) ==
  /\ ~celery
  /\ n \notin dispatched
  /\ dispatched' = dispatched \cup {n}
  /\ StartInline(n)
  /\ UNCHANGED <<celery, stored, queued, delivered, copies, unchecked, dropped, faults>>

(* _dispatch_sns_publish: the task is in the broker.                       *)
Enqueue(n) ==
  /\ celery
  /\ n \notin dispatched
  /\ dispatched' = dispatched \cup {n}
  /\ Put(n, 0)
  /\ UNCHANGED <<celery, stored, run, delivered, copies, unchecked, dropped, faults>>

(* .delay raises, though the broker may have the task: _schedule_sns_publish *)
(* starts the inline task as well.                                         *)
EnqueueFails(n, unanswered) ==
  /\ celery
  /\ n \notin dispatched
  /\ Fault("brokerError")
  /\ dispatched' = dispatched \cup {n}
  /\ IF unanswered THEN Put(n, 0) ELSE UNCHANGED queued
  /\ StartInline(n)
  /\ UNCHANGED <<celery, stored, delivered, copies, unchecked, dropped>>

(* A worker takes a task.                                                  *)
TakeTask(w, n, k) ==
  /\ On(w, "wait")
  /\ queued[n][k] > 0
  /\ queued' = [queued EXCEPT ![n][k] = @ - 1]
  /\ run' = [run EXCEPT ![w] = [step |-> "load", notif |-> n, tries |-> k]]
  /\ UNCHANGED <<celery, stored, dispatched, delivered, copies, unchecked, dropped, faults>>

(* _load_notification: without the row there is nothing to deliver.        *)
LoadRow(w) ==
  /\ On(w, "load")
  /\ IF run[w].notif \in stored THEN To(w, "check") ELSE Finish(w)
  /\ UNCHANGED <<celery, stored, dispatched, queued, delivered, copies, unchecked, dropped, faults>>

(* The task raises: self.retry is next.                                    *)
LoadFails(w) ==
  /\ On(w, "load")
  /\ Fault("dbError")
  /\ To(w, "retry")
  /\ UNCHANGED <<celery, stored, dispatched, queued, delivered, copies, unchecked, dropped>>

(* Defect: the task reports its failure instead of being retried.          *)
RetryNever(w) ==
  /\ On(w, "retry")
  /\ Finish(w)
  /\ UNCHANGED <<celery, stored, dispatched, queued, delivered, copies, unchecked, dropped, faults>>

(* self.retry: a task with one more retry, or the failure of the last.     *)
Retry(w) ==
  /\ On(w, "retry")
  /\ IF run[w].tries < MaxRetries
       THEN Put(run[w].notif, run[w].tries + 1) /\ UNCHANGED dropped
       ELSE dropped' = dropped \cup {run[w].notif} /\ UNCHANGED queued
  /\ Finish(w)
  /\ UNCHANGED <<celery, stored, dispatched, delivered, copies, unchecked, faults>>

(* The broker does not answer self.retry, though it may have the task:     *)
(* Celery rejects the running one and does not queue it again.             *)
RetryFails(w, unanswered) ==
  /\ On(w, "retry")
  /\ run[w].tries < MaxRetries
  /\ Fault("brokerError")
  /\ IF unanswered
       THEN Put(run[w].notif, run[w].tries + 1) /\ UNCHANGED dropped
       ELSE dropped' = dropped \cup {run[w].notif} /\ UNCHANGED queued
  /\ Finish(w)
  /\ UNCHANGED <<celery, stored, dispatched, delivered, copies, unchecked>>

-----------------------------------------------------------------------------
(* deliver_once, by a worker or by the inline task.                        *)

(* Defect: the key is set before the message is published.                 *)
CheckAndMark(r) ==
  /\ On(r, "check")
  /\ IF run[r].notif \in delivered THEN Finish(r) ELSE To(r, "publish")
  /\ delivered' = delivered \cup {run[r].notif}
  /\ UNCHANGED <<celery, stored, dispatched, queued, copies, unchecked, dropped, faults>>

(* already_delivered.                                                      *)
Check(r) ==
  /\ On(r, "check")
  /\ IF run[r].notif \in delivered THEN Finish(r) ELSE To(r, "publish")
  /\ UNCHANGED <<celery, stored, dispatched, queued, delivered, copies, unchecked, dropped, faults>>

(* Redis does not answer: the notification counts as not delivered.        *)
CheckFails(r) ==
  /\ On(r, "check")
  /\ Fault("redisError")
  /\ To(r, "publish")
  /\ unchecked' = [unchecked EXCEPT ![run[r].notif] = @ + 1]
  /\ UNCHANGED <<celery, stored, dispatched, queued, delivered, copies, dropped>>

(* publish_sns: one call of publish.  `copies` counts calls; the AWS       *)
(* client may repeat a request within one, which is not modelled.          *)
PublishSns(r) ==
  /\ On(r, "publish")
  /\ copies' = [copies EXCEPT ![run[r].notif] = @ + 1]
  /\ To(r, "mark")
  /\ UNCHANGED <<celery, stored, dispatched, queued, delivered, unchecked, dropped, faults>>

(* publish raises, after or without SNS accepting the message: a worker    *)
(* goes on to self.retry, the inline task only logs it.                    *)
PublishSnsFails(r, unanswered) ==
  /\ On(r, "publish")
  /\ Fault("snsError")
  /\ copies' = IF unanswered THEN [copies EXCEPT ![run[r].notif] = @ + 1] ELSE copies
  /\ IF r \in Workers
       THEN To(r, "retry") /\ UNCHANGED dropped
       ELSE Finish(r) /\ dropped' = dropped \cup {r}
  /\ UNCHANGED <<celery, stored, dispatched, queued, delivered, unchecked>>

(* mark_delivered.                                                         *)
Mark(r) ==
  /\ On(r, "mark")
  /\ delivered' = delivered \cup {run[r].notif}
  /\ Finish(r)
  /\ UNCHANGED <<celery, stored, dispatched, queued, copies, unchecked, dropped, faults>>

(* The failure is only logged.                                             *)
MarkFails(r) ==
  /\ On(r, "mark")
  /\ Fault("redisError")
  /\ Finish(r)
  /\ UNCHANGED <<celery, stored, dispatched, queued, delivered, copies, unchecked, dropped>>

-----------------------------------------------------------------------------
(* Celery and the rest of the system.                                      *)

(* The visibility timeout of a task that still runs (task_acks_late), or   *)
(* the task was sent twice by the publish retries: there is another.       *)
Redeliver(w) ==
  /\ ~On(w, "wait")
  /\ Fault("redelivery")
  /\ Put(run[w].notif, run[w].tries)
  /\ UNCHANGED <<celery, stored, dispatched, run, delivered, copies, unchecked, dropped>>

(* The worker is killed.  A task it had not acknowledged is delivered      *)
(* again, one whose child process alone was killed is acknowledged.        *)
CrashWorker(w, acknowledged) ==
  /\ ~On(w, "wait")
  /\ Fault("crash")
  /\ IF acknowledged
       THEN dropped' = dropped \cup {run[w].notif} /\ UNCHANGED queued
       ELSE Put(run[w].notif, run[w].tries) /\ UNCHANGED dropped
  /\ Finish(w)
  /\ UNCHANGED <<celery, stored, dispatched, delivered, copies, unchecked>>

(* drain_sns_inline_tasks cancels what is not finished in time.            *)
CancelInline(n) ==
  /\ ~On(n, "wait")
  /\ Fault("crash")
  /\ dropped' = dropped \cup {n}
  /\ Finish(n)
  /\ UNCHANGED <<celery, stored, dispatched, queued, delivered, copies, unchecked>>

(* The key expires.                                                        *)
ExpireMark(n) ==
  /\ n \in delivered
  /\ Fault("expiry")
  /\ delivered' = delivered \ {n}
  /\ UNCHANGED <<celery, stored, dispatched, queued, run, copies, unchecked, dropped>>

(* The row is purged, or deleted with its recipient.                       *)
RowGone(n) ==
  /\ n \in stored
  /\ stored' = stored \ {n}
  /\ UNCHANGED <<celery, dispatched, queued, run, delivered, copies, unchecked, dropped, faults>>

-----------------------------------------------------------------------------
Dispatch(n) ==
  \/ DispatchInline(n)
  \/ Enqueue(n)
  \/ \E unanswered \in BOOLEAN : EnqueueFails(n, unanswered)

TakeAny(w) == \E n \in Notifs, k \in Tries : TakeTask(w, n, k)
Progress(r) == Check(r) \/ PublishSns(r) \/ Mark(r) \/ (r \in Workers /\ (LoadRow(r) \/ Retry(r)))

SnsFault ==
  \/ \E r \in Runners :
       \/ CheckFails(r)
       \/ MarkFails(r)
       \/ \E unanswered \in BOOLEAN : PublishSnsFails(r, unanswered)
  \/ \E w \in Workers :
       \/ LoadFails(w)
       \/ Redeliver(w)
       \/ \E unanswered \in BOOLEAN : RetryFails(w, unanswered)
       \/ \E acknowledged \in BOOLEAN : CrashWorker(w, acknowledged)
  \/ \E n \in Notifs : CancelInline(n) \/ ExpireMark(n)

SnsNext ==
  \/ \E n \in Notifs : Dispatch(n) \/ RowGone(n)
  \/ \E w \in Workers : TakeAny(w)
  \/ \E r \in Runners : Progress(r)
  \/ SnsFault

(* A worker takes tasks and runs them; the event loop runs its tasks.      *)
SnsFairness ==
  /\ \A w \in Workers : WF_snsVars(TakeAny(w) \/ Progress(w))
  /\ \A n \in Notifs : WF_snsVars(Progress(n))

SnsSpec == SnsInit /\ faults = 0 /\ [][SnsNext]_snsVars /\ SnsFairness

-----------------------------------------------------------------------------
(* The attempts of the promise are the runners between the check and the   *)
(* answer of SNS.                                                          *)
Trying == [n \in Notifs |-> {r \in Runners : run[r].step = "publish" /\ run[r].notif = n}]

Promise == INSTANCE DeliveryPromise WITH
  trying <- Trying,
  receipt <- delivered,
  blind <- unchecked

(* deliver_once, run by several workers and the inline task of one         *)
(* notification with crashes, redeliveries and lost answers in between,    *)
(* sends only after a look-up that found no key or that failed, once per   *)
(* look-up, and writes the key only for a notification that was sent.      *)
DeliveryRefines == Promise!PromiseSpec

(* A dispatched notification reaches SNS: lost answers, failed look-ups,   *)
(* keys that expire, redeliveries and workers killed before they           *)
(* acknowledge do not lose it.  It is lost only when its row is gone, its  *)
(* task failed MaxRetries times and once more, the broker did not take a   *)
(* retry, the inline task (which has none) ended, or Celery acknowledged   *)
(* the task of a killed process.                                           *)
DispatchedIsSent ==
  \A n \in Notifs : n \in dispatched ~> (copies[n] > 0 \/ n \notin stored \/ n \in dropped)
=============================================================================
