------------------------- MODULE NotificationStream -------------------------
(***************************************************************************)
(* The SSE streams of notifications with their bounded queues              *)
(* (app/domain/notifications/stream.py) and publish_after_commit, which    *)
(* serves the streams of its own instance and publishes an envelope for    *)
(* the others.  The SNS dispatch that follows is SnsDelivery.              *)
(***************************************************************************)
EXTENDS NotificationTable, FanOut, FaultBudget

CONSTANTS
  Streams,      \* SSE connections
  StreamUser,   \* the user of a stream
  StreamHost,   \* the instance of a stream
  QueueSize     \* _QUEUE_MAX_SIZE

StreamFaults == {"redisError", "listenerLost", "crash"}

ASSUME StreamAssumption ==
  /\ StreamUser \in [Streams -> Recipients]
  /\ StreamHost \in [Streams -> Instances]
  /\ QueueSize \in Nat \ {0}

VARIABLES
  registered,  \* the queues in SseFanoutManager._by_user, by stream
  queue,       \* what a stream has not sent yet
  notify,      \* publish_after_commit on an instance
  reaching     \* history: <<notification, stream>> that was to reach an open stream

streamState == <<tableVars, registered, queue, notify, reaching, fanOutVars>>
streamVars == <<streamState, faults>>
queueVars == <<registered, queue>>

-----------------------------------------------------------------------------
NoNotify == [step |-> "idle", note |-> NULL]

StreamInit ==
  /\ TableInit
  /\ registered = Streams
  /\ queue = [s \in Streams |-> <<>>]
  /\ notify = [i \in Instances |-> NoNotify]
  /\ reaching = {}
  /\ FanOutInit

-----------------------------------------------------------------------------
(* Defect: closing one stream of a user unregisters them all.              *)
CloseEveryTab(s) ==
  /\ s \in registered
  /\ registered' = registered \ {t \in Streams : StreamUser[t] = StreamUser[s]
                                                  /\ StreamHost[t] = StreamHost[s]}
  /\ queue' = [queue EXCEPT ![s] = <<>>]
  /\ reaching' = {p \in reaching : p[2] # s}
  /\ UNCHANGED <<tableVars, notify, fanOutVars, faults>>

(* sse_subscribe ends: unregister; its queue is lost.                      *)
CloseStream(s) ==
  /\ s \in registered
  /\ registered' = registered \ {s}
  /\ queue' = [queue EXCEPT ![s] = <<>>]
  /\ reaching' = {p \in reaching : p[2] # s}
  /\ UNCHANGED <<tableVars, notify, fanOutVars, faults>>

(* sse_subscribe begins: register.                                         *)
OpenStream(s) ==
  /\ s \notin registered
  /\ registered' = registered \cup {s}
  /\ UNCHANGED <<queue, tableVars, notify, reaching, fanOutVars, faults>>

(* sse_subscribe yields the next event.                                    *)
YieldEvent(s) ==
  /\ queue[s] # <<>>
  /\ queue' = [queue EXCEPT ![s] = Tail(@)]
  /\ reaching' = reaching \ {<<Head(queue[s]), s>>}
  /\ UNCHANGED <<registered, tableVars, notify, fanOutVars, faults>>

(* SseFanoutManager.deliver on instance i: an event for a full queue is    *)
(* dropped.                                                                *)
TabsOf(i, n) == {s \in registered : StreamHost[s] = i /\ StreamUser[s] = Addressee[n]}

Deliver(i, n) ==
  /\ queue' = [s \in Streams |->
       IF s \in TabsOf(i, n) /\ Len(queue[s]) < QueueSize THEN Append(queue[s], n) ELSE queue[s]]
  /\ UNCHANGED registered

Dropped(i, n) == {p \in reaching : p[1] = n /\ StreamHost[p[2]] = i /\ Len(queue[p[2]]) = QueueSize}

-----------------------------------------------------------------------------
(* A like or a comment commits its notification; publish_after_commit      *)
(* follows.  The id was drawn before, on any instance.                     *)
NotifyUser(i, n) ==
  /\ notify[i] = NoNotify
  /\ CommitNote(n)
  /\ notify' = [notify EXCEPT ![i] = [step |-> "deliver", note |-> n]]
  /\ UNCHANGED <<queueVars, reaching, fanOutVars, faults>>

DeliverLocal(i) ==
  LET n == notify[i].note IN
  /\ notify[i].step = "deliver"
  /\ notify' = [notify EXCEPT ![i].step = "publish"]
  /\ Deliver(i, n)
  /\ reaching' = reaching \cup {<<n, s>> : s \in {t \in TabsOf(i, n) : Len(queue[t]) < QueueSize}}
  /\ UNCHANGED <<tableVars, fanOutVars, faults>>

PublishEvent(i) ==
  LET n == notify[i].note IN
  /\ notify[i].step = "publish"
  /\ notify' = [notify EXCEPT ![i] = NoNotify]
  /\ Publish(i, <<Addressee[n]>>, n)
  /\ reaching' = reaching \cup {<<n, s>> : s \in {t \in registered :
       StreamUser[t] = Addressee[n] /\ StreamHost[t] # i /\ listener[StreamHost[t]] = "up"}}
  /\ UNCHANGED <<tableVars, queueVars, faults>>

(* publish_user_envelope logs the failure.                                 *)
PublishEventFails(i) ==
  /\ notify[i].step = "publish"
  /\ Fault("redisError")
  /\ notify' = [notify EXCEPT ![i] = NoNotify]
  /\ UNCHANGED <<tableVars, queueVars, reaching, fanOutVars>>

ReadEvent(i) ==
  /\ ReadEnvelope(i)
  /\ UNCHANGED <<tableVars, queueVars, notify, reaching, faults>>

DeliverRemote(i) ==
  /\ NextTarget(i)
  /\ Deliver(i, current[i].payload)
  /\ reaching' = reaching \ Dropped(i, current[i].payload)
  /\ UNCHANGED <<tableVars, notify, faults>>

ListenAgain(i) ==
  /\ Subscribe(i)
  /\ UNCHANGED <<tableVars, queueVars, notify, reaching, faults>>

(* What an instance that stops reading had been sent no longer reaches its *)
(* streams; what is in their queues does.                                  *)
StillQueued(i) ==
  {p \in reaching : StreamHost[p[2]] = i => p[1] \in ToSet(queue[p[2]])}

LoseListener(i) ==
  /\ Fault("listenerLost")
  /\ ConnectionLost(i)
  /\ reaching' = StillQueued(i)
  /\ UNCHANGED <<tableVars, queueVars, notify>>

CrashInstance(i) ==
  /\ Fault("crash")
  /\ ListenerDies(i)
  /\ notify' = [notify EXCEPT ![i] = NoNotify]
  /\ registered' = {s \in registered : StreamHost[s] # i}
  /\ queue' = [s \in Streams |-> IF StreamHost[s] = i THEN <<>> ELSE queue[s]]
  /\ reaching' = {p \in reaching : StreamHost[p[2]] # i}
  /\ UNCHANGED <<tableVars>>

-----------------------------------------------------------------------------
StreamNext ==
  \/ \E i \in Instances :
       \/ \E n \in Notes : NotifyUser(i, n)
       \/ DeliverLocal(i) \/ PublishEvent(i) \/ PublishEventFails(i)
       \/ ReadEvent(i) \/ DeliverRemote(i) \/ ListenAgain(i) \/ LoseListener(i)
       \/ CrashInstance(i)
  \/ \E s \in Streams : OpenStream(s) \/ CloseStream(s) \/ YieldEvent(s)

StreamSpec == StreamInit /\ faults = 0 /\ [][StreamNext]_streamVars

-----------------------------------------------------------------------------
OnTheWay(n, i) ==
  \/ current[i] # NULL /\ current[i].payload = n
  \/ \E k \in DOMAIN wire[i] : wire[i][k].payload = n

(* An event delivered on the instance of an open stream, or published      *)
(* while its instance was subscribed, is in the stream's queue or on its   *)
(* way to it until the client has it, whatever other streams of the user   *)
(* close, unless the queue was full; and a client that lists its           *)
(* notifications to the last page sees every one that was on the replica   *)
(* and was not deleted, so that a dropped event can be recovered.          *)
NothingIsMissed ==
  /\ \A p \in reaching : p[1] \in ToSet(queue[p[2]]) \/ OnTheWay(p[1], StreamHost[p[2]])
  /\ ListComplete
=============================================================================
