------------------------------- MODULE FanOut -------------------------------
(***************************************************************************)
(* Cross-instance delivery, src/app/infra/pubsub.py: every instance keeps  *)
(* one Redis subscription for the chat and the notification channel, a     *)
(* publisher sends one envelope for all its recipients, and the listener   *)
(* hands an envelope to the local connections of each recipient in turn,   *)
(* skipping the envelopes of its own instance.  Redis Pub/Sub keeps        *)
(* nothing: an instance that is not subscribed at the time of a PUBLISH,   *)
(* or that loses its connection before it reads it, never sees it.         *)
(***************************************************************************)
EXTENDS Integers, Sequences, FiniteSets

CONSTANTS
  Instances,      \* the API processes
  NULL

VARIABLES
  listener,       \* run_user_fanout_listener of an instance: "up" while subscribed
  wire,           \* what Redis has sent to an instance and it has not read
  current         \* the envelope _dispatch_message is handing out, or NULL

fanOutVars == <<listener, wire, current>>

(* What publish_user_envelope puts into one PUBLISH. *)
Envelope(origin, targets, payload) ==
    [origin |-> origin, targets |-> targets, payload |-> payload]

FanOutInit ==
  /\ listener = [i \in Instances |-> "up"]
  /\ wire = [i \in Instances |-> <<>>]
  /\ current = [i \in Instances |-> NULL]

(* redis.publish: a copy for every subscriber, the publisher's own         *)
(* instance included.                                                      *)
Publish(i, targets, payload) ==
  /\ wire' = [j \in Instances |->
                  IF listener[j] = "up"
                  THEN Append(wire[j], Envelope(i, targets, payload))
                  ELSE wire[j]]
  /\ UNCHANGED <<listener, current>>

(* _listen_once: ping, subscribe; also the reconnection after a backoff.   *)
Subscribe(i) ==
  /\ listener[i] = "down"
  /\ listener' = [listener EXCEPT ![i] = "up"]
  /\ UNCHANGED <<wire, current>>

(* get_message raises: the connection is closed with all it had buffered.  *)
ConnectionLost(i) ==
  /\ listener[i] = "up"
  /\ current[i] = NULL
  /\ listener' = [listener EXCEPT ![i] = "down"]
  /\ wire' = [wire EXCEPT ![i] = <<>>]
  /\ UNCHANGED current

(* The process of instance i ends.                                         *)
ListenerDies(i) ==
  /\ listener' = [listener EXCEPT ![i] = "down"]
  /\ wire' = [wire EXCEPT ![i] = <<>>]
  /\ current' = [current EXCEPT ![i] = NULL]

(* Defect: the listener does not compare the origin with its own id.       *)
ReadEnvelopeOfAnyOrigin(i) ==
  /\ listener[i] = "up"
  /\ current[i] = NULL
  /\ wire[i] # <<>>
  /\ current' = [current EXCEPT ![i] = Head(wire[i])]
  /\ wire' = [wire EXCEPT ![i] = Tail(@)]
  /\ UNCHANGED listener

(* get_message and the start of _dispatch_message: what this instance      *)
(* published was delivered locally before and is skipped.                  *)
ReadEnvelope(i) ==
  /\ listener[i] = "up"
  /\ current[i] = NULL
  /\ wire[i] # <<>>
  /\ current' = [current EXCEPT ![i] = IF Head(wire[i]).origin = i THEN NULL ELSE Head(wire[i])]
  /\ wire' = [wire EXCEPT ![i] = Tail(@)]
  /\ UNCHANGED listener

(* One turn of _dispatch_message's loop: the next recipient is served (the *)
(* conjunct beside this one delivers to its local connections).            *)
NextTarget(i) ==
  /\ current[i] # NULL
  /\ current' = [current EXCEPT ![i] = IF Len(@.targets) = 1 THEN NULL
                                         ELSE [@ EXCEPT !.targets = Tail(@)]]
  /\ UNCHANGED <<listener, wire>>
=============================================================================
