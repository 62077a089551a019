------------------------------- MODULE MCChat -------------------------------
(***************************************************************************)
(* Two users who write, on two instances: user 1 on i1, user 2 on i2.      *)
(* `part` chooses, once and for all, whether messages are sent and         *)
(* delivered (Chat), stored and read (ChatRooms), or rate limited          *)
(* (RateLimit), so that the state spaces add up.  The first two share the  *)
(* tables, but delivery reads nothing of what ChatRooms adds to them.      *)
(***************************************************************************)
EXTENDS Chat, ChatRooms, RateLimit, TLC

CONSTANTS s1, s2, i1, i2

VARIABLE part

MCOwner == s1 :> 1 @@ s2 :> 2
MCHost == s1 :> i1 @@ s2 :> i2

readState == <<wal, replica, scroll, fresh, reads>>
sendState == <<fanOutVars, users, socket, send, inbox, owed, requests>>
vars == <<part, tables, sendState, readState, limitState, faults>>

(* The rows, the processes and the replica have their types. *)
TypeOK == DeliveryTypeOK /\ RoomsTypeOK

Init ==
  /\ part \in {"delivery", "rooms", "limits", "gate"}
  /\ faults = 0
  /\ TablesInit
  /\ DeliveryInit
  /\ RoomsInit
  /\ LimitInit

(* Bounds.  Redis stops answering twice while the requests of the watched  *)
(* keys are counted; the others are then made only when it does not        *)
(* answer.  It stops once while the connection is alone.                   *)
UsedInRedis(keys) == \A k \in Keys \ keys : shared'[k] = NoWindow
LimitBound == UsedInRedis(Watched)
GateBound == UsedInRedis({ChatKey}) /\ UNCHANGED admitted /\ faults' <= 1

Next ==
  /\ UNCHANGED part
  /\ \/ part = "delivery" /\ DeliveryNext /\ faults' <= 1 /\ UNCHANGED <<readState, limitState>>
     \/ part = "rooms" /\ RoomsNext /\ UNCHANGED <<sendState, limitState, faults>>
     \/ part = "limits" /\ LimitNext /\ LimitBound /\ UNCHANGED <<tables, sendState, readState>>
     \/ part = "gate" /\ LimitNext /\ GateBound /\ UNCHANGED <<tables, sendState, readState>>

Spec == Init /\ [][Next]_vars
=============================================================================
