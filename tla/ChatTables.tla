----------------------------- MODULE ChatTables -----------------------------
(***************************************************************************)
(* chat_rooms and chat_messages, app/domain/chat/model.py, and what the    *)
(* transaction of one message does to them.  Chat adds the handlers that   *)
(* send, ChatRooms the requests that read.                                 *)
(***************************************************************************)
EXTENDS Integers, FiniteSets

CONSTANTS
  Users,        \* user ids, ordered as normalize_dm_user_ids orders them
  Sockets,      \* WebSocket connections
  Owner,        \* the user of a socket
  Host,         \* the instance a socket is connected to
  MaxMessages,  \* bound: messages ever written
  Nobody

Messages == 1..MaxMessages  \* ordered as (created_at, id)
Pairs == {p \in Users \X Users : p[1] < p[2]}

ASSUME TablesAssumption ==
  /\ Users \subseteq Nat
  /\ Owner \in [Sockets -> Users]
  /\ MaxMessages \in Nat \ {0}

VARIABLES
  rooms,    \* committed rows of chat_rooms
  message   \* chat_messages

tables == <<rooms, message>>

Unwritten == [state |-> "free", from |-> Nobody, via |-> Nobody, to |-> Nobody, read |-> FALSE]

PairOf(u, v) == IF u < v THEN <<u, v>> ELSE <<v, u>>
PairOfMessage(m) == PairOf(message[m].from, message[m].to)
Committed == {m \in Messages : message[m].state = "committed"}
Between(p) == {m \in Committed : PairOfMessage(m) = p}

(* Rooms are stored under the ordered pair of their members                *)
(* (ck_chat_rooms_user_order), and only a committed message is marked      *)
(* read.                                                                   *)
TablesTypeOK ==
  /\ rooms \subseteq Pairs
  /\ message \in [Messages -> [state : {"free", "flushed", "committed", "aborted"},
                               from : Users \cup {Nobody}, via : Sockets \cup {Nobody},
                               to : Users \cup {Nobody}, read : BOOLEAN]]
  /\ \A m \in Messages : message[m].read => m \in Committed
  /\ \A m \in Committed : PairOfMessage(m) \in rooms

TablesInit ==
  /\ rooms = {}
  /\ message = [m \in Messages |-> Unwritten]

(* The INSERT of a message to v that came by s.  Its key, created_at and   *)
(* id, is from the clock of its instance: later than the keys given there  *)
(* before, but not than those of other instances.                          *)
Insert(m, s, v) ==
  /\ message[m].state = "free"
  /\ \A n \in Messages :
       (message[n].state # "free" /\ Host[message[n].via] = Host[s]) => n < m
  /\ message' = [message EXCEPT ![m] = [state |-> "flushed", from |-> Owner[s], via |-> s,
                                        to |-> v, read |-> FALSE]]
  /\ UNCHANGED rooms

(* Defect: the room row keeps the order sender, peer.                      *)
StoreUnordered(m) ==
  /\ message' = [message EXCEPT ![m].state = "committed"]
  /\ rooms' = rooms \cup {<<message[m].from, message[m].to>>}

(* The COMMIT makes the message visible, and its room if it is new.        *)
Store(m) ==
  /\ message' = [message EXCEPT ![m].state = "committed"]
  /\ rooms' = rooms \cup {PairOfMessage(m)}

(* The transactions of these messages are rolled back.                     *)
Abort(ms) ==
  /\ message' = [m \in Messages |-> IF m \in ms THEN [message[m] EXCEPT !.state = "aborted"]
                                    ELSE message[m]]
  /\ UNCHANGED rooms

(* INSERT .. ON CONFLICT DO NOTHING of a room, committed.                  *)
AddRoom(p) ==
  /\ rooms' = rooms \cup {p}
  /\ UNCHANGED message
=============================================================================
