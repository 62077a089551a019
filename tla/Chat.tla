-------------------------------- MODULE Chat --------------------------------
(***************************************************************************)
(* Direct messages, app/domain/chat and app/api/v1/chat: a WebSocket       *)
(* handler stores each admitted frame in one transaction and then fans it  *)
(* out, first to the sockets of its own instance and then through FanOut;  *)
(* REST requests open a room and block, and admins suspend.  ChatRooms     *)
(* models the requests that read, RateLimit the gate a frame passes before *)
(* it comes here.                                                          *)
(***************************************************************************)
EXTENDS FanOut, ChatTables, FaultBudget, SequencesExt

CONSTANTS
  Callers,      \* bound: users who make REST requests, or are suspended
  Peers,        \* bound: users who are written to
  MaxRequests,  \* bound: REST requests and disconnections
  MaxSent       \* bound: messages written here

ASSUME ChatAssumption ==
  /\ Host \in [Sockets -> Instances]
  /\ Callers \subseteq Peers /\ Peers \subseteq Users
  /\ MaxRequests \in Nat
  /\ MaxSent \in Nat

VARIABLES
  blocks,   \* user_blocks: <<blocker, blocked>>
  active,   \* users.status = ACTIVE
  socket,   \* state of a connection; each is opened at most once
  send,     \* what the handler of a socket is doing
  inbox,    \* what a socket was sent
  owed,     \* history: messages that a socket, open when they were committed on an
            \* instance that listened, has not been sent; nothing after a fault
  requests  \* REST requests and disconnections so far

counters == <<owed, faults, requests>>
users == <<blocks, active>>
chatVars == <<tables, users, socket, send, inbox, counters>>
deliveryVars == <<fanOutVars, chatVars>>

-----------------------------------------------------------------------------
Steps == {"receive", "block", "write", "commit", "local", "publish"}
Receiving == [step |-> "receive", to |-> NULL, msg |-> NULL, new |-> FALSE,
              todo |-> <<>>, clear |-> FALSE]

(* UsersModel.block_exists_between: a block in either direction.           *)
Blocked(u, v) == <<u, v>> \in blocks \/ <<v, u>> \in blocks

(* The rows and the processes have their types, and a socket is owed only  *)
(* what is committed.                                                      *)
DeliveryTypeOK ==
  /\ listener \in [Instances -> {"down", "up"}]
  /\ TablesTypeOK
  /\ blocks \subseteq {b \in Users \X Users : b[1] # b[2]}
  /\ active \in [Users -> BOOLEAN]
  /\ socket \in [Sockets -> {"new", "open", "closed"}]
  /\ \A s \in Sockets : send[s].step \in Steps
  /\ inbox \in [Sockets -> Seq(Messages)]
  /\ owed \in [Sockets -> SUBSET Committed]
  /\ faults \in 0..MaxFaults
  /\ requests \in 0..MaxRequests

DeliveryInit ==
  /\ FanOutInit
  /\ blocks = {}
  /\ active = [u \in Users |-> TRUE]
  /\ socket = [s \in Sockets |-> "new"]
  /\ send = [s \in Sockets |-> Receiving]
  /\ inbox = [s \in Sockets |-> <<>>]
  /\ owed = [s \in Sockets |-> {}]
  /\ faults = 0 /\ requests = 0

(* A fault of kind "redisError", "listenerLost", "socketError", "dbError"  *)
(* or "crash": what is owed may now be lost.                               *)
ChatFault(kind) ==
  /\ Fault(kind)
  /\ owed' = [s \in Sockets |-> {}]
  /\ UNCHANGED requests

(* Bound: at most MaxRequests of these. *)
RestRequest ==
  /\ requests < MaxRequests
  /\ requests' = requests + 1
  /\ UNCHANGED faults

At(s, step) == send[s].step = step
Goto(s, step) == send' = [send EXCEPT ![s].step = step]
Reply(s) == send' = [send EXCEPT ![s] = Receiving]

-----------------------------------------------------------------------------
(* Connections.                                                            *)

(* authenticate_chat_websocket, accept and connect: only active users.     *)
Connect(s) ==
  /\ socket[s] = "new"
  /\ socket' = [socket EXCEPT ![s] = IF active[Owner[s]] THEN "open" ELSE "closed"]
  /\ UNCHANGED <<fanOutVars, tables, users, send, inbox, counters>>

(* WebSocketDisconnect ends the loop; a frame being handled is finished.   *)
Disconnect(s) ==
  /\ RestRequest
  /\ socket[s] = "open"
  /\ socket' = [socket EXCEPT ![s] = "closed"]
  /\ UNCHANGED <<fanOutVars, tables, users, send, inbox>>
  /\ owed' = [owed EXCEPT ![s] = {}]

(* ConnectionManager.send_personal_message: every socket of u on instance  *)
(* i is sent m; a socket whose send raises or times out is closed.         *)
SendPersonal(i, u, m) ==
  LET conns == {s \in Sockets : socket[s] = "open" /\ Owner[s] = u /\ Host[s] = i}
      To(bad) == /\ inbox' = [s \in Sockets |-> IF s \in conns \ bad THEN Append(inbox[s], m)
                                                ELSE inbox[s]]
                 /\ socket' = [s \in Sockets |-> IF s \in bad THEN "closed" ELSE socket[s]]
  IN \/ /\ To({})
        /\ owed' = [s \in Sockets |-> IF s \in conns THEN owed[s] \ {m} ELSE owed[s]]
        /\ UNCHANGED <<faults, requests>>
     \/ \E s \in conns : To({s}) /\ ChatFault("socketError")

-----------------------------------------------------------------------------
(* send_dm_from_ws, one step per statement that other requests can come    *)
(* between.                                                                *)

(* A frame, and the look-up of its recipient: without an active one there  *)
(* is only an error frame.                                                 *)
Receive(s, v) ==
  /\ socket[s] = "open"
  /\ At(s, "receive")
  /\ v # Owner[s]
  /\ active[v]
  /\ send' = [send EXCEPT ![s] = [Receiving EXCEPT !.step = "block", !.to = v,
                                                   !.clear = ~Blocked(Owner[s], v)]]
  /\ UNCHANGED <<fanOutVars, tables, users, socket, inbox, counters>>

(* Defect: only the sender's own blocks are looked up.                     *)
CheckBlockOneWay(s) ==
  /\ At(s, "block")
  /\ IF <<Owner[s], send[s].to>> \in blocks THEN Reply(s) ELSE Goto(s, "write")
  /\ UNCHANGED <<fanOutVars, tables, users, socket, inbox, counters>>

CheckBlock(s) ==
  /\ At(s, "block")
  /\ IF Blocked(Owner[s], send[s].to) THEN Reply(s) ELSE Goto(s, "write")
  /\ UNCHANGED <<fanOutVars, tables, users, socket, inbox, counters>>

(* A transaction that has inserted the room of p and not committed: another *)
(* INSERT of the same pair waits for it.                                    *)
Inserting(p) ==
  \E s \in Sockets : send[s].new /\ PairOf(Owner[s], send[s].to) = p

(* INSERT .. ON CONFLICT DO NOTHING and the SELECT of the room, then the   *)
(* INSERT of the message.                                                  *)
Write(s) ==
  LET p == PairOf(Owner[s], send[s].to)
  IN /\ At(s, "write")
     /\ ~Inserting(p)
     /\ \E m \in Messages \cap 1..MaxSent :
          /\ Insert(m, s, send[s].to)
          /\ send' = [send EXCEPT ![s].step = "commit", ![s].msg = m, ![s].new = p \notin rooms]
     /\ UNCHANGED <<fanOutVars, users, socket, inbox, counters>>

Commit(s) ==
  /\ At(s, "commit")
  /\ Store(send[s].msg)
  /\ send' = [send EXCEPT ![s].step = "local", ![s].new = FALSE,
                          ![s].todo = <<send[s].to, Owner[s]>>]
  /\ owed' = [q \in Sockets |->
                IF /\ socket[q] = "open" /\ listener[Host[q]] = "up"
                   /\ Owner[q] \in {Owner[s], send[s].to}
                   /\ faults = 0
                THEN owed[q] \cup {send[s].msg} ELSE owed[q]]
  /\ UNCHANGED <<fanOutVars, users, socket, inbox, faults, requests>>

(* The COMMIT takes effect but its answer is lost: an error frame, and no  *)
(* fan-out of a stored message.                                            *)
CommitUnanswered(s) ==
  /\ At(s, "commit")
  /\ ChatFault("dbError")
  /\ Store(send[s].msg)
  /\ Reply(s)
  /\ UNCHANGED <<fanOutVars, users, socket, inbox>>

(* A statement or the COMMIT fails and everything is rolled back.          *)
RollBack(s) ==
  /\ send[s].step \in {"block", "write", "commit"}
  /\ ChatFault("dbError")
  /\ Abort(IF At(s, "commit") THEN {send[s].msg} ELSE {})
  /\ Reply(s)
  /\ UNCHANGED <<fanOutVars, users, socket, inbox>>

(* Defect: the sender's other sockets are forgotten.                       *)
SendLocalToPeer(s) ==
  /\ At(s, "local")
  /\ SendPersonal(Host[s], Head(send[s].todo), send[s].msg)
  /\ send' = [send EXCEPT ![s].step = "publish"]
  /\ UNCHANGED <<fanOutVars, tables, users>>

(* _fanout_dm: the peer's and then the sender's sockets of this instance.  *)
SendLocal(s) ==
  /\ At(s, "local")
  /\ SendPersonal(Host[s], Head(send[s].todo), send[s].msg)
  /\ send' = [send EXCEPT ![s].todo = Tail(@),
                          ![s].step = IF Len(send[s].todo) = 1 THEN "publish" ELSE "local"]
  /\ UNCHANGED <<fanOutVars, tables, users>>

PublishMessage(s) ==
  /\ At(s, "publish")
  /\ Publish(Host[s], <<send[s].to, Owner[s]>>, send[s].msg)
  /\ Reply(s)
  /\ UNCHANGED <<tables, users, socket, inbox, counters>>

(* PUBLISH raises or there is no Redis client: other instances miss it.    *)
PublishFails(s) ==
  /\ At(s, "publish")
  /\ ChatFault("redisError")
  /\ Reply(s)
  /\ UNCHANGED <<fanOutVars, tables, users, socket, inbox>>

-----------------------------------------------------------------------------
(* The listener of an instance, for the chat channel.                      *)

Read(i) ==
  /\ ReadEnvelope(i)
  /\ UNCHANGED chatVars

HandOut(i) ==
  /\ NextTarget(i)
  /\ SendPersonal(i, Head(current[i].targets), current[i].payload)
  /\ UNCHANGED <<tables, users, send>>

StartListening(i) ==
  /\ Subscribe(i)
  /\ UNCHANGED chatVars

LoseConnection(i) ==
  /\ ConnectionLost(i)
  /\ ChatFault("listenerLost")
  /\ UNCHANGED <<tables, users, socket, send, inbox>>

(* The process ends: its sockets close, its open transactions roll back    *)
(* and what it had not fanned out is never fanned out.                     *)
Crash(i) ==
  LET here == {s \in Sockets : Host[s] = i}
  IN /\ ChatFault("crash")
     /\ ListenerDies(i)
     /\ socket' = [s \in Sockets |-> IF s \in here /\ socket[s] = "open" THEN "closed" ELSE socket[s]]
     /\ send' = [s \in Sockets |-> IF s \in here THEN Receiving ELSE send[s]]
     /\ Abort({m \in Messages : message[m].state = "flushed" /\ message[m].via \in here})
     /\ UNCHANGED <<users, inbox>>

-----------------------------------------------------------------------------
(* REST requests.                                                          *)

(* resolve_direct_room.                                                    *)
OpenRoom(u, v) ==
  /\ RestRequest
  /\ u # v
  /\ active[v]
  /\ ~Blocked(u, v)
  /\ ~Inserting(PairOf(u, v))
  /\ AddRoom(PairOf(u, v))
  /\ UNCHANGED <<fanOutVars, users, socket, send, inbox, owed>>

(* toggle_block_user deletes its row or inserts it: of two requests of one *)
(* user at the same time the second deletes nothing or fails on the key.   *)
ToggleBlock(u, v) ==
  /\ RestRequest
  /\ u # v
  /\ blocks' = IF <<u, v>> \in blocks THEN blocks \ {<<u, v>>} ELSE blocks \cup {<<u, v>>}
  /\ send' = [s \in Sockets |->
                IF {Owner[s], send[s].to} = {u, v} /\ {<<u, v>>, <<v, u>>} \cap blocks' = {}
                THEN [send[s] EXCEPT !.clear = TRUE] ELSE send[s]]
  /\ UNCHANGED <<fanOutVars, tables, active, socket, inbox, owed>>

(* Suspension and its end (app/domain/admin/service.py).                   *)
SetStatus(u) ==
  /\ RestRequest
  /\ active' = [active EXCEPT ![u] = ~@]
  /\ UNCHANGED <<fanOutVars, tables, blocks, socket, send, inbox, owed>>

-----------------------------------------------------------------------------
SendStep(s) ==
  \/ CheckBlock(s) \/ Write(s) \/ Commit(s) \/ SendLocal(s) \/ PublishMessage(s)
SendFault(s) == CommitUnanswered(s) \/ RollBack(s) \/ PublishFails(s)
ListenStep(i) == Read(i) \/ HandOut(i)

DeliveryNext ==
  \/ \E s \in Sockets : Connect(s) \/ Disconnect(s) \/ SendStep(s) \/ SendFault(s)
  \/ \E s \in Sockets, v \in Peers : Receive(s, v)
  \/ \E i \in Instances : StartListening(i) \/ ListenStep(i) \/ LoseConnection(i) \/ Crash(i)
  \/ \E u \in Callers : SetStatus(u)
  \/ \E u \in Callers : \E v \in Peers \ {u} :
       OpenRoom(u, v) \/ ToggleBlock(u, v)

-----------------------------------------------------------------------------
(* What a socket is sent is committed and from or to its user, and the     *)
(* messages of one connection arrive in the order of sending and none      *)
(* twice, on whatever instance: the keys of one connection increase, and   *)
(* the local delivery of _fanout_dm and the listener never both serve a    *)
(* socket.                                                                 *)
DeliveredInOrder ==
  \A s \in Sockets :
    /\ \A n \in DOMAIN inbox[s] :
         /\ inbox[s][n] \in Committed
         /\ Owner[s] \in {message[inbox[s][n]].from, message[inbox[s][n]].to}
    /\ \A n, k \in DOMAIN inbox[s] :
         (n < k /\ message[inbox[s][n]].via = message[inbox[s][k]].via)
           => inbox[s][n] < inbox[s][k]

(* A frame gets past get_or_create_room only if at some moment since it    *)
(* was received neither of the two had blocked the other.                  *)
BlockedIsRefused ==
  \A s \in Sockets : send[s].step \in {"write", "commit"} => send[s].clear

(* Without a fault a message is on its way to every socket of its two      *)
(* users that was open, on a listening instance, when it was committed,    *)
(* until it is sent to that socket or the socket is closed.                *)
ReachesOpenSockets ==
  \A q \in Sockets : \A m \in owed[q] :
    \/ \E s \in Sockets :
         /\ send[s].msg = m
         /\ Host[s] = Host[q] => Owner[q] \in ToSet(send[s].todo)
    \/ \E n \in DOMAIN wire[Host[q]] :
         wire[Host[q]][n].payload = m /\ wire[Host[q]][n].origin # Host[q]
    \/ /\ current[Host[q]] # NULL
       /\ current[Host[q]].payload = m
       /\ Owner[q] \in ToSet(current[Host[q]].targets)
=============================================================================
