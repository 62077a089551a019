----------------------------- MODULE ChatRooms ------------------------------
(***************************************************************************)
(* The rooms as their members see them, app/api/v1/chat/rest.py: messages  *)
(* are committed and rooms marked read on the primary, while the list of   *)
(* rooms and the pages of a room are read from a replica, which applies    *)
(* the commits later, in their order.                                      *)
(***************************************************************************)
EXTENDS ChatTables, Sequences, SequencesExt

CONSTANTS
  Readers,      \* bound: users who read
  Limits,       \* the limit of a page, chosen with each request
  MaxReads      \* bound: rooms opened or marked read, and scrolls begun

ASSUME RoomsAssumption ==
  /\ Readers \subseteq Users
  /\ Limits \subseteq Nat \ {0}
  /\ MaxReads \in Nat

VARIABLES
  wal,      \* the commits the replica has not applied
  replica,  \* the rooms, the messages and which of these are read, on the replica
  scroll,   \* the pages a reader has fetched
  fresh,    \* history: messages committed to a user since their last mark_room_read
  reads     \* requests so far

roomVars == <<tables, wal, replica, scroll, fresh, reads>>

-----------------------------------------------------------------------------
Resting == [cursor |-> 0, seen |-> <<>>, due |-> {}]
Change(newRooms, new, read) == [rooms |-> newRooms, new |-> new, read |-> read]

(* Rows of the replica refer to each other as those of the primary do.     *)
RoomsTypeOK ==
  /\ TablesTypeOK
  /\ replica \in [rooms : SUBSET rooms, new : SUBSET Committed, read : SUBSET Committed]
  /\ replica.read \subseteq replica.new
  /\ \A m \in replica.new : PairOfMessage(m) \in replica.rooms
  /\ scroll \in [Readers -> [cursor : 0..MaxMessages + 1, seen : Seq(Messages),
                             due : SUBSET Messages]]
  /\ fresh \in [Users -> SUBSET Committed]
  /\ reads \in 0..MaxReads

RoomsInit ==
  /\ wal = <<>>
  /\ replica = Change({}, {}, {})
  /\ scroll = [u \in Readers |-> Resting]
  /\ fresh = [u \in Users |-> {}]
  /\ reads = 0

(* Bound: at most MaxReads of these. *)
Request == reads < MaxReads /\ reads' = reads + 1

-----------------------------------------------------------------------------
(* The transactions of send_dm_from_ws, as far as the rooms are concerned: *)
(* one that is rolled back is one that never commits.                      *)

Send(m, s, v) ==
  /\ v # Owner[s]
  /\ Insert(m, s, v)
  /\ UNCHANGED <<wal, replica, scroll, fresh, reads>>

Commits(m) ==
  /\ message[m].state = "flushed"
  /\ Store(m)
  /\ fresh' = [fresh EXCEPT ![message[m].to] = @ \cup {m}]
  /\ wal' = Append(wal, Change({PairOfMessage(m)}, {m}, {}))
  /\ UNCHANGED <<replica, scroll, reads>>

(* resolve_direct_room, for two users who may talk. *)
OpensRoom(p) ==
  /\ Request
  /\ p \notin rooms
  /\ AddRoom(p)
  /\ wal' = Append(wal, Change({p}, {}, {}))
  /\ UNCHANGED <<replica, scroll, fresh>>

(* The replica applies the next commit. *)
Replicate ==
  /\ wal # <<>>
  /\ LET c == Head(wal)
     IN replica' = Change(replica.rooms \cup c.rooms, replica.new \cup c.new,
                          replica.read \cup c.read)
  /\ wal' = Tail(wal)
  /\ UNCHANGED <<tables, scroll, fresh, reads>>

-----------------------------------------------------------------------------
(* Defect: the UPDATE lacks the condition on the sender.                   *)
UnreadByBoth(u, p) == {m \in Between(p) : ~message[m].read}

(* What the UPDATE of mark_room_read selects: unread, and of the peer.     *)
UnreadBy(u, p) == {m \in Between(p) : message[m].from # u /\ ~message[m].read}

(* mark_room_read, for a member of the room.                               *)
MarkRead(u, v) ==
  LET marked == UnreadBy(u, PairOf(u, v))
  IN /\ Request
     /\ PairOf(u, v) \in rooms
     /\ message' = [m \in Messages |-> IF m \in marked THEN [message[m] EXCEPT !.read = TRUE]
                                       ELSE message[m]]
     /\ fresh' = [fresh EXCEPT ![u] = @ \ Between(PairOf(u, v))]
     /\ wal' = Append(wal, Change({}, {}, marked))
     /\ UNCHANGED <<rooms, replica, scroll>>

(* The messages of a room on the replica. *)
Replicated(p) == {m \in replica.new : PairOfMessage(m) = p}

(* list_recent_rooms: the rooms of a user that have a message, with the    *)
(* last one and those of the peer that are not read.  The rooms are fewer  *)
(* than the limit.                                                         *)
RecentRooms(u) ==
  {[peer |-> v, last |-> Max(Replicated(PairOf(u, v))),
    unread |-> {m \in Replicated(PairOf(u, v)) : message[m].from # u /\ m \notin replica.read}] :
     v \in {w \in Users \ {u} : PairOf(u, w) \in replica.rooms /\ Replicated(PairOf(u, w)) # {}}}

(* The messages older than the cursor, newest first.                       *)
Older(p, cursor) == SetToSortSeq({m \in Replicated(p) : m < cursor}, >)

(* Defect: exactly limit rows are fetched, so has_more is never true.      *)
FetchPageOfLimit(p, cursor, limit) ==
  LET rows == Older(p, cursor)
  IN [items |-> IF Len(rows) > limit THEN SubSeq(rows, 1, limit) ELSE rows, next |-> 0]

(* list_room_messages: limit + 1 rows tell whether another page follows,   *)
(* whose cursor is the last message of this one; 0 when there is none.     *)
FetchPage(p, cursor, limit) ==
  LET rows == Older(p, cursor)
      hasMore == Len(rows) > limit
      page == IF hasMore THEN SubSeq(rows, 1, limit) ELSE rows
  IN [items |-> page, next |-> IF hasMore THEN page[Len(page)] ELSE 0]

(* A reader starts again from the newest message ...                       *)
FirstPage(u, v, limit) ==
  LET p == PairOf(u, v)
      page == FetchPage(p, MaxMessages + 1, limit)
  IN /\ Request
     /\ scroll[u].cursor = 0
     /\ p \in replica.rooms
     /\ scroll' = [scroll EXCEPT ![u] = [cursor |-> page.next, seen |-> page.items,
                                         due |-> Replicated(p)]]
     /\ UNCHANGED <<tables, wal, replica, fresh>>

(* ... or follows the cursor of the last page.                             *)
NextPage(u, v, limit) ==
  LET p == PairOf(u, v)
      page == FetchPage(p, scroll[u].cursor, limit)
  IN /\ scroll[u].cursor \in Replicated(p)
     /\ scroll' = [scroll EXCEPT ![u].cursor = page.next, ![u].seen = @ \o page.items]
     /\ UNCHANGED <<tables, wal, replica, fresh, reads>>

-----------------------------------------------------------------------------
RoomsNext ==
  \/ \E m \in Messages, s \in Sockets, v \in Users : Send(m, s, v)
  \/ \E m \in Messages : Commits(m)
  \/ \E p \in Pairs : OpensRoom(p)
  \/ \E u \in Readers : \E v \in Users \ {u} :
       \/ MarkRead(u, v)
       \/ \E limit \in Limits : FirstPage(u, v, limit) \/ NextPage(u, v, limit)
  \/ Replicate

-----------------------------------------------------------------------------
(* In the list of rooms the unread messages of a user are those committed  *)
(* to them since their own last mark_room_read, but for what the replica   *)
(* has still to apply: a message shown as unread is fresh or its marking   *)
(* is on the way, and a fresh message that is not shown is on the way.     *)
UnreadIsFresh ==
  \A u \in Users :
    LET shown == UNION {r.unread : r \in RecentRooms(u)}
        pending == ToSet(wal)
    IN /\ shown \subseteq fresh[u] \cup UNION {c.read : c \in pending}
       /\ fresh[u] \subseteq shown \cup UNION {c.new : c \in pending}

(* Once the last page is fetched, a scroll has shown every message that    *)
(* the replica had when it began, and no message twice, whatever was       *)
(* committed, marked or applied in between.                                *)
ScrollComplete ==
  \A u \in Readers :
    /\ IsInjective(scroll[u].seen)
    /\ scroll[u].cursor = 0 => scroll[u].due \subseteq ToSet(scroll[u].seen)
=============================================================================
