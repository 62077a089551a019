-------------------------- MODULE NotificationTable --------------------------
(***************************************************************************)
(* The notifications table (app/domain/notifications/model.py) with its    *)
(* retention, PATCH /notifications/read, and GET /notifications, which     *)
(* reads the replica page by page.                                         *)
(***************************************************************************)
EXTENDS Naturals, SequencesExt

CONSTANTS
  Recipients,   \* users
  Addressee,    \* [Notes -> Recipients], user_id of a notification
  MaxNotes,     \* bound on the number of notifications
  ListSize,     \* size of a page of GET /notifications
  MaxLists      \* bound on the number of scrolls

Notes == 1..MaxNotes  \* uuid7 ids; a larger one is newer

ASSUME TableAssumption ==
  /\ Addressee \in [Notes -> Recipients]
  /\ ListSize \in Nat \ {0}

VARIABLES
  note,     \* the table: "none", "unread", "read" or "gone" (deleted)
  aged,     \* notifications older than the retention period
  replica,  \* notifications the replica shows
  list,     \* the scroll of a user through GET /notifications
  lists     \* scrolls so far

clientVars == <<list, lists>>
tableVars == <<note, aged, replica, clientVars>>

-----------------------------------------------------------------------------
Rows == {n \in Notes : note[n] \in {"unread", "read"}}

TableInit ==
  /\ note = [n \in Notes |-> "none"]
  /\ aged = {}
  /\ replica = {}
  /\ list = [u \in Recipients |-> [next |-> 0, seen |-> {}, due |-> {}]]
  /\ lists = 0

(* NotificationsModel.insert, committed.  Ids are drawn before the commit, *)
(* on any instance, so that they need not commit in their order.           *)
CommitNote(n) ==
  /\ note[n] = "none"
  /\ note' = [note EXCEPT ![n] = "unread"]
  /\ UNCHANGED <<aged, replica, clientVars>>

(* mark_read; no ids means all of the user's unread notifications.         *)
MarkNotesRead(u, ids) ==
  /\ note' = [n \in Notes |->
       IF note[n] = "unread" /\ Addressee[n] = u /\ (ids = {} \/ n \in ids) THEN "read" ELSE note[n]]
  /\ UNCHANGED <<aged, replica, clientVars>>

Age(n) ==
  /\ n \in Rows \ aged
  /\ aged' = aged \cup {n}
  /\ UNCHANGED <<note, replica, clientVars>>

DropNotes(gone) == note' = [n \in Notes |-> IF n \in gone THEN "gone" ELSE note[n]]

(* purge_older_than_days: its chunks are one transaction.                  *)
PurgeOld ==
  /\ aged \cap Rows # {}
  /\ DropNotes(aged \cap Rows)
  /\ UNCHANGED <<aged, replica, clientVars>>

(* The post or the comment is deleted, and its notifications with it.      *)
CascadeNote(n) ==
  /\ n \in Rows
  /\ DropNotes({n})
  /\ UNCHANGED <<aged, replica, clientVars>>

Replicate ==
  /\ replica # Rows
  /\ replica' = Rows
  /\ UNCHANGED <<note, aged, clientVars>>

(* list_for_user: the size newest before the cursor, of one more that      *)
(* tells whether a page follows.                                           *)
ListPage(u, cursor) ==
  LET rows == SetToSortSeq({n \in replica : Addressee[n] = u /\ n < cursor}, >)
      page == IF Len(rows) > ListSize THEN SubSeq(rows, 1, ListSize) ELSE rows
  IN [items |-> ToSet(page), next |-> IF Len(rows) > ListSize THEN page[ListSize] ELSE 0]

ListFirst(u) ==
  LET page == ListPage(u, MaxNotes + 1) IN
  /\ list[u].next = 0
  /\ lists < MaxLists
  /\ lists' = lists + 1
  /\ list' = [list EXCEPT ![u] = [next |-> page.next, seen |-> page.items,
                                  due |-> {n \in replica : Addressee[n] = u}]]
  /\ UNCHANGED <<note, aged, replica>>

(* What was deleted in the meantime is no longer due.                      *)
ListNext(u) ==
  LET page == ListPage(u, list[u].next) IN
  /\ list[u].next # 0
  /\ list' = [list EXCEPT ![u] = [next |-> page.next, seen |-> @.seen \cup page.items,
                                  due |-> @.due \cap (replica \cup @.seen)]]
  /\ UNCHANGED <<note, aged, replica, lists>>

TableNext ==
  \/ \E n \in Notes : CommitNote(n) \/ Age(n) \/ CascadeNote(n)
  \/ \E u \in Recipients :
       \/ ListFirst(u) \/ ListNext(u)
       \/ \E ids \in SUBSET Notes : MarkNotesRead(u, ids)
  \/ PurgeOld \/ Replicate

-----------------------------------------------------------------------------
(* A client that follows the cursors to the last page sees every           *)
(* notification that was on the replica when it began and was not deleted. *)
ListComplete == \A u \in Recipients : list[u].next = 0 => list[u].due \subseteq list[u].seen
=============================================================================
