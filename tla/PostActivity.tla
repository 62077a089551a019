---------------------------- MODULE PostActivity ----------------------------
(***************************************************************************)
(* Likes, comments, reports and moderation of one post, as PostgreSQL      *)
(* transactions at READ COMMITTED (app/domain/likes, comments, reports,    *)
(* admin and posts/repository.py).  Different posts share no row.          *)
(*                                                                         *)
(* The variables hold what is committed.  A transaction is a sequence of   *)
(* statements; it holds the rows it has written until it ends, and its     *)
(* writes appear when it commits, with its last statement.  A statement    *)
(* that needs a row held by another transaction waits; one that writes     *)
(* several rows takes them together, except that the foreign keys make a   *)
(* DELETE from users go through the referring rows one at a time.          *)
(***************************************************************************)
EXTENDS Naturals, FiniteSets

CONSTANTS Txns,      \* transactions, one per request in progress
          Users,     \* a user names their row of post_likes
          Author,    \* the user who wrote the post
          Comments,  \* ids of comments
          Reports,   \* ids of reports
          Threshold  \* REPORT_BLIND_THRESHOLD

PostRow == "post"      \* the row of posts
AuthorRow == "author"  \* the row of users of its author
Rows == {PostRow, AuthorRow} \cup Users \cup Comments \cup Reports
Nothing == "nothing"

ASSUME PostActivityAssumption ==
  /\ Threshold \in Nat \ {0}
  /\ Author \in Users
  /\ IsFiniteSet(Users) /\ IsFiniteSet(Comments)
  /\ Users \cap Comments = {} /\ Users \cap Reports = {} /\ Comments \cap Reports = {}
  /\ {PostRow, AuthorRow, Nothing} \cap (Users \cup Comments \cup Reports) = {}

RowStates == {"none", "live", "deleted"}
PostRecords ==
  [deleted : BOOLEAN, blinded : BOOLEAN, likes : Nat, comments : Nat, reports : Nat]

VARIABLES
  post,       \* the row of posts
  likes,      \* post_likes: the users whose row exists
  comments,   \* comments: absent, live or soft-deleted
  reports,    \* reports: likewise
  pc,         \* the next statement of each transaction
  item,       \* the user, comment or report it is about
  locks,      \* the rows it holds
  withdrawn,  \* users who closed their account: they send no request
  gone,       \* those of them hard-deleted by the purge
  purged,     \* history: those of them whose like went with them
  unblinded   \* history: an admin has lifted the blind since it was set

vars == <<post, likes, comments, reports, pc, item, locks, withdrawn, gone, purged, unblinded>>

Deleting == {"deleteComments", "deleteLikes"}
PCs == {"idle", "insertLike", "countLike", "notifyLike", "deleteLike", "uncountLike",
        "insertComment", "notifyComment", "softDelete", "uncountComment",
        "insertReport", "resetCount", "cascade"} \cup Deleting

(* Types; and a transaction that is over holds no row, on every path out   *)
(* of the db.begin() block of a handler.                                   *)
TypeOK ==
  /\ post \in PostRecords
  /\ likes \subseteq Users
  /\ comments \in [Comments -> RowStates]
  /\ reports \in [Reports -> RowStates]
  /\ pc \in [Txns -> PCs]
  /\ item \in [Txns -> Users \cup Comments \cup Reports \cup {Nothing}]
  /\ locks \in [Txns -> SUBSET Rows]
  /\ \A t \in Txns : pc[t] = "idle" => locks[t] = {}
  /\ withdrawn \subseteq Users
  /\ gone \subseteq withdrawn
  /\ purged \subseteq gone
  /\ unblinded \in BOOLEAN

Init ==
  /\ post = [deleted |-> FALSE, blinded |-> FALSE, likes |-> 0, comments |-> 0, reports |-> 0]
  /\ likes = {}
  /\ comments = [c \in Comments |-> "none"]
  /\ reports = [x \in Reports |-> "none"]
  /\ pc = [t \in Txns |-> "idle"]
  /\ item = [t \in Txns |-> Nothing]
  /\ locks = [t \in Txns |-> {}]
  /\ withdrawn = {}
  /\ gone = {}
  /\ purged = {}
  /\ unblinded = FALSE

(* PostsModel.post_is_visible *)
Visible == ~post.deleted /\ ~post.blinded

LiveIn(table) == {x \in DOMAIN table : table[x] = "live"}

(* The rows that refer to the account t purges: its like, the post if they *)
(* wrote it, and of the comments and reports any, for which are whose is   *)
(* left open.                                                              *)
Owned(t) == ({item[t]} \cap likes) \cup (IF item[t] = Author THEN {PostRow} ELSE {})
Cascade(t) == Owned(t) \cup {c \in Comments : comments[c] # "none"} \cup LiveIn(reports)

(* The rows the next statement of t writes, or may write. *)
Wants(t) ==
  CASE pc[t] \in {"notifyLike", "notifyComment"} -> {AuthorRow}
    [] pc[t] = "cascade" -> Cascade(t) \ locks[t]
    [] pc[t] = "insertLike" -> {item[t]}
    [] pc[t] = "deleteLike" -> {item[t]} \cap likes
    [] pc[t] = "softDelete" -> {item[t]}
    [] pc[t] = "deleteComments" -> LiveIn(comments)
    [] pc[t] = "deleteLikes" -> likes
    [] OTHER -> {PostRow}

WaitsFor(t, o) == o # t /\ pc[t] # "idle" /\ locks[o] \cap Wants(t) # {}

Free(rows) == \A o \in Txns : locks[o] \cap rows = {}
Granted(t) == \A o \in Txns : ~WaitsFor(t, o)

(* The transaction begins, its checks passed, with this statement next. *)
Begin(t, statement, x) ==
  /\ pc[t] = "idle"
  /\ pc' = [pc EXCEPT ![t] = statement]
  /\ item' = [item EXCEPT ![t] = x]
  /\ UNCHANGED <<post, likes, comments, reports, locks, withdrawn, gone, purged, unblinded>>

At(t, statement) == pc[t] = statement /\ Granted(t)

(* The statement wrote these rows, and this one is next. *)
Hold(t, rows, statement) ==
  /\ locks' = [locks EXCEPT ![t] = @ \cup rows]
  /\ pc' = [pc EXCEPT ![t] = statement]
  /\ UNCHANGED <<post, likes, comments, reports, item, withdrawn, gone, purged, unblinded>>

(* The transaction ends and lets go of its rows. *)
End(t) ==
  /\ pc' = [pc EXCEPT ![t] = "idle"]
  /\ item' = [item EXCEPT ![t] = Nothing]
  /\ locks' = [locks EXCEPT ![t] = {}]

EndWithoutWrites(t) ==
  /\ End(t)
  /\ UNCHANGED <<post, likes, comments, reports, withdrawn, gone, purged, unblinded>>

----------------------------------------------------------------------------
(* LikeService.like_post and unlike_post *)

(* Defect: visibility is checked with SELECT ... FOR UPDATE. *)
LikePostLocksPost(t, u) ==
  /\ Visible /\ u \notin withdrawn
  /\ pc[t] = "idle"
  /\ Free({PostRow})
  /\ pc' = [pc EXCEPT ![t] = "insertLike"]
  /\ item' = [item EXCEPT ![t] = u]
  /\ locks' = [locks EXCEPT ![t] = {PostRow}]
  /\ UNCHANGED <<post, likes, comments, reports, withdrawn, gone, purged, unblinded>>

LikePost(t, u) == Visible /\ u \notin withdrawn /\ Begin(t, "insertLike", u)

(* Defect: the result of ON CONFLICT DO NOTHING is ignored. *)
InsertLikeUnchecked(t) ==
  /\ At(t, "insertLike")
  /\ Hold(t, {item[t]}, "countLike")

(* INSERT ... ON CONFLICT DO NOTHING: a second like writes nothing. *)
InsertLike(t) ==
  /\ At(t, "insertLike")
  /\ IF item[t] \in likes THEN EndWithoutWrites(t) ELSE Hold(t, {item[t]}, "countLike")

LikeCommits(t) ==
  /\ post' = [post EXCEPT !.likes = @ + 1]
  /\ likes' = likes \cup {item[t]}
  /\ End(t)
  /\ UNCHANGED <<comments, reports, withdrawn, gone, purged, unblinded>>

(* The counter; then the author, if there is one and it is someone else,   *)
(* is notified in the same transaction.                                    *)
CountLike(t) ==
  /\ At(t, "countLike")
  /\ IF Author \in gone \cup {item[t]}
     THEN LikeCommits(t)
     ELSE Hold(t, {PostRow}, "notifyLike")

(* INSERT INTO notifications: its foreign key locks the author's row of    *)
(* users.  The lock is a shared one, but whoever takes it has the post.    *)
NotifyLike(t) == At(t, "notifyLike") /\ LikeCommits(t)

UnlikePost(t, u) == Visible /\ u \notin withdrawn /\ Begin(t, "deleteLike", u)

DeleteLike(t) ==
  /\ At(t, "deleteLike")
  /\ IF item[t] \in likes THEN Hold(t, {item[t]}, "uncountLike") ELSE EndWithoutWrites(t)

(* greatest(n - 1, 0) *)
Decremented(n) == IF n = 0 THEN 0 ELSE n - 1

UncountLike(t) ==
  /\ At(t, "uncountLike")
  /\ post' = [post EXCEPT !.likes = Decremented(@)]
  /\ likes' = likes \ {item[t]}
  /\ End(t)
  /\ UNCHANGED <<comments, reports, withdrawn, gone, purged, unblinded>>

----------------------------------------------------------------------------
(* CommentService.create_comment and delete_comment *)

CreateComment(t, c) ==
  /\ Visible
  /\ comments[c] = "none" /\ \A o \in Txns : item[o] # c
  /\ Begin(t, "insertComment", c)

CommentCommits(t) ==
  /\ post' = [post EXCEPT !.comments = @ + 1]
  /\ comments' = [comments EXCEPT ![item[t]] = "live"]
  /\ End(t)
  /\ UNCHANGED <<likes, reports, withdrawn, gone, purged, unblinded>>

(* The row is inserted and the counter updated; then the author, if there  *)
(* is one and it is someone else, is notified.                             *)
InsertComment(t) ==
  /\ At(t, "insertComment")
  /\ \/ (Author \in gone \/ Author \notin withdrawn) /\ CommentCommits(t)
     \/ Author \notin gone /\ Hold(t, {PostRow}, "notifyComment")

NotifyComment(t) == At(t, "notifyComment") /\ CommentCommits(t)

(* A comment deleted already is left alone. *)
DeleteComment(t, c) == comments[c] = "live" /\ Begin(t, "softDelete", c)

(* Defect: the UPDATE does not ask again for deleted_at IS NULL. *)
SoftDeleteUnchecked(t) ==
  /\ At(t, "softDelete")
  /\ Hold(t, {item[t]}, "uncountComment")

(* The row may have been deleted since the check: then nothing is written. *)
SoftDelete(t) ==
  /\ At(t, "softDelete")
  /\ IF comments[item[t]] = "live"
     THEN Hold(t, {item[t]}, "uncountComment")
     ELSE EndWithoutWrites(t)

(* Defect: the handler returns with its transaction still open. *)
UncountCommentLeavesOpen(t) ==
  /\ At(t, "uncountComment")
  /\ pc' = [pc EXCEPT ![t] = "idle"]
  /\ item' = [item EXCEPT ![t] = Nothing]
  /\ locks' = [locks EXCEPT ![t] = @ \cup {PostRow}]
  /\ UNCHANGED <<post, likes, comments, reports, withdrawn, gone, purged, unblinded>>

UncountComment(t) ==
  /\ At(t, "uncountComment")
  /\ post' = [post EXCEPT !.comments = Decremented(@)]
  /\ comments' = [comments EXCEPT ![item[t]] = "deleted"]
  /\ End(t)
  /\ UNCHANGED <<likes, reports, withdrawn, gone, purged, unblinded>>

----------------------------------------------------------------------------
(* PostsModel.delete_post: the post, its comments, its likes *)

DeletePost(t) ==
  /\ pc[t] = "idle"
  /\ ~post.deleted
  /\ Free({PostRow})
  /\ Hold(t, {PostRow}, "deleteComments")

DeleteComments(t) ==
  /\ At(t, "deleteComments")
  /\ Hold(t, LiveIn(comments), "deleteLikes")

DeleteLikes(t) ==
  /\ At(t, "deleteLikes")
  /\ post' = [post EXCEPT !.deleted = TRUE]
  /\ comments' = [c \in Comments |-> IF c \in locks[t] THEN "deleted" ELSE comments[c]]
  /\ likes' = {}
  /\ End(t)
  /\ UNCHANGED <<reports, withdrawn, gone, purged, unblinded>>

----------------------------------------------------------------------------
(* ReportService.submit_report and the moderation of AdminService *)

SubmitReport(t, x) ==
  /\ ~post.deleted
  /\ reports[x] = "none" /\ \A o \in Txns : item[o] # x
  /\ Begin(t, "insertReport", x)

(* Defect: the count is compared as it was before the increment. *)
InsertReportStaleCount(t) ==
  /\ At(t, "insertReport")
  /\ LET blinds == ~post.deleted /\ post.reports >= Threshold
     IN /\ post' = IF post.deleted THEN post
                   ELSE [post EXCEPT !.reports = @ + 1, !.blinded = @ \/ blinds]
        /\ unblinded' = (unblinded /\ ~blinds)
  /\ reports' = [reports EXCEPT ![item[t]] = "live"]
  /\ End(t)
  /\ UNCHANGED <<likes, comments, withdrawn, gone, purged>>

(* The report, the counter and, at the threshold, the blind: a post        *)
(* deleted meanwhile only gets the report.                                 *)
InsertReport(t) ==
  /\ At(t, "insertReport")
  /\ LET blinds == ~post.deleted /\ post.reports + 1 >= Threshold
     IN /\ post' = IF post.deleted THEN post
                   ELSE [post EXCEPT !.reports = @ + 1, !.blinded = @ \/ blinds]
        /\ unblinded' = (unblinded /\ ~blinds)
  /\ reports' = [reports EXCEPT ![item[t]] = "live"]
  /\ End(t)
  /\ UNCHANGED <<likes, comments, withdrawn, gone, purged>>

(* reset_post_reports: first the reports it sees, *)
ResetReports(t) ==
  /\ pc[t] = "idle"
  /\ Free(LiveIn(reports))
  /\ Hold(t, LiveIn(reports), "resetCount")

(* then the counter and the blind. *)
ResetCount(t) ==
  /\ At(t, "resetCount")
  /\ reports' = [x \in Reports |-> IF x \in locks[t] THEN "deleted" ELSE reports[x]]
  /\ post' = IF post.deleted THEN post ELSE [post EXCEPT !.reports = 0, !.blinded = FALSE]
  /\ End(t)
  /\ UNCHANGED <<likes, comments, withdrawn, gone, purged, unblinded>>

(* blind_post and unblind_post: one statement. *)
SetBlinded(value) ==
  /\ ~post.deleted
  /\ Free({PostRow})
  /\ post' = [post EXCEPT !.blinded = value]
  /\ unblinded' = ~value
  /\ UNCHANGED <<likes, comments, reports, pc, item, locks, withdrawn, gone, purged>>

----------------------------------------------------------------------------
(* Withdrawal and purge_withdrawn_users_older_than *)

(* The requests a user has in progress are long over at the purge. *)
Withdraw(u) ==
  /\ u \notin withdrawn
  /\ \A t \in Txns : item[t] # u
  /\ withdrawn' = withdrawn \cup {u}
  /\ UNCHANGED <<post, likes, comments, reports, pc, item, locks, gone, purged, unblinded>>

(* DELETE FROM users: the account's own row, *)
PurgeUser(t, u) ==
  /\ u \in withdrawn \ gone
  /\ \A o \in Txns : item[o] # u
  /\ pc[t] = "idle"
  /\ u = Author => Free({AuthorRow})
  /\ pc' = [pc EXCEPT ![t] = "cascade"]
  /\ item' = [item EXCEPT ![t] = u]
  /\ locks' = [locks EXCEPT ![t] = IF u = Author THEN {AuthorRow} ELSE {}]
  /\ UNCHANGED <<post, likes, comments, reports, withdrawn, gone, purged, unblinded>>

(* then the rows that refer to it: ON DELETE SET NULL of the author of     *)
(* posts and comments, ON DELETE CASCADE of likes and reports.             *)
CascadeRow(t, row) ==
  /\ pc[t] = "cascade"
  /\ row \in Wants(t)
  /\ Free({row})
  /\ Hold(t, {row}, "cascade")

PurgeCommits(t) ==
  /\ pc[t] = "cascade"
  /\ Owned(t) \subseteq locks[t]
  /\ gone' = gone \cup {item[t]}
  /\ purged' = purged \cup ({item[t]} \cap likes)
  /\ likes' = likes \ {item[t]}
  /\ reports' = [x \in Reports |-> IF x \in locks[t] THEN "deleted" ELSE reports[x]]
  /\ End(t)
  /\ UNCHANGED <<post, comments, withdrawn, unblinded>>

(* An error, a lost connection, or the deadlock detector. *)
Rollback(t) == pc[t] # "idle" /\ EndWithoutWrites(t)

Arrive(t) ==
  \/ \E u \in Users : LikePost(t, u) \/ UnlikePost(t, u)
  \/ \E c \in Comments : CreateComment(t, c) \/ DeleteComment(t, c)
  \/ \E x \in Reports : SubmitReport(t, x)
  \/ DeletePost(t) \/ ResetReports(t)
  \/ \E u \in Users : PurgeUser(t, u)

Step(t) ==
  \/ InsertLike(t) \/ CountLike(t) \/ NotifyLike(t) \/ DeleteLike(t) \/ UncountLike(t)
  \/ InsertComment(t) \/ NotifyComment(t) \/ SoftDelete(t) \/ UncountComment(t)
  \/ DeleteComments(t) \/ DeleteLikes(t)
  \/ InsertReport(t) \/ ResetCount(t)
  \/ \E row \in Rows : CascadeRow(t, row)
  \/ PurgeCommits(t)

Next ==
  \/ \E t \in Txns : Arrive(t) \/ Step(t) \/ Rollback(t)
  \/ \E value \in BOOLEAN : SetBlinded(value)
  \/ \E u \in Users : Withdraw(u)

Spec == Init /\ [][Next]_vars

----------------------------------------------------------------------------
(* like_count of a post that is not deleted is the number of its likes, in *)
(* every interleaving of likes, unlikes and retries of them, except that   *)
(* the likes of purged accounts stay counted.                              *)
LikeCountExact ==
  ~post.deleted => post.likes = Cardinality(likes) + Cardinality(purged)

(* comment_count of a post that is not deleted is the number of its live   *)
(* comments: a comment deleted twice, by its author and by an admin, is    *)
(* subtracted once.                                                        *)
CommentCountExact ==
  ~post.deleted => post.comments = Cardinality(LiveIn(comments))

(* A post with Threshold reports is blinded unless an admin lifted the     *)
(* blind since, even when the reports arrive together.                     *)
BlindedAtThreshold ==
  ~post.deleted /\ post.reports >= Threshold /\ ~unblinded => post.blinded

(* Likes, unlikes, comments and their deletion, reports and the reset of   *)
(* reports never wait for each other in a circle: they take their own row, *)
(* the post and the author in this order.  A deadlock that PostgreSQL has  *)
(* to break involves a delete_post or a purge, which do not.               *)
OrdinaryNeverDeadlock ==
  \A S \in SUBSET {t \in Txns : pc[t] \notin Deleting \cup {"cascade"}} :
    S # {} => \E t \in S : \A o \in S : ~WaitsFor(t, o)

(* "run reset_reports after the delete is applied, so that a post reported *)
(* again is listed" (comment in AdminService.reset_post_reports): when no  *)
(* transaction is in progress, a post with a live report has a positive    *)
(* report_count, which is what the admin feed selects on.                  *)
ReportedIsListed ==
  (\A t \in Txns : pc[t] = "idle") /\ ~post.deleted /\ LiveIn(reports) # {}
    => post.reports > 0
=============================================================================
