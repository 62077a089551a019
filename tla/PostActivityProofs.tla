------------------------- MODULE PostActivityProofs -------------------------
(***************************************************************************)
(* Proofs about PostActivity for any number of transactions, users,        *)
(* comments and reports and any threshold.                                 *)
(***************************************************************************)
EXTENDS PostActivity, FiniteSetTheorems, TLAPS

(* What the next statement of a transaction says about the rows it holds   *)
(* and about the row its request is about.                                 *)
ByStatement(t) ==
  /\ pc[t] \in {"insertLike", "deleteLike"} =>
       locks[t] = {} /\ item[t] \in Users \ withdrawn
  /\ pc[t] = "countLike" =>
       locks[t] = {item[t]} /\ item[t] \in Users \ (withdrawn \cup likes)
  /\ pc[t] = "notifyLike" =>
       locks[t] = {item[t], PostRow} /\ item[t] \in Users \ (withdrawn \cup likes)
  /\ pc[t] = "uncountLike" => locks[t] = {item[t]} /\ item[t] \in likes \ withdrawn
  /\ pc[t] = "insertComment" =>
       locks[t] = {} /\ item[t] \in Comments /\ comments[item[t]] = "none"
  /\ pc[t] = "notifyComment" =>
       locks[t] = {PostRow} /\ item[t] \in Comments /\ comments[item[t]] = "none"
  /\ pc[t] = "softDelete" =>
       locks[t] = {} /\ item[t] \in Comments /\ comments[item[t]] # "none"
  /\ pc[t] = "uncountComment" =>
       locks[t] = {item[t]} /\ item[t] \in Comments /\ comments[item[t]] = "live"
  /\ pc[t] = "insertReport" => locks[t] = {} /\ item[t] \in Reports
  /\ pc[t] = "resetCount" => locks[t] \subseteq Reports
  /\ pc[t] = "deleteComments" => locks[t] = {PostRow}
  /\ pc[t] = "deleteLikes" =>
       locks[t] \subseteq {PostRow} \cup {c \in Comments : comments[c] # "none"}
  /\ pc[t] = "cascade" => item[t] \in withdrawn \ gone

(* What no two transactions are about: a new comment and a purged account. *)
Alone == {"insertComment", "notifyComment", "cascade"}

(* No row is held twice, and those are not shared. *)
Exclusive(t, o) ==
  t # o => /\ locks[t] \cap locks[o] = {}
           /\ pc[t] \in Alone => item[o] # item[t]

Control ==
  /\ \A t \in Txns : ByStatement(t)
  /\ \A t, o \in Txns : Exclusive(t, o)
  /\ likes \cap gone = {}

Inv ==
  /\ TypeOK
  /\ Control
  /\ LikeCountExact
  /\ CommentCountExact
  /\ BlindedAtThreshold

(* The likes, the live comments and their changes are finite. *)
LEMMA FiniteRows ==
  ASSUME TypeOK
  PROVE  /\ IsFiniteSet(likes) /\ Cardinality(likes) \in Nat
         /\ IsFiniteSet(purged) /\ Cardinality(purged) \in Nat
         /\ IsFiniteSet(LiveIn(comments)) /\ Cardinality(LiveIn(comments)) \in Nat
<1>1. likes \in SUBSET Users /\ purged \in SUBSET Users /\ LiveIn(comments) \in SUBSET Comments
  BY Zenon DEF TypeOK, LiveIn
<1>2. IsFiniteSet(likes) /\ IsFiniteSet(purged) /\ IsFiniteSet(LiveIn(comments))
  BY <1>1, FS_Subset, PostActivityAssumption, Zenon
<1> QED
  BY <1>2, FS_CardinalityType, Zenon

(* A report changes the row of the post within its type. *)
LEMMA Reported ==
  ASSUME NEW p \in PostRecords, NEW b
  PROVE  [p EXCEPT !.reports = @ + 1, !.blinded = @ \/ b] \in PostRecords
<1> DEFINE q == [p EXCEPT !.reports = @ + 1]
<1>1. q \in PostRecords
  BY DEF PostRecords
<1>2. (q.blinded \/ b) \in BOOLEAN
  BY Zenon
<1>3. [q EXCEPT !.blinded = @ \/ b] \in PostRecords
  BY <1>1, <1>2, Zenon DEF PostRecords
<1> QED
  BY <1>3, Zenon DEF PostRecords

(* Every statement keeps the types. *)
LEMMA TypeStep == TypeOK /\ (\A t \in Txns : ByStatement(t)) /\ [Next]_vars => TypeOK'
<1> SUFFICES ASSUME TypeOK, \A t \in Txns : ByStatement(t), [Next]_vars PROVE TypeOK'
  OBVIOUS
<1> USE DEF TypeOK, Rows, PCs, Deleting, RowStates
<1>1. ASSUME NEW t \in Txns, NEW s \in PCs \ {"idle"},
             NEW x \in Users \cup Comments \cup Reports, Begin(t, s, x)
      PROVE TypeOK'
  BY <1>1, Zenon DEF Begin
<1>2. ASSUME NEW t \in Txns, NEW s \in PCs \ {"idle"}, NEW rows \in SUBSET Rows, Hold(t, rows, s)
      PROVE TypeOK'
  BY <1>2, Zenon DEF Hold
<1>l. ASSUME NEW t \in Txns, LikeCommits(t), item[t] \in Users PROVE TypeOK'
  BY <1>l DEF LikeCommits, End, PostRecords
<1>c. ASSUME NEW t \in Txns, CommentCommits(t) PROVE TypeOK'
  <2>1. comments' \in [Comments -> RowStates]
    BY <1>c, Zenon DEF CommentCommits
  <2>2. post' \in PostRecords
    BY <1>c DEF CommentCommits, PostRecords
  <2> QED
    BY <1>c, <2>1, <2>2, Zenon DEF CommentCommits, End, PostRecords
<1>3. ASSUME NEW t \in Txns, EndWithoutWrites(t) PROVE TypeOK'
  BY <1>3, Zenon DEF EndWithoutWrites, End
<1>4. ASSUME NEW t \in Txns, Arrive(t) PROVE TypeOK'
  <2>1. ASSUME NEW u \in Users, LikePost(t, u) \/ UnlikePost(t, u) PROVE TypeOK'
    BY <1>1, <2>1, Zenon DEF LikePost, UnlikePost
  <2>2. ASSUME NEW c \in Comments, CreateComment(t, c) \/ DeleteComment(t, c) PROVE TypeOK'
    BY <1>1, <2>2, Zenon DEF CreateComment, DeleteComment
  <2>3. ASSUME NEW x \in Reports, SubmitReport(t, x) PROVE TypeOK'
    BY <1>1, <2>3, Zenon DEF SubmitReport
  <2>4. CASE DeletePost(t)
    BY <1>2, <2>4, Zenon DEF DeletePost
  <2>5. CASE ResetReports(t)
    <3>1. LiveIn(reports) \in SUBSET Rows
      BY Zenon DEF LiveIn
    <3> QED
      BY <1>2, <2>5, <3>1, Zenon DEF ResetReports
  <2>6. ASSUME NEW u \in Users, PurgeUser(t, u) PROVE TypeOK'
    BY <2>6, Zenon DEF PurgeUser
  <2> QED
    BY <1>4, <2>1, <2>2, <2>3, <2>4, <2>5, <2>6, Zenon DEF Arrive
<1>5. ASSUME NEW t \in Txns, Step(t) PROVE TypeOK'
  <2> USE DEF At
  <2>0. ByStatement(t)
    OBVIOUS
  <2>1. CASE InsertLike(t)
    BY <1>2, <1>3, <2>0, <2>1 DEF InsertLike, ByStatement
  <2>2. CASE CountLike(t) \/ NotifyLike(t)
    BY <1>2, <1>l, <2>0, <2>2, Zenon DEF CountLike, NotifyLike, ByStatement
  <2>3. CASE DeleteLike(t)
    BY <1>2, <1>3, <2>0, <2>3 DEF DeleteLike, ByStatement
  <2>4. CASE UncountLike(t)
    <3>1. \A n \in Nat : Decremented(n) \in Nat
      BY DEF Decremented
    <3> QED
      BY <2>4, <3>1, Zenon DEF UncountLike, End, PostRecords
  <2>5. CASE InsertComment(t) \/ NotifyComment(t)
    BY <1>2, <1>c, <2>5, Zenon DEF InsertComment, NotifyComment
  <2>6. CASE SoftDelete(t)
    BY <1>2, <1>3, <2>0, <2>6, Zenon DEF SoftDelete, ByStatement
  <2>7. CASE UncountComment(t)
    <3>1. \A n \in Nat : Decremented(n) \in Nat
      BY DEF Decremented
    <3> QED
      BY <2>7, <3>1, Zenon DEF UncountComment, End, PostRecords
  <2>8. CASE DeleteComments(t)
    <3>1. LiveIn(comments) \in SUBSET Rows
      BY Zenon DEF LiveIn
    <3> QED
      BY <1>2, <2>8, <3>1, Zenon DEF DeleteComments
  <2>9. CASE DeleteLikes(t)
    BY <2>9, Zenon DEF DeleteLikes, End, PostRecords
  <2>10. CASE InsertReport(t)
    <3>1. unblinded' \in BOOLEAN
      BY <2>10, Zenon DEF InsertReport
    <3>2. reports' \in [Reports -> RowStates]
      BY <2>10, Zenon DEF InsertReport
    <3>3. post' \in PostRecords
      BY <2>10, Reported, Zenon DEF InsertReport
    <3> QED
      BY <2>10, <3>1, <3>2, <3>3, Zenon DEF InsertReport, End, PostRecords
  <2>11. CASE ResetCount(t)
    BY <2>11, Zenon DEF ResetCount, End, PostRecords
  <2>12. ASSUME NEW row \in Rows, CascadeRow(t, row) PROVE TypeOK'
    BY <1>2, <2>12, Zenon DEF CascadeRow
  <2>13. CASE PurgeCommits(t)
    BY <2>0, <2>13, Zenon DEF PurgeCommits, End, ByStatement
  <2> QED
    BY <1>5, <2>1, <2>2, <2>3, <2>4, <2>5, <2>6, <2>7, <2>8, <2>9, <2>10, <2>11, <2>12, <2>13,
       Zenon DEF Step
<1>6. ASSUME NEW t \in Txns, Rollback(t) PROVE TypeOK'
  BY <1>3, <1>6, Zenon DEF Rollback
<1>7. ASSUME NEW value \in BOOLEAN, SetBlinded(value) PROVE TypeOK'
  BY <1>7, Zenon DEF SetBlinded, PostRecords
<1>8. ASSUME NEW u \in Users, Withdraw(u) PROVE TypeOK'
  BY <1>8, Zenon DEF Withdraw
<1>9. CASE UNCHANGED vars
  BY <1>9, Zenon DEF vars
<1> QED
  BY <1>4, <1>5, <1>6, <1>7, <1>8, <1>9, Zenon DEF Next

(* The end of a transaction that wrote nothing keeps Control. *)
LEMMA EndControl ==
  ASSUME TypeOK, Control, NEW t \in Txns, EndWithoutWrites(t)
  PROVE  Control'
<1> USE DEF TypeOK, Control, EndWithoutWrites, End
<1>1. ASSUME NEW o \in Txns PROVE ByStatement(o)'
  BY Zenon DEF ByStatement
<1>2. ASSUME NEW o \in Txns, NEW w \in Txns PROVE Exclusive(o, w)'
  <2>1. Exclusive(o, w) /\ ByStatement(o)
    OBVIOUS
  <2> QED
    BY <2>1, PostActivityAssumption DEF Exclusive, ByStatement, Alone
<1> QED
  BY <1>1, <1>2, Zenon

(* A transaction that begins keeps Control, if its request may begin. *)
LEMMA BeginControl ==
  ASSUME TypeOK, Control, NEW t \in Txns, NEW s \in PCs, NEW x, Begin(t, s, x),
         \/ s \in {"insertLike", "deleteLike"} /\ x \in Users \ withdrawn
         \/ s = "insertComment" /\ x \in Comments /\ comments[x] = "none"
               /\ \A o \in Txns : item[o] # x
         \/ s = "softDelete" /\ x \in Comments /\ comments[x] = "live"
         \/ s = "insertReport" /\ x \in Reports
  PROVE  Control'
<1> USE DEF TypeOK, Control, Begin
<1>1. ASSUME NEW o \in Txns PROVE ByStatement(o)'
  BY Zenon DEF ByStatement
<1>2. ASSUME NEW o \in Txns, NEW w \in Txns PROVE Exclusive(o, w)'
  <2>1. Exclusive(o, w) /\ ByStatement(o)
    OBVIOUS
  <2> QED
    BY <2>1, PostActivityAssumption DEF Exclusive, ByStatement, Alone
<1> QED
  BY <1>1, <1>2, Zenon

(* A statement that takes rows nobody else holds keeps Control. *)
LEMMA HoldControl ==
  ASSUME TypeOK, Control, NEW t \in Txns, NEW s \in PCs, NEW rows \in SUBSET Rows,
         Hold(t, rows, s),
         \A o \in Txns \ {t} : locks[o] \cap rows = {},
         \/ s = "countLike" /\ pc[t] = "insertLike" /\ rows = {item[t]} /\ item[t] \notin likes
         \/ s = "notifyLike" /\ pc[t] = "countLike" /\ rows = {PostRow}
         \/ s = "notifyComment" /\ pc[t] = "insertComment" /\ rows = {PostRow}
         \/ s = "cascade" /\ pc[t] = "cascade"
         \/ s = "uncountLike" /\ pc[t] = "deleteLike" /\ rows = {item[t]} /\ item[t] \in likes
         \/ s = "uncountComment" /\ pc[t] = "softDelete" /\ rows = {item[t]}
               /\ comments[item[t]] = "live"
         \/ s = "resetCount" /\ pc[t] = "idle" /\ rows \subseteq Reports
         \/ s = "deleteComments" /\ pc[t] = "idle" /\ rows = {PostRow}
         \/ s = "deleteLikes" /\ pc[t] = "deleteComments" /\ rows = LiveIn(comments)
  PROVE  Control'
<1> USE DEF TypeOK, Control, Hold
<1>1. ASSUME NEW o \in Txns PROVE ByStatement(o)'
  <2>1. ByStatement(o) /\ (pc[o] = "idle" => locks[o] = {})
    OBVIOUS
  <2> QED
    BY <2>1 DEF ByStatement, LiveIn
<1>2. ASSUME NEW o \in Txns, NEW w \in Txns PROVE Exclusive(o, w)'
  <2>1. Exclusive(o, w) /\ Exclusive(w, o) /\ (s \in Alone => pc[t] \in Alone)
    BY Zenon DEF Alone
  <2> QED
    BY <2>1 DEF Exclusive
<1> QED
  BY <1>1, <1>2, Zenon

(* So does the DELETE of an account. *)
LEMMA PurgeControl ==
  ASSUME TypeOK, Control, NEW t \in Txns, NEW u \in Users, PurgeUser(t, u)
  PROVE  Control'
<1> USE DEF TypeOK, Control, PurgeUser
<1>1. ASSUME NEW o \in Txns PROVE ByStatement(o)'
  BY Zenon DEF ByStatement
<1>2. ASSUME NEW o \in Txns, NEW w \in Txns PROVE Exclusive(o, w)'
  <2>1. Exclusive(o, w) /\ Exclusive(w, o)
    OBVIOUS
  <2>2. u = Author => locks[o] \cap {AuthorRow} = {} /\ locks[w] \cap {AuthorRow} = {}
    BY Zenon DEF Free
  <2> QED
    BY <2>1, <2>2 DEF Exclusive, Alone
<1> QED
  BY <1>1, <1>2, Zenon

(* Every step keeps Control. *)
LEMMA ControlStep == TypeOK /\ Control /\ [Next]_vars => Control'
<1> SUFFICES ASSUME TypeOK, Control, [Next]_vars PROVE Control'
  OBVIOUS
<1>1. ASSUME NEW t \in Txns, Arrive(t) PROVE Control'
  <2>1. ASSUME NEW u \in Users, LikePost(t, u) \/ UnlikePost(t, u) PROVE Control'
    BY <2>1, BeginControl, Zenon DEF LikePost, UnlikePost, PCs
  <2>2. ASSUME NEW c \in Comments, CreateComment(t, c) \/ DeleteComment(t, c) PROVE Control'
    BY <2>2, BeginControl, Zenon DEF CreateComment, DeleteComment, PCs
  <2>3. ASSUME NEW x \in Reports, SubmitReport(t, x) PROVE Control'
    BY <2>3, BeginControl, Zenon DEF SubmitReport, PCs
  <2>4. CASE DeletePost(t)
    BY <2>4, HoldControl, Zenon DEF DeletePost, Free, PCs, Deleting, Rows
  <2>5. CASE ResetReports(t)
    <3>1. LiveIn(reports) \subseteq Reports
      BY Zenon DEF LiveIn, TypeOK
    <3> QED
      BY <2>5, <3>1, HoldControl, Zenon DEF ResetReports, Free, PCs, Rows
  <2>6. ASSUME NEW u \in Users, PurgeUser(t, u) PROVE Control'
    BY <2>6, PurgeControl, Zenon
  <2> QED
    BY <1>1, <2>1, <2>2, <2>3, <2>4, <2>5, <2>6, Zenon DEF Arrive
<1>2. ASSUME NEW t \in Txns, Step(t) PROVE Control'
  <2>0. /\ ByStatement(t)
        /\ \A o \in Txns \ {t} :
             ByStatement(o) /\ Exclusive(t, o) /\ Exclusive(o, t)
    BY Zenon DEF Control
  <2>1. CASE InsertLike(t)
    <3>1. \A o \in Txns \ {t} : locks[o] \cap {item[t]} = {}
      BY <2>1, Zenon DEF InsertLike, At, Granted, WaitsFor, Wants
    <3> QED
      BY <2>0, <2>1, <3>1, HoldControl, EndControl
      DEF InsertLike, At, ByStatement, PCs, Rows
  <2>2. CASE DeleteLike(t)
    <3>1. item[t] \in likes => \A o \in Txns \ {t} : locks[o] \cap {item[t]} = {}
      BY <2>2, Zenon DEF DeleteLike, At, Granted, WaitsFor, Wants
    <3> QED
      BY <2>0, <2>2, <3>1, HoldControl, EndControl
      DEF DeleteLike, At, ByStatement, PCs, Rows
  <2>3. CASE SoftDelete(t)
    <3>1. \A o \in Txns \ {t} : locks[o] \cap {item[t]} = {}
      BY <2>3, Zenon DEF SoftDelete, At, Granted, WaitsFor, Wants
    <3> QED
      BY <2>0, <2>3, <3>1, HoldControl, EndControl, Zenon
      DEF SoftDelete, At, ByStatement, PCs, Rows
  <2>4. CASE DeleteComments(t)
    <3>1. \A o \in Txns \ {t} : locks[o] \cap LiveIn(comments) = {}
      BY <2>4, Zenon DEF DeleteComments, At, Granted, WaitsFor, Wants
    <3>2. LiveIn(comments) \subseteq Comments
      BY Zenon DEF LiveIn, TypeOK
    <3> QED
      BY <2>4, <3>1, <3>2, HoldControl, Zenon DEF DeleteComments, At, PCs, Deleting, Rows
  <2>13. ASSUME NEW row \in Rows, CascadeRow(t, row) PROVE Control'
    <3>1. \A o \in Txns \ {t} : locks[o] \cap {row} = {}
      BY <2>13, Zenon DEF CascadeRow, Free
    <3> QED
      BY <2>13, <3>1, HoldControl, Zenon DEF CascadeRow, PCs
  <2>14. CASE \/ CountLike(t) /\ Hold(t, {PostRow}, "notifyLike")
              \/ InsertComment(t) /\ Hold(t, {PostRow}, "notifyComment")
    <3>1. \A o \in Txns \ {t} : locks[o] \cap {PostRow} = {}
      BY <2>14, Zenon DEF CountLike, InsertComment, At, Granted, WaitsFor, Wants
    <3> QED
      BY <2>14, <3>1, HoldControl, Zenon DEF CountLike, InsertComment, At, PCs, Rows
  <2> DEFINE Liked == LikeCommits(t) /\ pc[t] \in {"countLike", "notifyLike"}
             Commented == CommentCommits(t) /\ pc[t] \in {"insertComment", "notifyComment"}
  <2> USE DEF TypeOK, End, At
  <2>5. ASSUME LikeCommits(t) \/ UncountLike(t) \/ CommentCommits(t) \/ UncountComment(t)
               \/ DeleteLikes(t) \/ InsertReport(t) \/ ResetCount(t) \/ PurgeCommits(t)
        PROVE  \A o, w \in Txns : Exclusive(o, w)'
    <3> SUFFICES ASSUME NEW o \in Txns, NEW w \in Txns PROVE Exclusive(o, w)'
      OBVIOUS
    <3>1. Exclusive(o, w) /\ ByStatement(o)
      BY Zenon DEF Control
    <3>2. End(t)
      BY <2>5, Zenon DEF LikeCommits, UncountLike, CommentCommits, UncountComment,
                  DeleteLikes, InsertReport, ResetCount, PurgeCommits
    <3>3. pc[o] \in Alone => item[o] # Nothing
      BY <3>1, PostActivityAssumption, Zenon DEF ByStatement, Alone
    <3>4. Nothing \notin Users \cup Comments /\ "idle" \notin Alone
      BY PostActivityAssumption, Zenon DEF Alone
    <3> QED
      BY <3>1, <3>2, <3>3, <3>4, Zenon DEF Exclusive
  <2>E. End(t) => ByStatement(t)'
    BY Zenon DEF ByStatement
  <2>6. CASE Liked
    <3>0. ASSUME NEW o \in Txns \ {t} PROVE ByStatement(o)'
      <4>1. pc'[o] = pc[o] /\ item'[o] = item[o] /\ locks'[o] = locks[o]
        BY <2>6, Zenon DEF LikeCommits
      <4>2. ByStatement(t) /\ ByStatement(o) /\ Exclusive(t, o) /\ Exclusive(o, t)
        BY <2>0, Zenon
      <4> QED
        BY <2>6, <4>1, <4>2, Zenon DEF LikeCommits, ByStatement, Exclusive, Alone
    <3>1. \A o \in Txns : ByStatement(o)'
      BY <2>6, <3>0, <2>E, Zenon DEF LikeCommits
    <3> QED
      BY <2>0, <2>5, <2>6, <3>1 DEF LikeCommits, Control, ByStatement
  <2>7. CASE UncountLike(t)
    <3>0. ASSUME NEW o \in Txns \ {t} PROVE ByStatement(o)'
      <4>1. pc'[o] = pc[o] /\ item'[o] = item[o] /\ locks'[o] = locks[o]
        BY <2>7, Zenon DEF UncountLike
      <4>2. ByStatement(t) /\ ByStatement(o) /\ Exclusive(t, o) /\ Exclusive(o, t)
        BY <2>0, Zenon
      <4> QED
        BY <2>7, <4>1, <4>2, Zenon DEF UncountLike, ByStatement, Exclusive
    <3>1. \A o \in Txns : ByStatement(o)'
      BY <2>7, <3>0, <2>E, Zenon DEF UncountLike
    <3> QED
      BY <2>5, <2>7, <3>1, Zenon DEF UncountLike, Control
  <2>8. CASE Commented
    <3>0. ASSUME NEW o \in Txns \ {t} PROVE ByStatement(o)'
      <4>1. pc'[o] = pc[o] /\ item'[o] = item[o] /\ locks'[o] = locks[o]
        BY <2>8, Zenon DEF CommentCommits
      <4>2. ByStatement(t) /\ ByStatement(o) /\ Exclusive(t, o) /\ Exclusive(o, t)
        BY <2>0, Zenon
      <4> QED
        BY <2>8, <4>1, <4>2, Zenon DEF CommentCommits, ByStatement, Exclusive, Alone
    <3>1. \A o \in Txns : ByStatement(o)'
      BY <2>8, <3>0, <2>E, Zenon DEF CommentCommits
    <3> QED
      BY <2>5, <2>8, <3>1, Zenon DEF CommentCommits, Control
  <2>9. CASE UncountComment(t)
    <3>0. ASSUME NEW o \in Txns \ {t} PROVE ByStatement(o)'
      <4>1. pc'[o] = pc[o] /\ item'[o] = item[o] /\ locks'[o] = locks[o]
        BY <2>9, Zenon DEF UncountComment
      <4>2. ByStatement(t) /\ ByStatement(o) /\ Exclusive(t, o) /\ Exclusive(o, t)
        BY <2>0, Zenon
      <4> QED
        BY <2>9, <4>1, <4>2, Zenon DEF UncountComment, ByStatement, Exclusive
    <3>1. \A o \in Txns : ByStatement(o)'
      BY <2>9, <3>0, <2>E, Zenon DEF UncountComment
    <3> QED
      BY <2>5, <2>9, <3>1, Zenon DEF UncountComment, Control
  <2>10. CASE DeleteLikes(t)
    <3>1. \A o \in Txns \ {t} : locks[o] \cap likes = {}
      BY <2>10, Zenon DEF DeleteLikes, Granted, WaitsFor, Wants
    <3>0. ASSUME NEW o \in Txns \ {t} PROVE ByStatement(o)'
      <4>1. pc'[o] = pc[o] /\ item'[o] = item[o] /\ locks'[o] = locks[o]
        BY <2>10, Zenon DEF DeleteLikes
      <4>2. ByStatement(t) /\ ByStatement(o) /\ Exclusive(t, o) /\ locks[o] \cap likes = {}
        BY <2>0, <3>1, Zenon
      <4> QED
        BY <2>10, <4>1, <4>2, PostActivityAssumption, Zenon
           DEF DeleteLikes, ByStatement, Exclusive
    <3>2. \A o \in Txns : ByStatement(o)'
      BY <2>10, <3>0, <2>E, Zenon DEF DeleteLikes
    <3> QED
      BY <2>5, <2>10, <3>2, Zenon DEF DeleteLikes, Control
  <2>11. CASE InsertReport(t)
    <3>1. \A o \in Txns : ByStatement(o)'
      BY <2>0, <2>11 DEF InsertReport, ByStatement
    <3> QED
      BY <2>5, <2>11, <3>1, Zenon DEF InsertReport, Control
  <2>12. CASE ResetCount(t)
    <3>1. \A o \in Txns : ByStatement(o)'
      BY <2>0, <2>12 DEF ResetCount, ByStatement
    <3> QED
      BY <2>5, <2>12, <3>1, Zenon DEF ResetCount, Control
  <2>15. CASE PurgeCommits(t)
    <3>0. ASSUME NEW o \in Txns \ {t} PROVE ByStatement(o)'
      <4>1. pc'[o] = pc[o] /\ item'[o] = item[o] /\ locks'[o] = locks[o]
        BY <2>15, Zenon DEF PurgeCommits
      <4>2. ByStatement(t) /\ ByStatement(o) /\ item[o] # item[t] /\ item[t] \in withdrawn \ gone
        BY <2>0, <2>15, Zenon DEF PurgeCommits, Exclusive, Alone, ByStatement
      <4> QED
        BY <2>15, <4>1, <4>2, Zenon DEF PurgeCommits, ByStatement
    <3>1. \A o \in Txns : ByStatement(o)'
      BY <2>15, <3>0, <2>E, Zenon DEF PurgeCommits
    <3> QED
      BY <2>5, <2>15, <3>1, Zenon DEF PurgeCommits, Control
  <2>16. CASE CountLike(t) \/ NotifyLike(t)
    <3>1. \/ LikeCommits(t) /\ pc[t] \in {"countLike", "notifyLike"}
          \/ CountLike(t) /\ Hold(t, {PostRow}, "notifyLike")
      BY <2>16, Zenon DEF CountLike, NotifyLike
    <3> QED
      BY <2>6, <2>14, <3>1, Zenon
  <2>17. CASE InsertComment(t) \/ NotifyComment(t)
    <3>1. \/ CommentCommits(t) /\ pc[t] \in {"insertComment", "notifyComment"}
          \/ InsertComment(t) /\ Hold(t, {PostRow}, "notifyComment")
      BY <2>17, Zenon DEF InsertComment, NotifyComment
    <3> QED
      BY <2>8, <2>14, <3>1, Zenon
  <2> QED
    BY <1>2, <2>1, <2>2, <2>3, <2>4, <2>7, <2>9, <2>10, <2>11, <2>12, <2>13, <2>15, <2>16, <2>17,
       Zenon DEF Step
<1>3. ASSUME NEW t \in Txns, Rollback(t) PROVE Control'
  BY <1>3, EndControl, Zenon DEF Rollback
<1>4. ASSUME NEW value \in BOOLEAN, SetBlinded(value) PROVE Control'
  BY <1>4, Zenon DEF SetBlinded, Control, ByStatement, Exclusive
<1>5. ASSUME NEW u \in Users, Withdraw(u) PROVE Control'
  <2>1. ASSUME NEW o \in Txns PROVE ByStatement(o)'
    BY <1>5, Zenon DEF Withdraw, Control, ByStatement
  <2>2. \A o, w \in Txns : Exclusive(o, w)'
    BY <1>5, Zenon DEF Withdraw, Control, Exclusive
  <2> QED
    BY <1>5, <2>1, <2>2, Zenon DEF Withdraw, Control
<1>6. CASE UNCHANGED vars
  BY <1>6, Zenon DEF vars, Control, ByStatement, Exclusive
<1> QED
  BY <1>1, <1>2, <1>3, <1>4, <1>5, <1>6, Zenon DEF Next

(* like_count follows the rows of post_likes through every step. *)
LEMMA LikeCountStep == Inv /\ [Next]_vars => LikeCountExact'
<1> SUFFICES ASSUME Inv, [Next]_vars PROVE LikeCountExact'
  OBVIOUS
<1> USE DEF Inv, LikeCountExact
<1>1. post \in PostRecords /\ \A t \in Txns : ByStatement(t)
  BY Zenon DEF TypeOK, Control
<1>2. /\ IsFiniteSet(likes) /\ Cardinality(likes) \in Nat
      /\ IsFiniteSet(purged) /\ Cardinality(purged) \in Nat
  BY FiniteRows, Zenon
<1>3. ASSUME UNCHANGED <<likes, purged>>, post'.likes = post.likes, post'.deleted = post.deleted
      PROVE LikeCountExact'
  BY <1>3, Zenon
<1>4. ASSUME NEW t \in Txns, Arrive(t) PROVE LikeCountExact'
  BY <1>3, <1>4, Zenon DEF Arrive, LikePost, UnlikePost, CreateComment, DeleteComment,
                    SubmitReport, DeletePost, ResetReports, PurgeUser, Begin, Hold
<1>8. ASSUME NEW t \in Txns, PurgeCommits(t) PROVE LikeCountExact'
  <2>1. CASE item[t] \in likes
    <3>1. /\ item[t] \notin purged /\ purged' = purged \cup {item[t]}
          /\ likes' = likes \ {item[t]} /\ post' = post
      BY <1>8, <2>1, Zenon DEF PurgeCommits, TypeOK, Control
    <3>2. Cardinality(likes') = Cardinality(likes) - 1
      BY <1>2, <2>1, <3>1, FS_RemoveElement, Zenon
    <3>3. Cardinality(purged') = Cardinality(purged) + 1
      BY <1>2, <3>1, FS_AddElement, Zenon
    <3> QED
      BY <1>2, <3>1, <3>2, <3>3
  <2>2. CASE item[t] \notin likes
    <3>1. purged' = purged /\ likes' = likes /\ post' = post
      BY <1>8, <2>2, Zenon DEF PurgeCommits
    <3> QED
      BY <1>3, <3>1, Zenon
  <2> QED
    BY <2>1, <2>2, Zenon
<1>5. ASSUME NEW t \in Txns, Step(t) PROVE LikeCountExact'
  <2> USE DEF At
  <2>1. CASE InsertLike(t) \/ DeleteLike(t) \/ SoftDelete(t) \/ DeleteComments(t)
    BY <1>3, <2>1, Zenon DEF InsertLike, DeleteLike, SoftDelete, DeleteComments,
                      Hold, EndWithoutWrites
  <2>2. CASE UncountComment(t) \/ InsertReport(t) \/ ResetCount(t)
    BY <1>1, <1>3, <2>2, Zenon DEF UncountComment, InsertReport, ResetCount, PostRecords
  <2>6. CASE CommentCommits(t)
    BY <1>1, <1>3, <2>6, Zenon DEF CommentCommits, PostRecords
  <2>7. CASE InsertComment(t) \/ NotifyComment(t)
    BY <1>3, <2>6, <2>7, Zenon DEF InsertComment, NotifyComment, Hold
  <2>3. CASE LikeCommits(t) /\ pc[t] \in {"countLike", "notifyLike"}
    <3>1. item[t] \notin likes /\ likes' = likes \cup {item[t]} /\ purged' = purged
      BY <1>1, <2>3, Zenon DEF LikeCommits, ByStatement
    <3>2. Cardinality(likes') = Cardinality(likes) + 1
      BY <1>2, <3>1, FS_AddElement, Zenon
    <3>3. post'.deleted = post.deleted /\ post'.likes = post.likes + 1
      BY <1>1, <2>3, Zenon DEF LikeCommits, PostRecords
    <3> QED
      BY <1>2, <3>1, <3>2, <3>3
  <2>4. CASE UncountLike(t)
    <3>1. item[t] \in likes /\ likes' = likes \ {item[t]} /\ purged' = purged
      BY <1>1, <2>4, Zenon DEF UncountLike, ByStatement
    <3>2. Cardinality(likes') = Cardinality(likes) - 1
      BY <1>2, <3>1, FS_RemoveElement, Zenon
    <3>3. Cardinality(likes) # 0
      BY <1>2, <3>1, FS_EmptySet, Zenon
    <3>4. post'.deleted = post.deleted /\ post'.likes = Decremented(post.likes)
      BY <1>1, <2>4, Zenon DEF UncountLike, PostRecords
    <3> QED
      BY <1>2, <3>1, <3>2, <3>3, <3>4 DEF Decremented
  <2>5. CASE DeleteLikes(t)
    BY <1>1, <2>5, Zenon DEF DeleteLikes, PostRecords
  <2>8. CASE CountLike(t) \/ NotifyLike(t)
    BY <1>3, <2>3, <2>8, Zenon DEF CountLike, NotifyLike, Hold
  <2>9. ASSUME NEW row \in Rows, CascadeRow(t, row) PROVE LikeCountExact'
    BY <1>3, <2>9, Zenon DEF CascadeRow, Hold
  <2>10. CASE PurgeCommits(t)
    BY <1>8, <2>10, Zenon
  <2> QED
    BY <1>5, <2>1, <2>2, <2>4, <2>5, <2>7, <2>8, <2>9, <2>10, Zenon DEF Step
<1>6. ASSUME NEW t \in Txns, Rollback(t) PROVE LikeCountExact'
  BY <1>3, <1>6, Zenon DEF Rollback, EndWithoutWrites
<1>7. ASSUME NEW value \in BOOLEAN, SetBlinded(value) PROVE LikeCountExact'
  BY <1>1, <1>3, <1>7, Zenon DEF SetBlinded, PostRecords
<1>10. ASSUME NEW u \in Users, Withdraw(u) PROVE LikeCountExact'
  BY <1>3, <1>10, Zenon DEF Withdraw
<1>9. CASE UNCHANGED vars
  BY <1>3, <1>9, Zenon DEF vars
<1> QED
  BY <1>4, <1>5, <1>6, <1>7, <1>9, <1>10, Zenon DEF Next

(* comment_count follows the live comments through every step. *)
LEMMA CommentCountStep == Inv /\ [Next]_vars => CommentCountExact'
<1> SUFFICES ASSUME Inv, [Next]_vars PROVE CommentCountExact'
  OBVIOUS
<1> USE DEF Inv, CommentCountExact
<1>1. /\ post \in PostRecords /\ comments \in [Comments -> RowStates]
      /\ \A t \in Txns : ByStatement(t)
  BY Zenon DEF TypeOK, Control
<1>2. IsFiniteSet(LiveIn(comments)) /\ Cardinality(LiveIn(comments)) \in Nat
  BY FiniteRows, Zenon
<1>3. ASSUME comments' = comments, post'.comments = post.comments, post'.deleted = post.deleted
      PROVE CommentCountExact'
  BY <1>3, Zenon DEF LiveIn
<1>4. ASSUME NEW t \in Txns, Arrive(t) PROVE CommentCountExact'
  BY <1>3, <1>4, Zenon DEF Arrive, LikePost, UnlikePost, CreateComment, DeleteComment,
                    SubmitReport, DeletePost, ResetReports, PurgeUser, Begin, Hold
<1>5. ASSUME NEW t \in Txns, Step(t) PROVE CommentCountExact'
  <2> USE DEF At
  <2>1. CASE InsertLike(t) \/ DeleteLike(t) \/ SoftDelete(t) \/ DeleteComments(t)
    BY <1>3, <2>1, Zenon DEF InsertLike, DeleteLike, SoftDelete, DeleteComments,
                      Hold, EndWithoutWrites
  <2>2. CASE UncountLike(t) \/ InsertReport(t) \/ ResetCount(t) \/ PurgeCommits(t)
    BY <1>1, <1>3, <2>2, Zenon
       DEF UncountLike, InsertReport, ResetCount, PurgeCommits, PostRecords
  <2>6. CASE LikeCommits(t)
    BY <1>1, <1>3, <2>6, Zenon DEF LikeCommits, PostRecords
  <2>7. CASE CountLike(t) \/ NotifyLike(t)
    BY <1>3, <2>6, <2>7, Zenon DEF CountLike, NotifyLike, Hold
  <2>3. CASE CommentCommits(t) /\ pc[t] \in {"insertComment", "notifyComment"}
    <3>1. /\ item[t] \notin LiveIn(comments)
          /\ LiveIn(comments)' = LiveIn(comments) \cup {item[t]}
      BY <1>1, <2>3, Zenon DEF CommentCommits, ByStatement, LiveIn
    <3>2. Cardinality(LiveIn(comments)') = Cardinality(LiveIn(comments)) + 1
      BY <1>2, <3>1, FS_AddElement, Zenon
    <3>3. post'.deleted = post.deleted /\ post'.comments = post.comments + 1
      BY <1>1, <2>3, Zenon DEF CommentCommits, PostRecords
    <3> QED
      BY <3>2, <3>3, Zenon
  <2>4. CASE UncountComment(t)
    <3>1. /\ item[t] \in LiveIn(comments)
          /\ LiveIn(comments)' = LiveIn(comments) \ {item[t]}
      BY <1>1, <2>4, Zenon DEF UncountComment, ByStatement, LiveIn
    <3>2. Cardinality(LiveIn(comments)') = Cardinality(LiveIn(comments)) - 1
      BY <1>2, <3>1, FS_RemoveElement, Zenon
    <3>3. Cardinality(LiveIn(comments)) # 0
      BY <1>2, <3>1, FS_EmptySet, Zenon
    <3>4. post'.deleted = post.deleted /\ post'.comments = Decremented(post.comments)
      BY <1>1, <2>4, Zenon DEF UncountComment, PostRecords
    <3> QED
      BY <1>2, <3>2, <3>3, <3>4, Zenon DEF Decremented
  <2>5. CASE DeleteLikes(t)
    BY <1>1, <2>5, Zenon DEF DeleteLikes, PostRecords
  <2>8. CASE InsertComment(t) \/ NotifyComment(t)
    BY <1>3, <2>3, <2>8, Zenon DEF InsertComment, NotifyComment, Hold
  <2>9. ASSUME NEW row \in Rows, CascadeRow(t, row) PROVE CommentCountExact'
    BY <1>3, <2>9, Zenon DEF CascadeRow, Hold
  <2> QED
    BY <1>5, <2>1, <2>2, <2>4, <2>5, <2>7, <2>8, <2>9, Zenon DEF Step
<1>6. ASSUME NEW t \in Txns, Rollback(t) PROVE CommentCountExact'
  BY <1>3, <1>6, Zenon DEF Rollback, EndWithoutWrites
<1>7. ASSUME NEW value \in BOOLEAN, SetBlinded(value) PROVE CommentCountExact'
  BY <1>1, <1>3, <1>7, Zenon DEF SetBlinded, PostRecords
<1>8. ASSUME NEW u \in Users, Withdraw(u) PROVE CommentCountExact'
  BY <1>3, <1>8, Zenon DEF Withdraw
<1>9. CASE UNCHANGED vars
  BY <1>3, <1>9, Zenon DEF vars
<1> QED
  BY <1>4, <1>5, <1>6, <1>7, <1>8, <1>9, Zenon DEF Next

(* The blind follows report_count through every step. *)
LEMMA BlindStep == Inv /\ [Next]_vars => BlindedAtThreshold'
<1> SUFFICES ASSUME Inv, [Next]_vars PROVE BlindedAtThreshold'
  OBVIOUS
<1> USE DEF Inv, BlindedAtThreshold
<1>1. post \in PostRecords /\ unblinded \in BOOLEAN
  BY Zenon DEF TypeOK
<1>2. ASSUME unblinded' = unblinded, post'.reports = post.reports,
             post'.blinded = post.blinded, post'.deleted = post.deleted
      PROVE BlindedAtThreshold'
  BY <1>2, Zenon
<1>3. ASSUME NEW t \in Txns, Arrive(t) PROVE BlindedAtThreshold'
  BY <1>2, <1>3, Zenon DEF Arrive, LikePost, UnlikePost, CreateComment, DeleteComment,
                    SubmitReport, DeletePost, ResetReports, PurgeUser, Begin, Hold
<1>4. ASSUME NEW t \in Txns, Step(t) PROVE BlindedAtThreshold'
  <2>1. CASE InsertLike(t) \/ DeleteLike(t) \/ SoftDelete(t) \/ DeleteComments(t)
    BY <1>2, <2>1, Zenon DEF InsertLike, DeleteLike, SoftDelete, DeleteComments,
                      Hold, EndWithoutWrites
  <2>2. CASE LikeCommits(t) \/ UncountLike(t) \/ CommentCommits(t) \/ UncountComment(t)
    BY <1>1, <1>2, <2>2, Zenon DEF LikeCommits, UncountLike, CommentCommits, UncountComment,
       PostRecords
  <2>6. CASE CountLike(t) \/ NotifyLike(t) \/ InsertComment(t) \/ NotifyComment(t)
    BY <1>2, <2>2, <2>6, Zenon DEF CountLike, NotifyLike, InsertComment, NotifyComment, Hold
  <2>7. CASE PurgeCommits(t) \/ \E row \in Rows : CascadeRow(t, row)
    BY <1>2, <2>7, Zenon DEF PurgeCommits, CascadeRow, Hold
  <2>3. CASE DeleteLikes(t)
    BY <1>1, <2>3, Zenon DEF DeleteLikes, PostRecords
  <2>4. CASE InsertReport(t)
    <3>1. CASE post.deleted
      BY <2>4, <3>1, Zenon DEF InsertReport
    <3>2. CASE ~post.deleted /\ post.reports + 1 >= Threshold
      <4>1. post'.blinded
        BY <1>1, <2>4, <3>2, Zenon DEF InsertReport, PostRecords
      <4> QED
        BY <4>1, Zenon
    <3>3. CASE ~post.deleted /\ ~(post.reports + 1 >= Threshold)
      <4>1. post'.reports = post.reports + 1
        BY <1>1, <2>4, <3>3, Zenon DEF InsertReport, PostRecords
      <4> QED
        BY <3>3, <4>1, Zenon
    <3> QED
      BY <3>1, <3>2, <3>3, Zenon
  <2>5. CASE ResetCount(t)
    <3>1. CASE post.deleted
      BY <2>5, <3>1, Zenon DEF ResetCount
    <3>2. CASE ~post.deleted
      <4>1. post'.reports = 0
        BY <1>1, <2>5, <3>2, Zenon DEF ResetCount, PostRecords
      <4> QED
        BY <4>1, PostActivityAssumption
    <3> QED
      BY <3>1, <3>2, Zenon
  <2> QED
    BY <1>4, <2>1, <2>2, <2>3, <2>4, <2>5, <2>6, <2>7, Zenon DEF Step
<1>5. ASSUME NEW t \in Txns, Rollback(t) PROVE BlindedAtThreshold'
  BY <1>2, <1>5, Zenon DEF Rollback, EndWithoutWrites
<1>6. ASSUME NEW value \in BOOLEAN, SetBlinded(value) PROVE BlindedAtThreshold'
  <2>1. post'.blinded = value /\ unblinded' = ~value
    BY <1>1, <1>6, Zenon DEF SetBlinded, PostRecords
  <2> QED
    BY <2>1, Zenon
<1>7. ASSUME NEW u \in Users, Withdraw(u) PROVE BlindedAtThreshold'
  BY <1>2, <1>7, Zenon DEF Withdraw
<1>8. CASE UNCHANGED vars
  BY <1>2, <1>8, Zenon DEF vars
<1> QED
  BY <1>3, <1>4, <1>5, <1>6, <1>7, <1>8, Zenon DEF Next

(* The invariant holds in every reachable state. *)
THEOREM InvCorrect == Spec => []Inv
<1>1. Init => Inv
  <2> SUFFICES ASSUME Init PROVE Inv
    OBVIOUS
  <2>1. TypeOK
    BY Zenon DEF Init, TypeOK, PostRecords, PCs, Rows, RowStates
  <2>2. Control
    BY Zenon DEF Init, Control, ByStatement, Exclusive, Alone
  <2>3. likes = {} /\ purged = {} /\ LiveIn(comments) = {}
    BY Zenon DEF Init, LiveIn
  <2>4. LikeCountExact /\ CommentCountExact
    <3>1. Cardinality(likes) = 0 /\ Cardinality(purged) = 0 /\ Cardinality(LiveIn(comments)) = 0
      BY <2>3, FS_EmptySet, Zenon
    <3>2. post.likes = 0 /\ post.comments = 0
      BY Zenon DEF Init
    <3> QED
      BY <3>1, <3>2 DEF LikeCountExact, CommentCountExact
  <2>5. BlindedAtThreshold
    BY PostActivityAssumption DEF Init, BlindedAtThreshold
  <2> QED
    BY <2>1, <2>2, <2>4, <2>5, Zenon DEF Inv
<1>2. Inv /\ [Next]_vars => Inv'
  <2> SUFFICES ASSUME Inv, [Next]_vars PROVE Inv'
    OBVIOUS
  <2>1. TypeOK' /\ Control'
    BY TypeStep, ControlStep, Zenon DEF Inv, Control
  <2> QED
    BY <2>1, LikeCountStep, CommentCountStep, BlindStep, Zenon DEF Inv
<1> QED
  BY <1>1, <1>2, PTL DEF Spec

(* The types hold, and a finished transaction holds no row. *)
THEOREM TypeCorrect == Spec => []TypeOK
<1>1. Inv => TypeOK
  BY Zenon DEF Inv
<1> QED
  BY <1>1, InvCorrect, PTL

(* like_count of a post that is not deleted is exact up to purged accounts, *)
(* in every interleaving of like_post, unlike_post and their retries.       *)
THEOREM LikeCountExactHolds == Spec => []LikeCountExact
<1>1. Inv => LikeCountExact
  BY Zenon DEF Inv
<1> QED
  BY <1>1, InvCorrect, PTL

(* comment_count of a post that is not deleted is exact, in every           *)
(* interleaving of create_comment and delete_comment by author and admin.   *)
THEOREM CommentCountExactHolds == Spec => []CommentCountExact
<1>1. Inv => CommentCountExact
  BY Zenon DEF Inv
<1> QED
  BY <1>1, InvCorrect, PTL

(* A post whose report_count has reached the threshold is blinded unless    *)
(* an admin lifted the blind since (_create_report_and_maybe_blind).        *)
THEOREM BlindedAtThresholdHolds == Spec => []BlindedAtThreshold
<1>1. Inv => BlindedAtThreshold
  BY Zenon DEF Inv
<1> QED
  BY <1>1, InvCorrect, PTL

(* Likes, unlikes, comments, their deletion, reports and resets never      *)
(* deadlock among themselves: whoever waits for the author waits for a     *)
(* purge, whoever waits for the post waits for somebody who waits for the  *)
(* author or for a delete_post or a purge, and whoever waits for another   *)
(* row waits for somebody who waits for the post or the author.            *)
THEOREM OrdinaryNeverDeadlockHolds == Spec => []OrdinaryNeverDeadlock
<1>1. Inv => OrdinaryNeverDeadlock
  <2> SUFFICES ASSUME Inv, NEW S \in SUBSET {t \in Txns : pc[t] \notin Deleting \cup {"cascade"}},
                      S # {}, \A t \in S : \E o \in S : WaitsFor(t, o)
               PROVE  FALSE
    BY Zenon DEF OrdinaryNeverDeadlock
  <2> DEFINE Early == {"insertLike", "deleteLike", "softDelete"}
             Late == {"countLike", "uncountLike", "insertComment", "uncountComment",
                      "insertReport", "resetCount"}
             Notifying == {"notifyLike", "notifyComment"}
             Others == Users \cup Comments \cup Reports
  <2>1. ASSUME NEW t \in S
        PROVE  t \in Txns /\ ByStatement(t) /\ pc[t] \in Early \cup Late \cup Notifying
    <3>1. t \in Txns /\ pc[t] \in PCs /\ pc[t] \notin Deleting \cup {"cascade"}
      BY Zenon DEF Inv, TypeOK
    <3>2. pc[t] # "idle"
      BY Zenon DEF WaitsFor
    <3> QED
      BY <3>1, <3>2, Zenon DEF Inv, Control, PCs
  <2>2. ASSUME NEW t \in S
        PROVE  /\ pc[t] \in Early => locks[t] = {}
               /\ pc[t] \in Late => locks[t] \subseteq Others /\ Wants(t) = {PostRow}
               /\ pc[t] \in Notifying => locks[t] \subseteq Others \cup {PostRow}
                                         /\ Wants(t) = {AuthorRow}
    <3>1. ByStatement(t) /\ likes \subseteq Users
      BY <2>1, Zenon DEF Inv, TypeOK
    <3>2. CASE pc[t] \in Early
      BY <3>1, <3>2, Zenon DEF ByStatement
    <3>3. CASE pc[t] \in Late
      BY <3>1, <3>3, Zenon DEF ByStatement, Wants
    <3>4. CASE pc[t] \in Notifying
      BY <3>1, <3>4, Zenon DEF ByStatement, Wants
    <3> QED
      BY <2>1, <3>2, <3>3, <3>4, Zenon
  <2> HIDE DEF Early, Late, Notifying, Others
  <2>3. PostRow \notin Others /\ AuthorRow \notin Others \cup {PostRow}
    BY PostActivityAssumption, Zenon DEF Others, PostRow, AuthorRow
  <2>4. ASSUME NEW t \in S PROVE pc[t] \notin Notifying
    <3>1. PICK o \in S : WaitsFor(t, o)
      OBVIOUS
    <3>2. AuthorRow \notin locks[o]
      BY <2>1, <2>2, <2>3, Zenon
    <3> QED
      BY <2>2, <3>1, <3>2, Zenon DEF WaitsFor
  <2>5. ASSUME NEW t \in S PROVE pc[t] \notin Late
    <3>1. PICK o \in S : WaitsFor(t, o)
      OBVIOUS
    <3>2. PostRow \notin locks[o]
      BY <2>1, <2>2, <2>3, <2>4, Zenon
    <3> QED
      BY <2>2, <3>1, <3>2, Zenon DEF WaitsFor
  <2>6. \A t \in S : locks[t] = {}
    BY <2>1, <2>2, <2>4, <2>5, Zenon
  <2>7. PICK t \in S : \E o \in S : WaitsFor(t, o)
    OBVIOUS
  <2>8. PICK o \in S : locks[o] \cap Wants(t) # {}
    BY <2>7, Zenon DEF WaitsFor
  <2> QED
    BY <2>6, <2>8, Zenon
<1> QED
  BY <1>1, InvCorrect, PTL
=============================================================================
