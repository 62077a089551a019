------------------------------- MODULE Media -------------------------------
(***************************************************************************)
(* Images: the presigned upload (app/domain/media/service.py over          *)
(* app/infra/storage.py), the upload token and claim of a signup           *)
(* (app/domain/auth/service.py), and the rows that hold an image: posts,   *)
(* user profiles and dogs.                                                 *)
(*                                                                         *)
(* An image number stands for the promoted object and for the row that     *)
(* names it: both are created once, by one confirm.  Times are kept as the *)
(* two ages the queries of media/model.py ask for.  What an uploaded       *)
(* object contains is kept as whether it passes the validation of the      *)
(* confirm that names it.                                                  *)
(***************************************************************************)
EXTENDS Naturals, FiniteSets

CONSTANTS Clients,    \* concurrent requests
          Members,    \* accounts that exist at the start
          NewUsers,   \* accounts that may sign up
          Leavers,    \* accounts that may withdraw
          Keys,       \* pending/ keys handed out by presign
          Holders,    \* tables that refer to images
          MaxImages,  \* bound on promotions
          Faults, MaxFaults,
          NULL

Users == Members \cup NewUsers
Images == 1..MaxImages

FaultKinds == {"storageError",    \* an S3 call raises and had no effect
               "dbError",         \* a transaction is rolled back
               "commitReplyLost", \* COMMIT raises after the server committed
               "redisError",      \* a Redis call raises
               "crash"}           \* the process dies

ASSUME MediaAssumption ==
  /\ Members \cap NewUsers = {} /\ Leavers \subseteq Users
  /\ NULL \notin Users \cup Keys \cup Images
  /\ Holders \subseteq {"post", "profile", "dog"} /\ "profile" \in Holders
  /\ {MaxImages, MaxFaults} \subseteq Nat
  /\ Faults \subseteq FaultKinds

VARIABLES
  pending,  \* pending/ objects: none, or whether they pass validation
  object,   \* permanent objects in the bucket
  image,    \* rows of images
  held,     \* users, dog_profiles and post_images rows that refer to an image
  token,    \* images named by a live upload_token:{token}
  account,  \* users: none, active, withdrawn or purged
  promoted, \* number of promotions so far
  known,    \* images whose id a response returned
  claims,   \* history: signups committed with the image
  req,      \* the request each client is in
  faults

bucketVars == <<pending, object, promoted>>
rowsVars == <<image, held>>
peopleVars == <<token, account, known, claims>>
requestVars == <<bucketVars, rowsVars, peopleVars, req, faults>>

Ages == {"new", "hour", "day"}
Rows == [uploader : Users \cup {NULL}, age : Ages]

ASSUME RowAssumption == NULL \notin Rows

Steps == {"promote", "copy", "unpend", "insert", "token", "undoRow",
          "undo", "del", "claim"}
Idle == [step |-> "idle", key |-> NULL, img |-> NULL, user |-> NULL, valid |-> TRUE]
Requests == [step : Steps \cup {"idle"}, key : Keys \cup {NULL},
             img : Images \cup {NULL}, user : Users \cup {NULL}, valid : BOOLEAN]

RequestTypeOK ==
  /\ pending \in [Keys -> {"none", "valid", "invalid"}]
  /\ object \subseteq Images
  /\ image \in [Images -> Rows \cup {NULL}]
  /\ held \in [Images -> SUBSET Holders]
  /\ \A i \in Images : held[i] # {} => image[i] # NULL
  /\ token \subseteq Images
  /\ account \in [Users -> {"none", "active", "withdrawn", "purged"}]
  /\ promoted \in 0..MaxImages
  /\ known \subseteq Images
  /\ claims \in [Images -> Nat]
  /\ req \in [Clients -> Requests]
  /\ faults \in 0..(MaxFaults + 1)

RequestInit ==
  /\ pending = [k \in Keys |-> "none"]
  /\ object = {}
  /\ image = [i \in Images |-> NULL]
  /\ held = [i \in Images |-> {}]
  /\ token = {}
  /\ account = [u \in Users |-> IF u \in Members THEN "active" ELSE "none"]
  /\ promoted = 0
  /\ known = {}
  /\ claims = [i \in Images |-> 0]
  /\ req = [c \in Clients |-> Idle]
  /\ faults = 0

Fault(kind) ==
  /\ kind \in Faults
  /\ faults < MaxFaults
  /\ faults' = faults + 1

At(c, step) == req[c].step = step
Goto(c, step) == req' = [req EXCEPT ![c].step = step]
Done(c) == req' = [req EXCEPT ![c] = Idle]

(* Defect: the rows go and what refers to them stays. *)
DropRowsOnly(gone) ==
  /\ image' = [i \in Images |-> IF i \in gone THEN NULL ELSE image[i]]
  /\ UNCHANGED held

(* A deleted row: post_images go with it (CASCADE), profiles lose their
   reference (SET NULL). *)
DropRows(gone) ==
  /\ image' = [i \in Images |-> IF i \in gone THEN NULL ELSE image[i]]
  /\ held' = [i \in Images |-> IF i \in gone THEN {} ELSE held[i]]

----------------------------------------------------------------------------
(* presign and confirm *)

(* The bound on images: no confirm starts that could exceed it, and no upload
   that no confirm could promote. *)
MorePromotions ==
  promoted + Cardinality({c \in Clients : req[c].step \in {"promote", "copy"}}) < MaxImages

(* issue_presigned_upload hands out a key; the browser POSTs to the bucket,
   possibly again while the URL lives. *)
Upload(k, content) ==
  /\ MorePromotions
  /\ pending[k] # content
  /\ pending' = [pending EXCEPT ![k] = content]
  /\ UNCHANGED <<rowsVars, peopleVars, object, promoted, req, faults>>

(* confirm_presigned_upload of a user, or (u = NULL) the one before signup;
   head_pending_object: a missing or invalid object is refused. *)
Confirm(c, k, u) ==
  /\ At(c, "idle")
  /\ u # NULL => account[u] = "active"
  /\ MorePromotions
  /\ pending[k] = "valid"
  /\ req' = [req EXCEPT ![c] = [Idle EXCEPT !.step = "promote", !.key = k, !.user = u]]
  /\ UNCHANGED <<bucketVars, rowsVars, peopleVars, faults>>

(* The HEAD of promote_pending_object: size and type are taken from it.  An
   invalid type is refused here, a size other than the reported one is not. *)
PromoteHead(c) ==
  LET found == pending[req[c].key]
  IN /\ At(c, "promote")
     /\ \/ /\ found # "valid"
           /\ Done(c)
        \/ /\ found # "none"
           /\ req' = [req EXCEPT ![c].step = "copy", ![c].valid = (found = "valid")]
     /\ UNCHANGED <<bucketVars, rowsVars, peopleVars, faults>>

(* copy_object: an object that another confirm consumed is an error. *)
Copy(c) ==
  /\ At(c, "copy")
  /\ IF pending[req[c].key] = "none"
     THEN Done(c) /\ UNCHANGED <<object, promoted>>
     ELSE /\ promoted' = promoted + 1
          /\ object' = object \cup {promoted'}
          /\ req' = [req EXCEPT ![c].step = "unpend", ![c].img = promoted']
  /\ UNCHANGED <<rowsVars, peopleVars, pending, faults>>

(* Defect: an object that fails the second validation is left behind. *)
UnpendKeepsRefused(c) ==
  /\ At(c, "unpend")
  /\ pending' = [pending EXCEPT ![req[c].key] = "none"]
  /\ IF req[c].valid THEN Goto(c, "insert") ELSE Done(c)
  /\ UNCHANGED <<rowsVars, peopleVars, object, promoted, faults>>

(* delete_object of the pending key, and the second validation: an object
   replaced since the first HEAD is refused and the copy deleted. *)
Unpend(c) ==
  /\ At(c, "unpend")
  /\ pending' = [pending EXCEPT ![req[c].key] = "none"]
  /\ Goto(c, IF req[c].valid THEN "insert" ELSE "undo")
  /\ UNCHANGED <<rowsVars, peopleVars, object, promoted, faults>>

(* An S3 call of the promotion raises: 500, and the copy stays. *)
PromoteFails(c) ==
  /\ Fault("storageError")
  /\ req[c].step \in {"promote", "copy", "unpend"}
  /\ Done(c)
  /\ UNCHANGED <<bucketVars, rowsVars, peopleVars>>

NewRow(u) == [uploader |-> u, age |-> "new"]

(* create_image commits and the user gets the id; create_temp_image commits
   and the token is still to be issued. *)
Insert(c) ==
  LET r == req[c]
  IN /\ At(c, "insert")
     /\ image' = [image EXCEPT ![r.img] = NewRow(r.user)]
     /\ IF r.user = NULL
        THEN Goto(c, "token") /\ UNCHANGED known
        ELSE Done(c) /\ known' = known \cup {r.img}
     /\ UNCHANGED <<bucketVars, held, token, account, claims, faults>>

(* The transaction raises, before or after it took effect: confirm deletes
   the object.  The signup confirm first deletes the row if it was the COMMIT
   that raised, for then the image is set, and not if it was the INSERT. *)
InsertFails(c, lost) ==
  LET r == req[c]
  IN /\ At(c, "insert")
     /\ Fault(IF lost THEN "commitReplyLost" ELSE "dbError")
     /\ image' = IF lost THEN [image EXCEPT ![r.img] = NewRow(r.user)] ELSE image
     /\ \/ r.user # NULL /\ Goto(c, "undo")
        \/ r.user = NULL /\ Goto(c, "undoRow")
        \/ r.user = NULL /\ ~lost /\ Goto(c, "undo")
     /\ UNCHANGED <<bucketVars, peopleVars, held>>

(* issue_upload_token *)
IssueToken(c) ==
  /\ At(c, "token")
  /\ token' = token \cup {req[c].img}
  /\ known' = known \cup {req[c].img}
  /\ Done(c)
  /\ UNCHANGED <<bucketVars, rowsVars, account, claims, faults>>

IssueTokenFails(c) ==
  /\ At(c, "token")
  /\ Fault("redisError")
  /\ Goto(c, "undoRow")
  /\ UNCHANGED <<bucketVars, rowsVars, peopleVars>>

(* Roll back a signup confirm: the row first, then the object. *)
UndoRow(c) ==
  /\ At(c, "undoRow")
  /\ DropRows({req[c].img})
  /\ Goto(c, "undo")
  /\ UNCHANGED <<bucketVars, peopleVars, faults>>

(* Bound: this fault within a fault is allowed beyond MaxFaults. *)
UndoRowFails(c) ==
  /\ At(c, "undoRow")
  /\ "dbError" \in Faults
  /\ faults <= MaxFaults
  /\ faults' = faults + 1
  /\ Done(c)
  /\ UNCHANGED <<bucketVars, rowsVars, peopleVars>>

(* storage_delete: the last step of a rollback and of delete_image. *)
DeleteObject(c) ==
  /\ At(c, "undo")
  /\ object' = object \ {req[c].img}
  /\ Done(c)
  /\ UNCHANGED <<rowsVars, peopleVars, pending, promoted, faults>>

DeleteObjectFails(c) ==
  /\ At(c, "undo")
  /\ Fault("storageError")
  /\ Done(c)
  /\ UNCHANGED <<bucketVars, rowsVars, peopleVars>>

(* delete_image of the uploader: the row commits, then the object goes. *)
DeleteImage(c, i) ==
  /\ At(c, "idle")
  /\ i \in known
  /\ image[i] # NULL /\ image[i].uploader # NULL
  /\ account[image[i].uploader] = "active"
  /\ DropRows({i})
  /\ req' = [req EXCEPT ![c] = [Idle EXCEPT !.step = "undo", !.img = i]]
  /\ UNCHANGED <<bucketVars, peopleVars, faults>>

----------------------------------------------------------------------------
(* signup with an image *)

(* The token is read ... *)
Signup(c, u, i) ==
  /\ At(c, "idle")
  /\ i \in known
  /\ account[u] = "none"
  /\ i \in token
  /\ req' = [req EXCEPT ![c] = [Idle EXCEPT !.step = "del", !.img = i, !.user = u]]
  /\ UNCHANGED <<bucketVars, rowsVars, peopleVars, faults>>

(* ... and deleted by a second call. *)
DeleteToken(c) ==
  /\ At(c, "del")
  /\ token' = token \ {req[c].img}
  /\ Goto(c, "claim")
  /\ UNCHANGED <<bucketVars, rowsVars, account, known, claims, faults>>

(* An error of Redis is an invalid token. *)
DeleteTokenFails(c) ==
  /\ At(c, "del")
  /\ Fault("redisError")
  /\ Done(c)
  /\ UNCHANGED <<bucketVars, rowsVars, peopleVars>>

(* create_user and claim_image_ownership commit together. *)
Register(c, claimable) ==
  LET i == req[c].img
      u == req[c].user
  IN /\ At(c, "claim")
     /\ IF claimable /\ account[u] = "none"
        THEN /\ account' = [account EXCEPT ![u] = "active"]
             /\ image' = [image EXCEPT ![i].uploader = u]
             /\ held' = [held EXCEPT ![i] = @ \cup {"profile"}]
             /\ claims' = [claims EXCEPT ![i] = @ + 1]
        ELSE UNCHANGED <<rowsVars, account, claims>>
     /\ Done(c)
     /\ UNCHANGED <<bucketVars, token, known, faults>>

(* Defect: the claim does not ask for uploader_id IS NULL. *)
ClaimAnyRow(c) == Register(c, image[req[c].img] # NULL)

(* The claim needs a row without uploader; a row that is gone breaks the
   foreign key, a taken e-mail the unique index: all roll back. *)
Claim(c) == LET row == image[req[c].img]
            IN Register(c, row # NULL /\ row.uploader = NULL)

ClaimFails(c) ==
  /\ At(c, "claim")
  /\ Fault("dbError")
  /\ Done(c)
  /\ UNCHANGED <<bucketVars, rowsVars, peopleVars>>

----------------------------------------------------------------------------
(* The rows that refer to images *)

(* create_post, update_post, update_user_profile and upsert_dog_profile check
   that the row exists and refer to it; image_id is unique in post_images. *)
Attach(i, h) ==
  /\ i \in known
  /\ image[i] # NULL
  /\ h \notin held[i]
  /\ held' = [held EXCEPT ![i] = @ \cup {h}]
  /\ UNCHANGED <<bucketVars, peopleVars, image, req, faults>>

(* An edit, a deleted post, a cleared profile or a removed dog. *)
Release(i, h) ==
  /\ h \in held[i]
  /\ held' = [held EXCEPT ![i] = @ \ {h}]
  /\ UNCHANGED <<bucketVars, peopleVars, image, req, faults>>

(* Withdrawal: the row stays for thirty days, without its profile image. *)
Withdraw(u) ==
  /\ account[u] = "active"
  /\ account' = [account EXCEPT ![u] = "withdrawn"]
  /\ \E i \in Images \cup {NULL} :
       held' = [j \in Images |-> IF j = i THEN held[j] \ {"profile"} ELSE held[j]]
  /\ UNCHANGED <<bucketVars, image, token, known, claims, req, faults>>

(* purge_withdrawn_users: dogs go with the account (CASCADE), images lose
   their uploader (SET NULL), posts and their images stay.  After thirty days
   no request of the account is left and its images are old. *)
Purge(u) ==
  /\ account[u] = "withdrawn"
  /\ \A c \in Clients : req[c].user # u
  /\ \A i \in Images : image[i] # NULL /\ image[i].uploader = u => image[i].age = "day"
  /\ account' = [account EXCEPT ![u] = "purged"]
  /\ image' = [i \in Images |->
                 IF image[i] # NULL /\ image[i].uploader = u
                 THEN [image[i] EXCEPT !.uploader = NULL] ELSE image[i]]
  /\ \E lost \in SUBSET Images :
       held' = [i \in Images |-> IF i \in lost THEN held[i] \ {"dog"} ELSE held[i]]
  /\ UNCHANGED <<bucketVars, token, known, claims, req, faults>>

----------------------------------------------------------------------------
(* Time and crashes *)

(* An image becomes an hour old while a signup that names it is in flight,
   but no request lasts a day.  Its token, which is younger than the row,
   may still be live after the hour and not after the day. *)
Grow(i) ==
  LET row == image[i]
      busy == {req[c].step : c \in {d \in Clients : req[d].img = i}}
  IN /\ row # NULL
     /\ \/ /\ row.age = "new"
           /\ busy \subseteq {"del", "claim"}
           /\ image' = [image EXCEPT ![i].age = "hour"]
        \/ /\ row.age = "hour"
           /\ busy = {} /\ i \notin token
           /\ image' = [image EXCEPT ![i].age = "day"]
     /\ UNCHANGED <<bucketVars, peopleVars, held, req, faults>>

ExpireToken(i) ==
  /\ i \in token
  /\ image[i] # NULL => image[i].age # "new"
  /\ token' = token \ {i}
  /\ UNCHANGED <<bucketVars, rowsVars, account, known, claims, req, faults>>

CrashRequest(c) ==
  /\ ~At(c, "idle")
  /\ Fault("crash")
  /\ Done(c)
  /\ UNCHANGED <<bucketVars, rowsVars, peopleVars>>

(* Bound: uploads before signup happen where there is someone to sign up. *)
Uploaders == IF NewUsers = {} THEN Users ELSE Users \cup {NULL}

RequestNext ==
  \/ \E k \in Keys :
       \/ \E content \in {"valid", "invalid"} : Upload(k, content)
       \/ \E c \in Clients, u \in Uploaders : Confirm(c, k, u)
  \/ \E c \in Clients :
       \/ PromoteHead(c) \/ Copy(c) \/ Unpend(c) \/ PromoteFails(c)
       \/ Insert(c) \/ IssueToken(c) \/ IssueTokenFails(c)
       \/ \E lost \in BOOLEAN : InsertFails(c, lost)
       \/ UndoRow(c) \/ UndoRowFails(c) \/ DeleteObject(c) \/ DeleteObjectFails(c)
       \/ DeleteToken(c) \/ DeleteTokenFails(c) \/ Claim(c) \/ ClaimFails(c)
       \/ CrashRequest(c)
       \/ \E i \in Images : DeleteImage(c, i) \/ \E u \in NewUsers : Signup(c, u, i)
  \/ \E i \in Images :
       \/ Grow(i) \/ ExpireToken(i)
       \/ \E h \in Holders : Attach(i, h) \/ Release(i, h)
  \/ \E u \in Leavers : Withdraw(u) \/ Purge(u)
=============================================================================
