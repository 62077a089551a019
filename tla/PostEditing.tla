---------------------------- MODULE PostEditing -----------------------------
(***************************************************************************)
(* PATCH /posts/{id} (PostService.update_post over PostsModel.update_post) *)
(* and the hashtags of a new post.  Sessions do not flush by themselves    *)
(* (app/db/engine.py), so that the UPDATE of posts, with the version the   *)
(* transaction has read, is part of the COMMIT: until then nothing         *)
(* serialises two edits of a post, and sync_post_hashtags of both may      *)
(* interleave at every row under READ COMMITTED.                           *)
(***************************************************************************)
EXTENDS Naturals, Sequences

CONSTANTS
  Writers,   \* transactions
  Pages,     \* posts
  OldPages,  \* those there at the start
  OldTags,   \* and their hashtags
  TagLists,  \* the hashtags of a request, as typed
  Canonical, \* a hashtag as it is stored: no #, no space, lower case, cut; or Blank
  Blank,     \* nothing is left of it
  NoTags     \* a request without hashtags

(* _normalize_hashtags; the order of the names is left open below.         *)
Normalized(l) == IF l = NoTags THEN NoTags ELSE {Canonical[l[k]] : k \in DOMAIN l} \ {Blank}

ASSUME EditAssumption ==
  /\ OldPages \subseteq Pages
  /\ TagLists \subseteq Seq(DOMAIN Canonical)
  /\ \A l \in TagLists : NoTags # l /\ NoTags # Normalized(l)

VARIABLES
  text,    \* posts and post_hashtags, as committed
  names,   \* hashtags, as committed
  patch,   \* a transaction
  wanted   \* history: the hashtags the last edit that gave any asked for

patchVars == <<text, names, patch, wanted>>

-----------------------------------------------------------------------------
(* A row of post_hashtags is a name and the version of the post it was     *)
(* inserted with, so that a row inserted again is another row.             *)
NameOf(rows) == {r[1] : r \in rows}

NoPatch == [step |-> "idle", page |-> NoTags, tags |-> NoTags, sent |-> 0, read |-> 0, todo |-> {},
            old |-> {}, gone |-> {}, new |-> {}, mine |-> {}, clean |-> TRUE]

PatchInit ==
  /\ text = [p \in Pages |-> IF p \in OldPages
                             THEN [version |-> 1, links |-> OldTags \X {1}, state |-> "shown"]
                             ELSE [version |-> 0, links |-> {}, state |-> "none"]]
  /\ names = OldTags
  /\ patch = [w \in Writers |-> NoPatch]
  /\ wanted = [p \in Pages |-> IF p \in OldPages THEN OldTags ELSE {}]

PatchAt(w, step) == patch[w].step = step
PatchTo(w, step) == patch' = [patch EXCEPT ![w].step = step]
Page(w) == text[patch[w].page]
Rivals(w) == {o \in Writers \ {w} : patch[o].page = patch[w].page}

(* What a transaction that ends no longer holds.                           *)
Ended(w, step) == [patch[w] EXCEPT !.step = step, !.gone = {}, !.new = {}, !.mine = {}]
Refuse(w) == patch' = [patch EXCEPT ![w] = Ended(w, "refused")]

-----------------------------------------------------------------------------
(* The request; sent is the version of the GET before it, or 0.            *)
EditPost(w, p, sent, typed) ==
  /\ PatchAt(w, "idle")
  /\ text[p].state # "none"
  /\ sent \in {0, text[p].version}
  /\ patch' = [patch EXCEPT ![w] =
                 [NoPatch EXCEPT !.step = "read", !.page = p, !.sent = sent,
                                 !.tags = Normalized(typed)]]
  /\ UNCHANGED <<text, names, wanted>>

(* create_post: the row of the post is inserted first.                     *)
NewPost(w, p, typed) ==
  /\ PatchAt(w, "idle")
  /\ text[p].state = "none"
  /\ \A o \in Writers : patch[o].page # p
  /\ patch' = [patch EXCEPT ![w] =
                 [NoPatch EXCEPT !.step = IF typed = NoTags THEN "commit" ELSE "links",
                                 !.page = p, !.tags = Normalized(typed)]]
  /\ UNCHANGED <<text, names, wanted>>

(* get_post_by_id, and the version the client gave.                        *)
ReadPost(w) ==
  /\ PatchAt(w, "read")
  /\ IF Page(w).state = "shown" /\ patch[w].sent \in {0, Page(w).version}
     THEN patch' = [patch EXCEPT ![w].step = "find", ![w].read = Page(w).version]
     ELSE Refuse(w)
  /\ UNCHANGED <<text, names, wanted>>

(* The SELECT of PostsModel.update_post, which keeps the version loaded    *)
(* before.                                                                 *)
FindPost(w) ==
  /\ PatchAt(w, "find")
  /\ IF Page(w).state = "deleted" THEN Refuse(w)
     ELSE PatchTo(w, IF patch[w].tags = NoTags THEN "commit" ELSE "links")
  /\ UNCHANGED <<text, names, wanted>>

-----------------------------------------------------------------------------
(* sync_post_hashtags.                                                     *)

(* DELETE finds its rows ...                                               *)
FindLinks(w) ==
  /\ PatchAt(w, "links")
  /\ patch' = [patch EXCEPT ![w].step = "unlink", ![w].old = Page(w).links]
  /\ UNCHANGED <<text, names, wanted>>

(* ... waits for those another transaction deletes, and skips them if it   *)
(* has.                                                                    *)
Unlink(w) ==
  /\ PatchAt(w, "unlink")
  /\ \A o \in Rivals(w) : patch[o].gone \cap patch[w].old = {}
  /\ patch' = [patch EXCEPT ![w].step = IF patch[w].tags = {} THEN "commit" ELSE "names",
                            ![w].gone = patch[w].old \cap Page(w).links,
                            ![w].todo = patch[w].tags]
  /\ UNCHANGED <<text, names, wanted>>

(* INSERT INTO hashtags ON CONFLICT DO NOTHING, name by name: it waits for *)
(* a transaction that is inserting the same one.                           *)
InsertName(w, n) ==
  /\ PatchAt(w, "names")
  /\ n \in patch[w].todo
  /\ \A o \in Writers \ {w} : n \notin patch[o].new
  /\ patch' = [patch EXCEPT ![w].todo = @ \ {n}, ![w].new = @ \cup ({n} \ names)]
  /\ UNCHANGED <<text, names, wanted>>

(* The SELECT of their ids.                                                *)
SelectNames(w) ==
  /\ PatchAt(w, "names")
  /\ patch[w].todo = {}
  /\ patch' = [patch EXCEPT ![w].step = "link",
                            ![w].todo = patch[w].tags \cap (names \cup patch[w].new)]
  /\ UNCHANGED <<text, names, wanted>>

(* INSERT INTO post_hashtags ON CONFLICT DO NOTHING, row by row, of the    *)
(* names that were found.                                                  *)
InsertLink(w, n) ==
  /\ PatchAt(w, "link")
  /\ n \in patch[w].todo
  /\ \A o \in Rivals(w) : n \notin patch[o].mine
  /\ patch' = [patch EXCEPT ![w].todo = @ \ {n},
                            ![w].mine = @ \cup ({n} \ NameOf(Page(w).links \ patch[w].gone))]
  /\ UNCHANGED <<text, names, wanted>>

(* All are inserted.                                                       *)
Linked(w) ==
  /\ PatchAt(w, "link")
  /\ patch[w].todo = {}
  /\ PatchTo(w, "commit")
  /\ UNCHANGED <<text, names, wanted>>

-----------------------------------------------------------------------------
(* What becomes visible; edits of the same post still under way are no     *)
(* longer based on its last version.                                       *)
Persist(w) ==
  LET p == patch[w].page
      version == text[p].version + 1
  IN /\ text' = [text EXCEPT ![p].version = version,
                             ![p].state = IF @ = "none" THEN "shown" ELSE @,
                             ![p].links = (@ \ patch[w].gone) \cup (patch[w].mine \X {version})]
     /\ names' = names \cup patch[w].new
     /\ patch' = [o \in Writers |->
                    IF o = w THEN Ended(w, "committed")
                    ELSE IF o \in Rivals(w) /\ patch[o].step # "committed"
                    THEN [patch[o] EXCEPT !.clean = FALSE] ELSE patch[o]]
     /\ wanted' = [wanted EXCEPT ![p] = IF patch[w].tags = NoTags THEN @ ELSE patch[w].tags]

(* Defect: posts has no version_id_col, the UPDATE asks for the id alone.  *)
CommitUnversioned(w) == PatchAt(w, "commit") /\ Persist(w)

(* COMMIT flushes the UPDATE of posts: no row has the version that was     *)
(* read once another edit has committed (StaleDataError).                  *)
CommitPatch(w) ==
  /\ PatchAt(w, "commit")
  /\ IF Page(w).version = patch[w].read THEN Persist(w)
     ELSE Refuse(w) /\ UNCHANGED <<text, names, wanted>>

(* A statement fails, the process ends, or PostgreSQL breaks a deadlock of *)
(* transactions that wait for each other's names or rows.                  *)
RollBackPatch(w) ==
  /\ patch[w].step \notin {"idle", "refused", "committed"}
  /\ Refuse(w)
  /\ UNCHANGED <<text, names, wanted>>

(* A moderator blinds the post or it is deleted, by Core statements that   *)
(* leave its version alone.                                                *)
HidePost(p, state) ==
  /\ <<text[p].state, state>> \in {<<"shown", "blinded">>, <<"blinded", "shown">>,
                                   <<"shown", "deleted">>, <<"blinded", "deleted">>}
  /\ text' = [text EXCEPT ![p].state = state]
  /\ UNCHANGED <<names, patch, wanted>>

PatchNext ==
  \/ \E w \in Writers :
       \/ \E p \in Pages, typed \in TagLists \cup {NoTags} :
            NewPost(w, p, typed) \/ \E sent \in {0, text[p].version} : EditPost(w, p, sent, typed)
       \/ \E n \in patch[w].todo : InsertName(w, n) \/ InsertLink(w, n)
       \/ ReadPost(w) \/ FindPost(w) \/ FindLinks(w) \/ Unlink(w) \/ SelectNames(w) \/ Linked(w)
       \/ CommitPatch(w) \/ RollBackPatch(w)
  \/ \E p \in Pages, state \in {"shown", "blinded", "deleted"} : HidePost(p, state)

PatchSpec == PatchInit /\ [][PatchNext]_patchVars

-----------------------------------------------------------------------------
(* However the statements of several edits interleave, a post has exactly  *)
(* the hashtags its last edit that gave any asked for, in their canonical  *)
(* form, all of them with a row in hashtags; and an edit that names the    *)
(* version its client has seen is never committed over one the client has  *)
(* not seen.                                                               *)
EditsDoNotMix ==
  /\ \A p \in Pages : NameOf(text[p].links) = wanted[p] /\ wanted[p] \subseteq names
  /\ \A w \in Writers : PatchAt(w, "committed") /\ patch[w].sent # 0 => patch[w].clean
=============================================================================
