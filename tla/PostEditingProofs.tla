-------------------------- MODULE PostEditingProofs --------------------------
(***************************************************************************)
(* EditsDoNotMix for any posts, hashtags and number of transactions.       *)
(***************************************************************************)
EXTENDS PostEditing, TLAPS

Names == OldTags \cup {Canonical[x] : x \in DOMAIN Canonical}
Links == Names \X Nat
Versions == [version : Nat, links : SUBSET Links, state : {"none", "shown", "blinded", "deleted"}]
Running == {"read", "find", "links", "unlink", "names", "link", "commit"}
Patches == [step : Running \cup {"idle", "committed", "refused"}, page : Pages \cup {NoTags},
            tags : (SUBSET Names) \cup {NoTags}, sent : Nat, read : Nat, todo : SUBSET Names,
            old : SUBSET Links, gone : SUBSET Links, new : SUBSET Names, mine : SUBSET Names,
            clean : BOOLEAN]

PatchTypeOK ==
  /\ text \in [Pages -> Versions]
  /\ names \subseteq Names
  /\ patch \in [Writers -> Patches]
  /\ wanted \in [Pages -> SUBSET Names]

(* What holds of a transaction whose post is still at the version it read. *)
Current(q, page) ==
  /\ q.step = "unlink" => q.old = page.links
  /\ q.step \in {"names", "link", "commit"} /\ q.tags # NoTags => q.gone = page.links
  /\ q.step = "names" => q.tags \subseteq names \cup q.new \cup q.todo
  /\ q.step \in {"link", "commit"} /\ q.tags # NoTags => q.tags \subseteq names \cup q.new
  /\ q.step = "link" => q.mine \cup q.todo = q.tags
  /\ q.step = "commit" /\ q.tags # NoTags => q.mine = q.tags

(* A version only grows, so that what is based on an older one cannot      *)
(* become current again.                                                   *)
WriterOK(q, page) ==
  /\ q.step \in Running /\ q.sent # 0 =>
       q.sent <= page.version /\ (~q.clean => q.sent < page.version)
  /\ q.step \in Running \ {"read"} =>
       /\ q.read <= page.version
       /\ q.sent # 0 => q.read = q.sent
       /\ q.read = page.version => Current(q, page)
  /\ q.step \in {"links", "unlink", "names", "link"} => q.tags # NoTags
  /\ q.step \in {"read", "find", "links", "unlink"} \/ q.tags = NoTags => q.gone = {} /\ q.mine = {}
  /\ q.step = "names" => q.mine = {}
  /\ q.step = "committed" /\ q.sent # 0 => q.clean

PageOK(p) ==
  /\ text[p].state = "none" => text[p].version = 0 /\ text[p].links = {}
  /\ NameOf(text[p].links) = wanted[p]
  /\ wanted[p] \subseteq names

PatchInv ==
  /\ PatchTypeOK
  /\ \A p \in Pages : PageOK(p)
  /\ \A w \in Writers : patch[w].step # "idle" =>
       patch[w].page \in Pages /\ WriterOK(patch[w], text[patch[w].page])

-----------------------------------------------------------------------------
(* A step that changes one transaction and no row keeps the invariant if   *)
(* the transaction is left in order.                                       *)
LEMMA OwnStep ==
  ASSUME PatchInv, NEW w \in Writers, NEW q \in Patches,
         patch' = [patch EXCEPT ![w] = q], UNCHANGED <<text, names, wanted>>,
         q.page \in Pages, WriterOK(q, text[q.page])
  PROVE  PatchInv'
<1>1. PatchTypeOK'
  BY Zenon DEF PatchInv, PatchTypeOK
<1>2. \A p \in Pages : PageOK(p)'
  BY Zenon DEF PatchInv, PageOK
<1>3. ASSUME NEW o \in Writers, patch'[o].step # "idle"
      PROVE  patch'[o].page \in Pages /\ WriterOK(patch[o], text[patch[o].page])'
  <2>1. CASE o = w
    <3>1. patch'[o] = q
      BY <2>1, Zenon DEF PatchInv, PatchTypeOK
    <3> QED  BY <3>1, Zenon DEF WriterOK, Current
  <2>2. CASE o # w
    <3>1. patch'[o] = patch[o]
      BY <2>2, Zenon DEF PatchInv, PatchTypeOK
    <3> QED  BY <1>3, <3>1 DEF PatchInv, WriterOK, Current
  <2> QED  BY <2>1, <2>2, Zenon
<1> QED  BY <1>1, <1>2, <1>3, Zenon DEF PatchInv

LEMMA NormalizedType ==
  ASSUME NEW typed \in TagLists \cup {NoTags}
  PROVE  Normalized(typed) \in (SUBSET Names) \cup {NoTags}
<1>1. CASE typed = NoTags
  BY <1>1, Zenon DEF Normalized
<1>2. CASE typed # NoTags
  <2>1. typed \in Seq(DOMAIN Canonical)
    BY <1>2, EditAssumption, Zenon
  <2>2. \A k \in DOMAIN typed : typed[k] \in DOMAIN Canonical
    BY <2>1
  <2> QED  BY <1>2, <2>2, Zenon DEF Normalized, Names
<1> QED  BY <1>1, <1>2, Zenon

LEMMA NormalizedGiven ==
  ASSUME NEW typed \in TagLists \cup {NoTags}, typed # NoTags
  PROVE  Normalized(typed) # NoTags
BY EditAssumption, Zenon

LEMMA NamesOfRows ==
  ASSUME NEW T, NEW n
  PROVE  NameOf(T \X {n}) = T
<1>1. \A x \in T : <<x, n>> \in T \X {n} /\ <<x, n>>[1] = x
  OBVIOUS
<1>2. \A r \in T \X {n} : r[1] \in T
  OBVIOUS
<1> QED  BY <1>1, <1>2, Zenon DEF NameOf

-----------------------------------------------------------------------------
LEMMA InitOK == PatchInit => PatchInv
<1> SUFFICES ASSUME PatchInit PROVE PatchInv
  OBVIOUS
<1>1. NoPatch \in Patches /\ NoPatch.step = "idle"
  BY Zenon DEF NoPatch, Patches, Running
<1>2. PatchTypeOK
  BY <1>1, EditAssumption DEF PatchInit, PatchTypeOK, Versions, Links, Names
<1>3. ASSUME NEW p \in Pages PROVE PageOK(p)
  <2>1. CASE p \in OldPages
    <3>1. text[p].links = OldTags \X {1} /\ text[p].state = "shown" /\ wanted[p] = OldTags
      BY <2>1, Zenon DEF PatchInit
    <3> QED  BY <3>1, NamesOfRows, Zenon DEF PageOK, PatchInit
  <2>2. CASE p \notin OldPages
    BY <2>2, Zenon DEF PatchInit, PageOK, NameOf
  <2> QED  BY <2>1, <2>2, Zenon
<1> QED  BY <1>1, <1>2, <1>3, Zenon DEF PatchInv, PatchInit

LEMMA RequestOK ==
  ASSUME PatchInv, NEW w \in Writers, NEW p \in Pages, NEW typed \in TagLists \cup {NoTags},
         \/ NewPost(w, p, typed)
         \/ \E sent \in {0, text[p].version} : EditPost(w, p, sent, typed)
  PROVE  PatchInv'
<1> DEFINE tags == Normalized(typed)
<1>0. tags \in (SUBSET Names) \cup {NoTags}
  BY NormalizedType, Zenon
<1>1. text[p] \in Versions
  BY Zenon DEF PatchInv, PatchTypeOK
<1>2. CASE NewPost(w, p, typed)
  <2> DEFINE q == [NoPatch EXCEPT !.step = IF typed = NoTags THEN "commit" ELSE "links",
                                  !.page = p, !.tags = tags]
  <2>1. q \in Patches
    BY <1>0, Zenon DEF NoPatch, Patches, Running
  <2>2. typed = NoTags => tags = NoTags
    BY Zenon DEF Normalized
  <2>3. typed # NoTags => tags # NoTags
    BY NormalizedGiven, Zenon
  <2>4. WriterOK(q, text[p])
    BY <1>1, <2>2, <2>3 DEF WriterOK, Current, NoPatch, Versions, Running
  <2>5. q.page = p
    BY Zenon DEF NoPatch
  <2>6. patch' = [patch EXCEPT ![w] = q] /\ UNCHANGED <<text, names, wanted>>
    BY <1>2, Zenon DEF NewPost
  <2> HIDE DEF q
  <2> QED  BY <2>1, <2>4, <2>5, <2>6, OwnStep, Zenon
<1>3. ASSUME NEW sent \in {0, text[p].version}, EditPost(w, p, sent, typed)
      PROVE  PatchInv'
  <2> DEFINE q == [NoPatch EXCEPT !.step = "read", !.page = p, !.sent = sent, !.tags = tags]
  <2>0. sent \in Nat
    BY <1>1 DEF Versions
  <2>1. q \in Patches
    BY <1>0, <2>0, Zenon DEF NoPatch, Patches, Running
  <2>4. WriterOK(q, text[p])
    BY <1>1 DEF WriterOK, Current, NoPatch, Versions, Running
  <2>5. q.page = p
    BY Zenon DEF NoPatch
  <2>6. patch' = [patch EXCEPT ![w] = q] /\ UNCHANGED <<text, names, wanted>>
    BY <1>3, Zenon DEF EditPost
  <2> HIDE DEF q
  <2> QED  BY <2>1, <2>4, <2>5, <2>6, OwnStep, Zenon
<1> QED  BY <1>2, <1>3, Zenon

(* A transaction that is refused or rolled back.                           *)
LEMMA RefuseOK ==
  ASSUME PatchInv, NEW w \in Writers, ~PatchAt(w, "idle"), Refuse(w),
         UNCHANGED <<text, names, wanted>>
  PROVE  PatchInv'
<1> DEFINE q == patch[w]
           r == [q EXCEPT !.step = "refused", !.gone = {}, !.new = {}, !.mine = {}]
<1>1. q \in Patches /\ q.page \in Pages
  BY Zenon DEF PatchInv, PatchTypeOK, PatchAt
<1>2. r \in Patches
  BY <1>1, Zenon DEF Patches
<1>3. r.page \in Pages /\ WriterOK(r, text[r.page])
  BY <1>1, Zenon DEF WriterOK, Patches, Running
<1>4. patch' = [patch EXCEPT ![w] = r]
  BY Zenon DEF Refuse, Ended
<1> HIDE DEF r
<1> QED  BY <1>2, <1>3, <1>4, OwnStep, Zenon

(* The steps of a transaction up to the rows of post_hashtags.             *)
LEMMA ReadingOK ==
  ASSUME PatchInv, NEW w \in Writers, ReadPost(w) \/ FindPost(w) \/ FindLinks(w) \/ Unlink(w)
  PROVE  PatchInv'
<1> DEFINE q == patch[w]
           page == text[q.page]
<1>1. q \in Patches /\ patch \in [Writers -> Patches]
  BY Zenon DEF PatchInv, PatchTypeOK
<1>2. q.page \in Pages /\ WriterOK(q, page)
  BY <1>1, Zenon DEF PatchInv, ReadPost, FindPost, FindLinks, Unlink, PatchAt
<1>3. page \in Versions
  BY <1>2, Zenon DEF PatchInv, PatchTypeOK
<1>4. CASE Refuse(w) /\ UNCHANGED <<text, names, wanted>>
  <2>1. ~PatchAt(w, "idle")
    BY Zenon DEF ReadPost, FindPost, FindLinks, Unlink, PatchAt
  <2> QED  BY <1>4, <2>1, RefuseOK, Zenon
<1>5. CASE ReadPost(w) /\ ~Refuse(w)
  <2> DEFINE r == [q EXCEPT !.step = "find", !.read = page.version]
  <2>1. /\ q.step = "read" /\ q.sent \in {0, page.version}
        /\ patch' = [patch EXCEPT ![w] = r] /\ UNCHANGED <<text, names, wanted>>
    BY <1>1, <1>5, Zenon DEF ReadPost, PatchAt, Page
  <2>2. r \in Patches
    BY <1>1, <1>3, Zenon DEF Patches, Versions, Running
  <2>3. r.page = q.page /\ WriterOK(r, page)
    BY <1>1, <1>2, <1>3, <2>1 DEF Patches, Versions, WriterOK, Current, Running
  <2> HIDE DEF r
  <2> QED  BY <1>2, <2>1, <2>2, <2>3, OwnStep, Zenon
<1>6. CASE FindPost(w) /\ ~Refuse(w)
  <2> DEFINE r == [q EXCEPT !.step = IF q.tags = NoTags THEN "commit" ELSE "links"]
  <2>1. /\ q.step = "find"
        /\ patch' = [patch EXCEPT ![w] = r] /\ UNCHANGED <<text, names, wanted>>
    BY <1>1, <1>6, Zenon DEF FindPost, PatchAt, PatchTo
  <2>2. r \in Patches
    BY <1>1, Zenon DEF Patches, Running
  <2>3. r.page = q.page /\ WriterOK(r, page)
    BY <1>1, <1>2, <1>3, <2>1, Zenon DEF Patches, Versions, WriterOK, Current, Running
  <2> HIDE DEF r
  <2> QED  BY <1>2, <2>1, <2>2, <2>3, OwnStep, Zenon
<1>7. CASE FindLinks(w)
  <2> DEFINE r == [q EXCEPT !.step = "unlink", !.old = page.links]
  <2>1. /\ q.step = "links"
        /\ patch' = [patch EXCEPT ![w] = r] /\ UNCHANGED <<text, names, wanted>>
    BY <1>1, <1>7, Zenon DEF FindLinks, PatchAt, Page
  <2>2. r \in Patches
    BY <1>1, <1>3, Zenon DEF Patches, Versions, Running
  <2>3. r.page = q.page /\ WriterOK(r, page)
    BY <1>1, <1>2, <1>3, <2>1, Zenon DEF Patches, Versions, WriterOK, Current, Running
  <2> HIDE DEF r
  <2> QED  BY <1>2, <2>1, <2>2, <2>3, OwnStep, Zenon
<1>8. CASE Unlink(w)
  <2> DEFINE r == [q EXCEPT !.step = IF q.tags = {} THEN "commit" ELSE "names",
                            !.gone = q.old \cap page.links, !.todo = q.tags]
  <2>1. /\ q.step = "unlink"
        /\ patch' = [patch EXCEPT ![w] = r] /\ UNCHANGED <<text, names, wanted>>
    BY <1>1, <1>8, Zenon DEF Unlink, PatchAt, Page
  <2>2. q.tags \in SUBSET Names /\ q.tags # NoTags
    BY <1>1, <1>2, <2>1, Zenon DEF WriterOK, Patches
  <2>3. r \in Patches
    BY <1>1, <2>2, Zenon DEF Patches, Running
  <2>4. /\ r.step = IF q.tags = {} THEN "commit" ELSE "names"
        /\ r.gone = q.old \cap page.links /\ r.todo = q.tags
        /\ r.page = q.page /\ r.tags = q.tags /\ r.sent = q.sent /\ r.read = q.read
        /\ r.new = q.new /\ r.mine = q.mine /\ r.clean = q.clean
    BY <1>1, Zenon DEF Patches
  <2> HIDE DEF r
  <2>5. q.read = page.version => r.gone = page.links
    BY <1>2, <2>1, <2>4, Zenon DEF WriterOK, Current, Running
  <2>6. r.mine = {}
    BY <1>2, <2>1, <2>4, Zenon DEF WriterOK
  <2>7. q.read = page.version => Current(r, page)
    BY <2>2, <2>4, <2>5, <2>6, Zenon DEF Current
  <2>8. WriterOK(r, page)
    BY <1>2, <2>1, <2>2, <2>4, <2>6, <2>7, Zenon DEF WriterOK, Running
  <2> QED  BY <1>2, <2>1, <2>3, <2>4, <2>8, OwnStep, Zenon
<1> QED  BY <1>4, <1>5, <1>6, <1>7, <1>8, Zenon DEF ReadPost, FindPost

(* The steps that insert names and rows.                                   *)
LEMMA InsertingOK ==
  ASSUME PatchInv, NEW w \in Writers,
         \/ \E n \in patch[w].todo : InsertName(w, n) \/ InsertLink(w, n)
         \/ SelectNames(w)
         \/ Linked(w)
  PROVE  PatchInv'
<1> DEFINE q == patch[w]
           page == text[q.page]
<1>1. q \in Patches /\ patch \in [Writers -> Patches]
  BY Zenon DEF PatchInv, PatchTypeOK
<1>2. q.page \in Pages /\ WriterOK(q, page)
  BY <1>1, Zenon DEF PatchInv, InsertName, InsertLink, SelectNames, Linked, PatchAt
<1>3. page \in Versions
  BY <1>2, Zenon DEF PatchInv, PatchTypeOK
<1>4. ASSUME NEW n \in q.todo, InsertName(w, n) PROVE PatchInv'
  <2> DEFINE r == [q EXCEPT !.todo = @ \ {n}, !.new = @ \cup ({n} \ names)]
  <2>1. /\ q.step = "names"
        /\ patch' = [patch EXCEPT ![w] = r] /\ UNCHANGED <<text, names, wanted>>
    BY <1>1, <1>4, Zenon DEF InsertName, PatchAt
  <2>2. r \in Patches
    BY <1>1, Zenon DEF Patches, Running
  <2>3. r.page = q.page /\ WriterOK(r, page)
    BY <1>1, <1>2, <1>3, <2>1, Zenon DEF Patches, Versions, WriterOK, Current, Running
  <2> HIDE DEF r
  <2> QED  BY <1>2, <2>1, <2>2, <2>3, OwnStep, Zenon
<1>5. CASE SelectNames(w)
  <2> DEFINE r == [q EXCEPT !.step = "link", !.todo = q.tags \cap (names \cup q.new)]
  <2>1. /\ q.step = "names" /\ q.todo = {}
        /\ patch' = [patch EXCEPT ![w] = r] /\ UNCHANGED <<text, names, wanted>>
    BY <1>1, <1>5, Zenon DEF SelectNames, PatchAt
  <2>2. q.tags \in SUBSET Names
    BY <1>1, <1>2, <2>1, Zenon DEF WriterOK, Patches
  <2>3. r \in Patches
    BY <1>1, <2>2, Zenon DEF Patches, Running
  <2>4. r.page = q.page /\ WriterOK(r, page)
    BY <1>1, <1>2, <1>3, <2>1 DEF Patches, Versions, WriterOK, Current, Running
  <2> HIDE DEF r
  <2> QED  BY <1>2, <2>1, <2>3, <2>4, OwnStep, Zenon
<1>6. ASSUME NEW n \in q.todo, InsertLink(w, n) PROVE PatchInv'
  <2> DEFINE r == [q EXCEPT !.todo = @ \ {n}, !.mine = @ \cup ({n} \ NameOf(page.links \ q.gone))]
  <2>1. /\ q.step = "link"
        /\ patch' = [patch EXCEPT ![w] = r] /\ UNCHANGED <<text, names, wanted>>
    BY <1>1, <1>6, Zenon DEF InsertLink, PatchAt, Page
  <2>2. r \in Patches
    BY <1>1, Zenon DEF Patches, Running
  <2>3. q.gone = page.links => NameOf(page.links \ q.gone) = {}
    BY Zenon DEF NameOf
  <2>4. /\ r.todo = q.todo \ {n} /\ r.mine = q.mine \cup ({n} \ NameOf(page.links \ q.gone))
        /\ r.step = q.step /\ r.page = q.page /\ r.tags = q.tags /\ r.sent = q.sent
        /\ r.read = q.read /\ r.gone = q.gone /\ r.new = q.new /\ r.clean = q.clean
    BY <1>1, Zenon DEF Patches
  <2> HIDE DEF r
  <2>5. q.tags # NoTags
    BY <1>2, <2>1, Zenon DEF WriterOK
  <2>6. ASSUME q.read = page.version PROVE Current(r, page)
    <3>1. Current(q, page)
      BY <1>2, <2>1, <2>6, Zenon DEF WriterOK, Running
    <3>2. q.gone = page.links /\ q.mine \cup q.todo = q.tags /\ q.tags \subseteq names \cup q.new
      BY <2>1, <2>5, <3>1, Zenon DEF Current
    <3>3. r.mine = q.mine \cup {n}
      BY <2>3, <2>4, <3>2, Zenon
    <3>4. r.mine \cup r.todo = r.tags
      BY <2>4, <3>2, <3>3, Zenon
    <3> QED  BY <2>1, <2>4, <3>2, <3>4, Zenon DEF Current
  <2>7. WriterOK(r, page)
    BY <1>2, <2>1, <2>4, <2>5, <2>6, Zenon DEF WriterOK, Running
  <2> QED  BY <1>2, <2>1, <2>2, <2>4, <2>7, OwnStep, Zenon
<1>7. CASE Linked(w)
  <2> DEFINE r == [q EXCEPT !.step = "commit"]
  <2>1. /\ q.step = "link" /\ q.todo = {}
        /\ patch' = [patch EXCEPT ![w] = r] /\ UNCHANGED <<text, names, wanted>>
    BY <1>1, <1>7, Zenon DEF Linked, PatchAt, PatchTo
  <2>2. r \in Patches
    BY <1>1, Zenon DEF Patches, Running
  <2>3. r.page = q.page /\ WriterOK(r, page)
    BY <1>1, <1>2, <1>3, <2>1 DEF Patches, Versions, WriterOK, Current, Running
  <2> HIDE DEF r
  <2> QED  BY <1>2, <2>1, <2>2, <2>3, OwnStep, Zenon
<1> QED  BY <1>4, <1>5, <1>6, <1>7, Zenon

(* Other transactions on the post of one that commits are left behind.     *)
LEMMA PersistOK ==
  ASSUME PatchInv, NEW w \in Writers, PatchAt(w, "commit"), Page(w).version = patch[w].read,
         Persist(w)
  PROVE  PatchInv'
<1> DEFINE q == patch[w]
           p == q.page
           v == text[p].version + 1
           new == (text[p].links \ q.gone) \cup (q.mine \X {v})
<1>1. patch \in [Writers -> Patches] /\ text \in [Pages -> Versions]
  BY Zenon DEF PatchInv, PatchTypeOK
<1>2. q \in Patches /\ q.step = "commit" /\ p \in Pages /\ WriterOK(q, text[p])
  BY <1>1, Zenon DEF PatchInv, PatchAt
<1>3. text[p] \in Versions /\ v \in Nat /\ v > text[p].version
  BY <1>1, <1>2 DEF Versions
<1>4. Current(q, text[p])
  BY <1>2, Zenon DEF WriterOK, Running, Page
<1>5. /\ q.tags = NoTags => new = text[p].links
      /\ q.tags # NoTags => new = q.tags \X {v} /\ q.tags \subseteq names \cup q.new
  BY <1>2, <1>4, Zenon DEF WriterOK, Current
<1>6. new \in SUBSET Links
  BY <1>2, <1>3, Zenon DEF Patches, Versions, Links
<1> HIDE DEF new
<1>7. /\ text'[p].version = v /\ text'[p].links = new /\ text'[p].state # "none"
      /\ text'[p] \in Versions
  <2>1. text' = [text EXCEPT ![p] = [text[p] EXCEPT !.version = v, !.links = new,
                                       !.state = IF @ = "none" THEN "shown" ELSE @]]
    BY <1>1, Zenon DEF Persist, new
  <2> QED  BY <1>1, <1>2, <1>3, <1>6, <2>1, Zenon DEF Versions
<1>8. \A s \in Pages \ {p} : text'[s] = text[s]
  BY <1>1, <1>2, Zenon DEF Persist
<1>9. /\ names' = names \cup q.new
      /\ wanted' = [wanted EXCEPT ![p] = IF q.tags = NoTags THEN @ ELSE q.tags]
  BY Zenon DEF Persist
<1>10. ASSUME NEW o \in Writers
       PROVE  /\ patch'[o] \in Patches
              /\ patch'[o].step # "idle" =>
                   patch'[o].page \in Pages /\ WriterOK(patch[o], text[patch[o].page])'
  <2>1. CASE o = w
    <3> DEFINE r == [q EXCEPT !.step = "committed", !.gone = {}, !.new = {}, !.mine = {}]
    <3>1. patch'[o] = r
      BY <2>1, Zenon DEF Persist, Ended
    <3>2. r \in Patches /\ r.page = p
      BY <1>2, Zenon DEF Patches
    <3>3. r.step = "committed" /\ r.sent = q.sent /\ r.clean = q.clean /\ r.gone = {} /\ r.mine = {}
      BY <1>2, Zenon DEF Patches
    <3>4. q.sent # 0 => q.clean
      BY <1>2, <1>3 DEF WriterOK, Running, Page, Patches, Versions
    <3> HIDE DEF r
    <3> QED  BY <1>2, <3>1, <3>2, <3>3, <3>4, Zenon DEF WriterOK, Running
  <2>2. CASE o # w /\ patch'[o] = patch[o] /\ patch[o].page # p
    <3>1. patch[o] \in Patches
      BY <1>1, Zenon
    <3> QED  BY <1>8, <1>9, <2>2, <3>1 DEF PatchInv, WriterOK, Current
  <2>3. CASE o # w /\ patch'[o] = patch[o] /\ patch[o].step = "committed"
    <3>1. patch[o] \in Patches
      BY <1>1, Zenon
    <3> QED  BY <2>3, <3>1, Zenon DEF PatchInv, WriterOK, Running
  <2>4. CASE o # w /\ patch[o].page = p /\ patch[o].step # "committed"
    <3> DEFINE r == [patch[o] EXCEPT !.clean = FALSE]
    <3>1. patch'[o] = r
      BY <2>4, Zenon DEF Persist, Rivals
    <3>2. patch[o] \in Patches
      BY <1>1, Zenon
    <3>3. /\ r \in Patches
          /\ r.step = patch[o].step /\ r.page = p /\ r.tags = patch[o].tags /\ r.sent = patch[o].sent
          /\ r.read = patch[o].read /\ r.gone = patch[o].gone /\ r.mine = patch[o].mine
      BY <2>4, <3>2, Zenon DEF Patches
    <3> HIDE DEF r
    <3>4. ASSUME r.step # "idle" PROVE WriterOK(patch[o], text[p])
      BY <2>4, <3>3, <3>4, Zenon DEF PatchInv
    <3>5. r.sent \in Nat /\ r.read \in Nat /\ text[p].version \in Nat
      BY <1>3, <3>2, <3>3, Zenon DEF Patches, Versions
    <3>6. ASSUME r.step # "idle" PROVE WriterOK(patch[o], text[patch[o].page])'
      <4>1. r.step \in Running /\ r.sent # 0 => r.sent < v
        BY <1>3, <3>3, <3>4, <3>5, <3>6 DEF WriterOK
      <4>2. r.step \in Running \ {"read"} => r.read < v /\ (r.sent # 0 => r.read = r.sent)
        BY <1>3, <3>3, <3>4, <3>5, <3>6 DEF WriterOK
      <4>3. /\ r.step \in {"links", "unlink", "names", "link"} => r.tags # NoTags
            /\ r.step \in {"read", "find", "links", "unlink"} \/ r.tags = NoTags => r.gone = {} /\ r.mine = {}
            /\ r.step = "names" => r.mine = {}
        BY <3>3, <3>4, <3>6, Zenon DEF WriterOK
      <4>4. r.step # "committed"
        BY <2>4, <3>3, Zenon
      <4> QED  BY <1>3, <1>7, <3>1, <3>3, <3>5, <4>1, <4>2, <4>3, <4>4 DEF WriterOK
    <3> QED  BY <1>2, <3>1, <3>3, <3>6, Zenon
  <2>5. o # w => patch'[o] = IF o \in Rivals(w) /\ patch[o].step # "committed"
                             THEN [patch[o] EXCEPT !.clean = FALSE] ELSE patch[o]
    BY Zenon DEF Persist
  <2> QED  BY <2>1, <2>2, <2>3, <2>4, <2>5, Zenon DEF Rivals
<1>11. PatchTypeOK'
  <2>1. text' \in [Pages -> Versions]
    <3>1. DOMAIN text' = Pages /\ text' = [s \in DOMAIN text' |-> text'[s]]
      BY <1>1, Zenon DEF Persist
    <3>2. \A s \in Pages : text'[s] \in Versions
      BY <1>1, <1>7, <1>8, Zenon
    <3> QED  BY <3>1, <3>2, Zenon
  <2>2. patch' \in [Writers -> Patches]
    <3>1. DOMAIN patch' = Writers /\ patch' = [o \in DOMAIN patch' |-> patch'[o]]
      BY Zenon DEF Persist
    <3> QED  BY <1>10, <3>1, Zenon
  <2>3. names' \subseteq Names
    BY <1>2, <1>9, Zenon DEF PatchInv, PatchTypeOK, Patches
  <2>4. wanted' \in [Pages -> SUBSET Names]
    BY <1>2, <1>9, Zenon DEF PatchInv, PatchTypeOK, Patches
  <2> QED  BY <2>1, <2>2, <2>3, <2>4, Zenon DEF PatchTypeOK
<1>12. ASSUME NEW s \in Pages PROVE PageOK(s)'
  <2>1. CASE s = p /\ q.tags = NoTags
    BY <1>1, <1>2, <1>5, <1>7, <1>9, <2>1, Zenon DEF PatchInv, PatchTypeOK, PageOK
  <2>2. CASE s = p /\ q.tags # NoTags
    <3>1. wanted'[p] = q.tags
      BY <1>2, <1>9, <2>2, Zenon DEF PatchInv, PatchTypeOK
    <3>2. NameOf(new) = q.tags
      BY <1>5, <2>2, NamesOfRows, Zenon
    <3> QED  BY <1>5, <1>7, <1>9, <2>2, <3>1, <3>2, Zenon DEF PageOK
  <2>3. CASE s # p
    BY <1>8, <1>9, <2>3, Zenon DEF PatchInv, PatchTypeOK, PageOK
  <2> QED  BY <2>1, <2>2, <2>3, Zenon
<1> QED  BY <1>10, <1>11, <1>12, Zenon DEF PatchInv

-----------------------------------------------------------------------------
LEMMA HidePostOK ==
  ASSUME PatchInv, NEW p \in Pages, NEW state \in {"shown", "blinded", "deleted"}, HidePost(p, state)
  PROVE  PatchInv'
<1>1. text \in [Pages -> Versions] /\ UNCHANGED <<names, patch, wanted>>
  BY Zenon DEF PatchInv, PatchTypeOK, HidePost
<1>2. text' = [text EXCEPT ![p] = [text[p] EXCEPT !.state = state]]
  BY <1>1, Zenon DEF HidePost
<1>3. \A s \in Pages : /\ text'[s] \in Versions
                       /\ text'[s].version = text[s].version /\ text'[s].links = text[s].links
                       /\ text'[s].state = "none" => text[s].state = "none"
  BY <1>1, <1>2, Zenon DEF Versions
<1>4. PatchTypeOK'
  BY <1>1, <1>2, <1>3, Zenon DEF PatchInv, PatchTypeOK
<1>5. \A s \in Pages : PageOK(s)'
  BY <1>1, <1>3, Zenon DEF PatchInv, PageOK
<1>6. ASSUME NEW w \in Writers, patch[w].step # "idle"
      PROVE  patch[w].page \in Pages /\ WriterOK(patch[w], text[patch[w].page])'
  <2>1. patch[w].page \in Pages /\ WriterOK(patch[w], text[patch[w].page])
    BY <1>6, Zenon DEF PatchInv
  <2> QED  BY <1>1, <1>3, <2>1, Zenon DEF WriterOK, Current
<1> QED  BY <1>1, <1>4, <1>5, <1>6, Zenon DEF PatchInv

LEMMA StepOK == PatchInv /\ [PatchNext]_patchVars => PatchInv'
<1> SUFFICES ASSUME PatchInv, [PatchNext]_patchVars PROVE PatchInv'
  OBVIOUS
<1>1. CASE UNCHANGED patchVars
  BY <1>1 DEF patchVars, PatchInv, PatchTypeOK, PageOK, WriterOK, Current
<1>2. ASSUME NEW w \in Writers, CommitPatch(w) PROVE PatchInv'
  <2>1. CASE Page(w).version = patch[w].read
    BY <1>2, <2>1, PersistOK, Zenon DEF CommitPatch
  <2>2. CASE Page(w).version # patch[w].read
    <3>1. ~PatchAt(w, "idle")
      BY <1>2, Zenon DEF CommitPatch, PatchAt
    <3> QED  BY <1>2, <2>2, <3>1, RefuseOK, Zenon DEF CommitPatch
  <2> QED  BY <2>1, <2>2, Zenon
<1>3. ASSUME NEW w \in Writers, RollBackPatch(w) PROVE PatchInv'
  BY <1>3, RefuseOK, Zenon DEF RollBackPatch, PatchAt
<1> QED
  BY <1>1, <1>2, <1>3, RequestOK, ReadingOK, InsertingOK, HidePostOK, Zenon DEF PatchNext

(* However the statements of concurrent edits interleave, a post keeps     *)
(* exactly the hashtags of its last edit that gave any, and an edit that   *)
(* names a version is never committed over one its client has not seen.    *)
THEOREM EditsDoNotMixHolds == PatchSpec => []EditsDoNotMix
<1>1. PatchInv => EditsDoNotMix
  <2> SUFFICES ASSUME PatchInv PROVE EditsDoNotMix
    OBVIOUS
  <2>1. \A p \in Pages : NameOf(text[p].links) = wanted[p] /\ wanted[p] \subseteq names
    BY Zenon DEF PatchInv, PageOK
  <2>2. \A w \in Writers : PatchAt(w, "committed") /\ patch[w].sent # 0 => patch[w].clean
    BY Zenon DEF PatchInv, WriterOK, PatchAt
  <2> QED  BY <2>1, <2>2, Zenon DEF EditsDoNotMix
<1> QED  BY <1>1, InitOK, StepOK, PTL DEF PatchSpec
=============================================================================
