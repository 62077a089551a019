----------------------------- MODULE MediaProofs -----------------------------
(***************************************************************************)
(* Proofs about Media and MediaCleanup for any number of requests,         *)
(* accounts, keys, images, sweepers and faults.                            *)
(***************************************************************************)
EXTENDS MediaCleanup, TLAPS

----------------------------------------------------------------------------
(* Requests.                                                                *)

(* Where a confirm has an object of its own that no client knows yet. *)
Making == {"unpend", "insert", "token", "undoRow"}

(* Where a request names an image, and where it names a pending key. *)
Naming == Making \cup {"undo", "del", "claim"}
Reading == {"promote", "copy", "unpend"}
Signing == {"del", "claim"}

RequestsOK ==
  /\ req \in [Clients -> Requests]
  /\ \A c \in Clients : /\ req[c].img # NULL <=> req[c].step \in Naming
                        /\ req[c].step \in Reading => req[c].key # NULL
                        /\ req[c].step \in Signing => req[c].user # NULL

(* NULL is no user, key or image. *)
LEMMA NullFacts == NULL \notin Users /\ NULL \notin Keys /\ NULL \notin Images
BY MediaAssumption, Zenon

(* The steps of a request. *)
LEMMA StepFacts ==
  /\ "idle" \notin Naming \cup Reading \cup Signing /\ "idle" \in Steps \cup {"idle"}
  /\ Naming \cup Reading \subseteq Steps \cup {"idle"}
  /\ Signing \subseteq Naming \ Reading /\ Signing \cap Making = {}
  /\ Making \subseteq Naming \ Signing
  /\ {"promote", "copy"} \subseteq Reading \ Naming
  /\ "unpend" \in Reading \cap Making
  /\ {"insert", "token", "undoRow"} \subseteq Making \ Reading
  /\ {"undo", "del", "claim"} \subseteq (Naming \ Making) \ Reading
  /\ "undo" \notin Signing /\ {"del", "claim"} \subseteq Signing
BY Zenon DEF Naming, Making, Reading, Signing, Steps

(* A client between two requests. *)
LEMMA IdleFields ==
  /\ Idle \in Requests
  /\ Idle.step = "idle" /\ Idle.key = NULL /\ Idle.img = NULL /\ Idle.user = NULL
  /\ Idle.valid = TRUE
BY Zenon DEF Idle, Requests

(* The fields of a request have their types, and those its step needs are there. *)
LEMMA RequestFields ==
  ASSUME RequestsOK, NEW c \in Clients
  PROVE  /\ req[c] \in Requests
         /\ req[c].step \in Steps \cup {"idle"} /\ req[c].valid \in BOOLEAN
         /\ req[c].key \in Keys \cup {NULL} /\ req[c].img \in Images \cup {NULL}
         /\ req[c].user \in Users \cup {NULL}
         /\ req[c].step \in Naming => req[c].img \in Images
         /\ req[c].step \notin Naming => req[c].img = NULL
         /\ req[c].step \in Reading => req[c].key \in Keys
         /\ req[c].step \in Signing => req[c].user \in Users
<1>1. req[c] \in Requests
  BY Zenon DEF RequestsOK
<1>2. /\ req[c].step \in Steps \cup {"idle"} /\ req[c].valid \in BOOLEAN
      /\ req[c].key \in Keys \cup {NULL} /\ req[c].img \in Images \cup {NULL}
      /\ req[c].user \in Users \cup {NULL}
  BY <1>1, Zenon DEF Requests
<1> QED
  BY <1>1, <1>2, Zenon DEF RequestsOK

(* One client has a new request, the others keep theirs. *)
Becomes(c, r) ==
  /\ req' \in [Clients -> Requests]
  /\ req'[c] = r
  /\ \A d \in Clients \ {c} : req'[d] = req[d]

(* One client is given a new request. *)
LEMMA BecomesIntro ==
  ASSUME RequestsOK, NEW c \in Clients, NEW r \in Requests, req' = [req EXCEPT ![c] = r]
  PROVE  Becomes(c, r)
BY Zenon DEF RequestsOK, Becomes

(* A request that is as its step needs keeps the requests so. *)
LEMMA BecomesKeeps ==
  ASSUME RequestsOK, NEW c \in Clients, Becomes(c, req'[c]),
         req'[c].img # NULL <=> req'[c].step \in Naming,
         req'[c].step \in Reading => req'[c].key # NULL,
         req'[c].step \in Signing => req'[c].user # NULL
  PROVE  RequestsOK'
BY Zenon DEF RequestsOK, Becomes

(* A request ends. *)
LEMMA DoneEffect ==
  ASSUME RequestsOK, NEW c \in Clients, Done(c)
  PROVE  /\ Becomes(c, req'[c]) /\ RequestsOK'
         /\ req'[c].step = "idle" /\ req'[c].img = NULL /\ req'[c].user = NULL
<1>1. Becomes(c, Idle)
  BY IdleFields, BecomesIntro, Zenon DEF Done
<1>2. /\ Becomes(c, req'[c]) /\ req'[c].step = "idle"
      /\ req'[c].img = NULL /\ req'[c].user = NULL
  BY <1>1, IdleFields, Zenon DEF Becomes
<1> QED
  BY <1>2, StepFacts, BecomesKeeps, Zenon

(* A request goes to another step. *)
LEMMA GotoEffect ==
  ASSUME RequestsOK, NEW c \in Clients, NEW s \in Naming, Goto(c, s), req[c].step \in Naming,
         s \in Reading => req[c].step \in Reading,
         s \in Signing => req[c].step \in Signing
  PROVE  /\ Becomes(c, req'[c]) /\ RequestsOK'
         /\ req'[c].step = s /\ req'[c].img = req[c].img /\ req'[c].user = req[c].user
<1> DEFINE r == [req[c] EXCEPT !.step = s]
<1>1. req[c] \in Requests /\ s \in Steps \cup {"idle"}
  BY RequestFields, StepFacts, Zenon
<1>2. /\ r \in Requests /\ r.step = s /\ r.img = req[c].img
      /\ r.user = req[c].user /\ r.key = req[c].key
  BY <1>1, Zenon DEF Requests
<1>3. req' = [req EXCEPT ![c] = r]
  BY Zenon DEF Goto
<1>4. Becomes(c, r)
  BY <1>2, <1>3, BecomesIntro, Zenon
<1>5. /\ Becomes(c, req'[c]) /\ req'[c].step = s /\ req'[c].img = req[c].img
      /\ req'[c].user = req[c].user /\ req'[c].key = req[c].key
  BY <1>2, <1>4, Zenon DEF Becomes
<1>6. req[c].img # NULL /\ (s \in Reading => req[c].key # NULL)
      /\ (s \in Signing => req[c].user # NULL)
  BY Zenon DEF RequestsOK
<1> QED
  BY <1>5, <1>6, BecomesKeeps, Zenon

(* A confirm begins. *)
LEMMA ConfirmEffect ==
  ASSUME RequestsOK, NEW c \in Clients, NEW k \in Keys, NEW u \in Uploaders, Confirm(c, k, u)
  PROVE  /\ Becomes(c, req'[c]) /\ RequestsOK'
         /\ req[c].step = "idle" /\ req'[c].step = "promote" /\ req'[c].img = NULL
<1> DEFINE r == [Idle EXCEPT !.step = "promote", !.key = k, !.user = u]
<1>1. "promote" \in Steps /\ u \in Users \cup {NULL} /\ k # NULL
  BY NullFacts, Zenon DEF Steps, Uploaders
<1>2. r \in Requests /\ r.step = "promote" /\ r.key = k /\ r.img = Idle.img
  BY <1>1, IdleFields, Zenon DEF Requests
<1>3. Becomes(c, r)
  BY <1>2, BecomesIntro, Zenon DEF Confirm
<1>4. /\ Becomes(c, req'[c]) /\ req'[c].step = "promote" /\ req'[c].key # NULL
      /\ req'[c].img = NULL
  BY <1>1, <1>2, <1>3, IdleFields, Zenon DEF Becomes
<1> QED
  BY <1>4, StepFacts, BecomesKeeps, Zenon DEF Confirm, At

(* The HEAD before the copy. *)
LEMMA PromoteHeadEffect ==
  ASSUME RequestsOK, NEW c \in Clients, PromoteHead(c)
  PROVE  /\ Becomes(c, req'[c]) /\ RequestsOK'
         /\ req[c].step = "promote" /\ req'[c].step \in {"idle", "copy"} /\ req'[c].img = NULL
<1> DEFINE found == pending[req[c].key]
<1> DEFINE r == [req[c] EXCEPT !.step = "copy", !.valid = (found = "valid")]
<1>0. req[c].step = "promote" /\ req[c].img = NULL /\ req[c].key \in Keys /\ req[c] \in Requests
  BY RequestFields, StepFacts DEF PromoteHead, At
<1>1. CASE Done(c)
  BY <1>0, <1>1, DoneEffect, Zenon
<1>2. CASE req' = [req EXCEPT ![c].step = "copy", ![c].valid = (found = "valid")]
  <2>1. "copy" \in Steps /\ (found = "valid") \in BOOLEAN
    BY Zenon DEF Steps
  <2>2. r \in Requests /\ r.step = "copy" /\ r.key = req[c].key /\ r.img = req[c].img
    BY <1>0, <2>1, Zenon DEF Requests
  <2>3. req' = [req EXCEPT ![c] = r]
    BY <1>2, Zenon
  <2>4. Becomes(c, r)
    BY <2>2, <2>3, BecomesIntro, Zenon
  <2>5. /\ Becomes(c, req'[c]) /\ req'[c].step = "copy" /\ req'[c].img = NULL
        /\ req'[c].key = req[c].key
    BY <1>0, <2>2, <2>4, Zenon DEF Becomes
  <2> QED
    BY <1>0, <2>5, StepFacts, NullFacts, BecomesKeeps, Zenon
<1> QED
  BY <1>1, <1>2, Zenon DEF PromoteHead

(* The copy names the object it made. *)
LEMMA CopyEffect ==
  ASSUME RequestsOK, NEW c \in Clients, Copy(c), promoted + 1 \in Images
  PROVE  /\ Becomes(c, req'[c]) /\ RequestsOK' /\ req[c].step = "copy"
         /\ \/ /\ req'[c].step = "idle" /\ req'[c].img = NULL
               /\ UNCHANGED <<object, promoted>>
            \/ /\ req'[c].step = "unpend" /\ req'[c].img = promoted + 1
               /\ promoted' = promoted + 1 /\ object' = object \cup {promoted + 1}
<1>0. req[c].step = "copy" /\ req[c].key \in Keys /\ req[c] \in Requests
  BY RequestFields, StepFacts, Zenon DEF Copy, At
<1>1. CASE pending[req[c].key] = "none"
  BY <1>0, <1>1, DoneEffect, Zenon DEF Copy
<1>2. CASE pending[req[c].key] # "none"
  <2> DEFINE r == [req[c] EXCEPT !.step = "unpend", !.img = promoted + 1]
  <2>1. "unpend" \in Steps
    BY Zenon DEF Steps
  <2>2. r \in Requests /\ r.step = "unpend" /\ r.key = req[c].key /\ r.img = promoted + 1
    BY <1>0, <2>1, Zenon DEF Requests
  <2>3. /\ req' = [req EXCEPT ![c] = r]
        /\ promoted' = promoted + 1 /\ object' = object \cup {promoted + 1}
    BY <1>2, Zenon DEF Copy
  <2>4. Becomes(c, r)
    BY <2>2, <2>3, BecomesIntro, Zenon
  <2>5. /\ Becomes(c, req'[c]) /\ req'[c].step = "unpend" /\ req'[c].img = promoted + 1
        /\ req'[c].key = req[c].key
    BY <2>2, <2>4, Zenon DEF Becomes
  <2> QED
    BY <1>0, <2>3, <2>5, StepFacts, NullFacts, BecomesKeeps, Zenon
<1> QED
  BY <1>1, <1>2, Zenon

(* delete_image goes on to delete the object. *)
LEMMA DeleteImageEffect ==
  ASSUME RequestsOK, NEW c \in Clients, NEW i \in Images, DeleteImage(c, i)
  PROVE  /\ Becomes(c, req'[c]) /\ RequestsOK'
         /\ req[c].step = "idle" /\ req'[c].step = "undo" /\ req'[c].img = i
<1> DEFINE r == [Idle EXCEPT !.step = "undo", !.img = i]
<1>1. "undo" \in Steps
  BY Zenon DEF Steps
<1>2. r \in Requests /\ r.step = "undo" /\ r.img = i
  BY <1>1, IdleFields, Zenon DEF Requests
<1>3. Becomes(c, r)
  BY <1>2, BecomesIntro, Zenon DEF DeleteImage
<1>4. Becomes(c, req'[c]) /\ req'[c].step = "undo" /\ req'[c].img = i
  BY <1>2, <1>3, Zenon DEF Becomes
<1> QED
  BY <1>4, StepFacts, NullFacts, BecomesKeeps, Zenon DEF DeleteImage, At

(* A signup names the image of its token. *)
LEMMA SignupEffect ==
  ASSUME RequestsOK, NEW c \in Clients, NEW i \in Images, NEW u \in NewUsers, Signup(c, u, i)
  PROVE  /\ Becomes(c, req'[c]) /\ RequestsOK'
         /\ req[c].step = "idle" /\ req'[c].step = "del" /\ req'[c].img = i
<1> DEFINE r == [Idle EXCEPT !.step = "del", !.img = i, !.user = u]
<1>1. "del" \in Steps /\ u \in Users
  BY Zenon DEF Steps, Users
<1>2. r \in Requests /\ r.step = "del" /\ r.img = i /\ r.user = u
  BY <1>1, IdleFields, Zenon DEF Requests
<1>3. Becomes(c, r)
  BY <1>2, BecomesIntro, Zenon DEF Signup
<1>4. Becomes(c, req'[c]) /\ req'[c].step = "del" /\ req'[c].img = i /\ req'[c].user = u
  BY <1>2, <1>3, Zenon DEF Becomes
<1> QED
  BY <1>1, <1>4, StepFacts, NullFacts, BecomesKeeps, Zenon DEF Signup, At

(* A request is given up: nothing but the fault is left of this step. *)
Abandon(c) ==
  /\ Done(c)
  /\ faults' = faults + 1 /\ faults <= MaxFaults
  /\ UNCHANGED <<bucketVars, rowsVars, peopleVars, sweepVars>>

(* What a request, a member or the clock does. *)
RequestCases ==
  \/ \E k \in Keys, content \in {"valid", "invalid"} : Upload(k, content)
  \/ \E c \in Clients, k \in Keys, u \in Uploaders : Confirm(c, k, u)
  \/ \E c \in Clients :
       \/ PromoteHead(c) \/ Copy(c) \/ Unpend(c) \/ Insert(c) \/ IssueToken(c)
       \/ IssueTokenFails(c) \/ \E lost \in BOOLEAN : InsertFails(c, lost)
       \/ UndoRow(c) \/ DeleteObject(c) \/ DeleteToken(c) \/ Claim(c)
  \/ \E c \in Clients, i \in Images : DeleteImage(c, i) \/ \E u \in NewUsers : Signup(c, u, i)
  \/ \E i \in Images : Grow(i) \/ ExpireToken(i)
  \/ \E i \in Images, h \in Holders : Attach(i, h) \/ Release(i, h)
  \/ \E u \in Leavers : Withdraw(u) \/ Purge(u)

----------------------------------------------------------------------------
(* Sweeps.                                                                  *)

SweepsOK ==
  /\ jobLock \in [Jobs -> Instances \cup {NULL}]
  /\ sweep \in [Sweepers -> Sweeps]
  /\ selected \subseteq Images
  /\ \A w \in Sweepers : sweep[w].step = "delete" => sweep[w].todo # {}

(* The images a sweeper has on its list. *)
Listed(w) == sweep[w].todo \cup sweep[w].gone

(* A sweeper is where it has no list, the others do nothing. *)
Drops(w) ==
  /\ sweep' \in [Sweepers -> Sweeps]
  /\ sweep'[w].todo = {} /\ sweep'[w].gone = {} /\ sweep'[w].step # "delete"
  /\ \A v \in Sweepers \ {w} : sweep'[v] = sweep[v]

(* A sweeper's fields have their types. *)
LEMMA SweepFields ==
  ASSUME SweepsOK, NEW w \in Sweepers
  PROVE  /\ sweep[w] \in Sweeps /\ sweep[w].job \in Jobs
         /\ sweep[w].cursor \in 0..MaxImages /\ sweep[w].todo \subseteq Images
         /\ sweep[w].gone \subseteq Images /\ sweep[w].full \in BOOLEAN
BY Zenon DEF SweepsOK, Sweeps

(* Between two runs. *)
LEMMA AsleepFields ==
  ASSUME NEW w \in Sweepers
  PROVE  /\ Asleep(w) \in Sweeps
         /\ Asleep(w).step = "lock" /\ Asleep(w).todo = {} /\ Asleep(w).gone = {}
<1>1. FirstJob(w) \in Jobs /\ 0 \in 0..MaxImages
  BY MediaAssumption DEF FirstJob, Jobs
<1> QED
  BY <1>1, Zenon DEF Asleep, Sweeps

(* The end of a batch, or of the lock step. *)
LEMMA SweepToEffect ==
  ASSUME SweepsOK, NEW w \in Sweepers, NEW s \in {"fetch", "release"}, SweepTo(w, s)
  PROVE  Drops(w) /\ sweep'[w].step = s /\ sweep'[w].job = sweep[w].job
<1> DEFINE k == IF s = "fetch" THEN sweep[w].cursor ELSE 0
<1> DEFINE r == [Asleep(w) EXCEPT !.step = s, !.job = sweep[w].job, !.cursor = k]
<1>1. k \in 0..MaxImages /\ sweep[w].job \in Jobs
  BY SweepFields, MediaAssumption
<1> HIDE DEF k
<1>2. r \in Sweeps /\ r.step = s /\ r.todo = {} /\ r.gone = {} /\ r.job = sweep[w].job
  BY <1>1, AsleepFields, Zenon DEF Sweeps
<1>3. sweep' = [sweep EXCEPT ![w] = r]
  BY Zenon DEF SweepTo, k
<1> QED
  BY <1>2, <1>3, Zenon DEF Drops, SweepsOK

(* The steps of a sweeper after which it has no list; none of them removes *)
(* anything.                                                               *)
Pauses(w) ==
  /\ Drops(w)
  /\ jobLock' \in [Jobs -> Instances \cup {NULL}]
  /\ faults' = faults \/ (faults' = faults + 1 /\ faults < MaxFaults)
  /\ UNCHANGED <<bucketVars, rowsVars, peopleVars, req, selected>>

(* A sweeper lists a batch: images with a row that is not new, all of them *)
(* without reference or without uploader.                                  *)
Lists(w) ==
  /\ sweep' \in [Sweepers -> Sweeps]
  /\ sweep'[w].gone = {} /\ sweep'[w].todo # {}
  /\ \A i \in sweep'[w].todo : i \in Images /\ image[i] # NULL /\ image[i].age # "new"
  /\ selected' = selected \cup sweep'[w].todo
  /\ \A v \in Sweepers \ {w} : sweep'[v] = sweep[v]
  /\ UNCHANGED <<requestVars, jobLock>>

(* A sweeper takes image i off its list and perhaps deletes its object. *)
Removes(w, i) ==
  /\ i \in sweep[w].todo
  /\ sweep' \in [Sweepers -> Sweeps]
  /\ sweep'[w].todo = sweep[w].todo \ {i}
  /\ sweep'[w].step = "delete" => sweep'[w].todo # {}
  /\ \/ object' = object /\ sweep'[w].gone = sweep[w].gone
     \/ object' = object \ {i} /\ sweep'[w].gone = sweep[w].gone \cup {i}
  /\ \A v \in Sweepers \ {w} : sweep'[v] = sweep[v]
  /\ faults' = faults \/ (faults' = faults + 1 /\ faults < MaxFaults)
  /\ UNCHANGED <<pending, promoted, rowsVars, peopleVars, req, jobLock, selected>>

(* A step, by what it does. *)
AnyStep ==
  \/ RequestCases /\ UNCHANGED sweepVars
  \/ \E c \in Clients : Abandon(c)
  \/ \E w \in Sweepers : \/ Lists(w) \/ Pauses(w) \/ DeleteRows(w)
                         \/ \E i \in Images : Removes(w, i)
  \/ \E j \in Jobs : LockExpires(j)
  \/ UNCHANGED vars

----------------------------------------------------------------------------
(* Types, and what is done to a row.                                        *)

BucketOK ==
  /\ pending \in [Keys -> {"none", "valid", "invalid"}]
  /\ object \subseteq Images
  /\ promoted \in 0..MaxImages
  /\ faults \in 0..(MaxFaults + 1)

RowsOK ==
  /\ image \in [Images -> Rows \cup {NULL}]
  /\ held \in [Images -> SUBSET Holders]
  /\ \A i \in Images : held[i] # {} => image[i] # NULL

PeopleOK ==
  /\ token \subseteq Images
  /\ account \in [Users -> {"none", "active", "withdrawn", "purged"}]
  /\ known \subseteq Images
  /\ claims \in [Images -> Nat]

(* Each promotion that has begun finds room among the images. *)
Promoting == {c \in Clients : req[c].step \in {"promote", "copy"}}
RoomLeft == IsFiniteSet(Promoting) /\ promoted + Cardinality(Promoting) <= MaxImages

Types == BucketOK /\ RowsOK /\ PeopleOK /\ RequestsOK /\ SweepsOK /\ RoomLeft

(* A row that create_image or create_temp_image makes. *)
LEMMA NewRowFields ==
  ASSUME NEW u \in Users \cup {NULL}
  PROVE  NewRow(u) \in Rows /\ NewRow(u) # NULL /\ NewRow(u).uploader = u /\ NewRow(u).age = "new"
BY RowAssumption DEF NewRow, Rows, Ages

(* A row with another uploader or age is a row, and no row is NULL. *)
LEMMA RowFields ==
  ASSUME NEW r \in Rows
  PROVE  /\ r # NULL /\ r.uploader \in Users \cup {NULL} /\ r.age \in Ages
         /\ \A u \in Users \cup {NULL} :
              /\ [r EXCEPT !.uploader = u] \in Rows
              /\ [r EXCEPT !.uploader = u].uploader = u /\ [r EXCEPT !.uploader = u].age = r.age
         /\ \A a \in Ages :
              /\ [r EXCEPT !.age = a] \in Rows
              /\ [r EXCEPT !.age = a].uploader = r.uploader /\ [r EXCEPT !.age = a].age = a
BY RowAssumption, Zenon DEF Rows

(* An image that is there has a row. *)
LEMMA ImageFields ==
  ASSUME RowsOK, NEW i \in Images
  PROVE  /\ image[i] # NULL <=> image[i] \in Rows
         /\ held[i] \subseteq Holders /\ (held[i] # {} => image[i] # NULL)
BY RowAssumption, Zenon DEF RowsOK

(* What the steps do to the row of image i and to what refers to it. *)
Inserted(i, u) ==
  /\ image' = [image EXCEPT ![i] = NewRow(u)]
  /\ held' = held

Claimed(i, u) ==
  /\ image[i] # NULL /\ image[i].uploader = NULL
  /\ image' = [image EXCEPT ![i].uploader = u]
  /\ held' = [held EXCEPT ![i] = @ \cup {"profile"}]

Aged(i, a) ==
  /\ image[i] # NULL
  /\ image' = [image EXCEPT ![i].age = a]
  /\ held' = held

(* A row is inserted. *)
LEMMA InsertedRows ==
  ASSUME RowsOK, NEW i \in Images, NEW u \in Users \cup {NULL}, Inserted(i, u)
  PROVE  /\ RowsOK' /\ image'[i] # NULL /\ image'[i].uploader = u /\ image'[i].age = "new"
         /\ \A j \in Images \ {i} : image'[j] = image[j]
<1>1. /\ image'[i] = NewRow(u) /\ \A j \in Images \ {i} : image'[j] = image[j]
      /\ image' \in [Images -> Rows \cup {NULL}]
  BY NewRowFields, Zenon DEF Inserted, RowsOK
<1> QED
  BY <1>1, NewRowFields, Zenon DEF Inserted, RowsOK

(* A signup's claim. *)
LEMMA ClaimedRows ==
  ASSUME RowsOK, NEW i \in Images, NEW u \in Users, Claimed(i, u)
  PROVE  /\ RowsOK' /\ image'[i] # NULL /\ image'[i].uploader = u /\ image'[i].age = image[i].age
         /\ \A j \in Images \ {i} : image'[j] = image[j] /\ held'[j] = held[j]
<1>1. image[i] \in Rows /\ "profile" \in Holders
  BY ImageFields, MediaAssumption, Zenon DEF Claimed
<1>2. /\ image'[i] = [image[i] EXCEPT !.uploader = u] /\ image' = [image EXCEPT ![i] = image'[i]]
      /\ held'[i] = held[i] \cup {"profile"}
      /\ \A j \in Images \ {i} : image'[j] = image[j] /\ held'[j] = held[j]
  BY Zenon DEF Claimed, RowsOK
<1>3. image'[i] \in Rows /\ image'[i].uploader = u /\ image'[i].age = image[i].age
  BY <1>1, <1>2, RowFields
<1>4. image' \in [Images -> Rows \cup {NULL}] /\ held' \in [Images -> SUBSET Holders]
  BY <1>1, <1>2, <1>3, Zenon DEF RowsOK, Claimed
<1> QED
  BY <1>2, <1>3, <1>4, RowFields, Zenon DEF RowsOK

(* Time passes. *)
LEMMA AgedRows ==
  ASSUME RowsOK, NEW i \in Images, NEW a \in Ages, Aged(i, a)
  PROVE  /\ RowsOK' /\ image'[i] # NULL /\ image'[i].uploader = image[i].uploader
         /\ image'[i].age = a /\ \A j \in Images \ {i} : image'[j] = image[j]
<1>1. image[i] \in Rows
  BY ImageFields, Zenon DEF Aged
<1>2. /\ image'[i] = [image[i] EXCEPT !.age = a] /\ image' = [image EXCEPT ![i] = image'[i]]
      /\ \A j \in Images \ {i} : image'[j] = image[j]
  BY Zenon DEF Aged, RowsOK
<1>3. image'[i] \in Rows /\ image'[i].uploader = image[i].uploader /\ image'[i].age = a
  BY <1>1, <1>2, RowFields
<1> QED
  BY <1>2, <1>3, RowFields, Zenon DEF Aged, RowsOK

(* Rows are deleted. *)
LEMMA DroppedRows ==
  ASSUME RowsOK, NEW gone, DropRows(gone)
  PROVE  /\ RowsOK'
         /\ \A i \in Images \cap gone : image'[i] = NULL /\ held'[i] = {}
         /\ \A i \in Images \ gone : image'[i] = image[i] /\ held'[i] = held[i]
BY Zenon DEF DropRows, RowsOK

(* An account is purged: only rows a day old change. *)
LEMMA PurgedRows ==
  ASSUME RowsOK, NEW u \in Users, Purge(u)
  PROVE  /\ RowsOK'
         /\ \A i \in Images :
              /\ held'[i] \subseteq held[i]
              /\ \/ image'[i] = image[i]
                 \/ /\ image[i] # NULL /\ image'[i] # NULL
                    /\ image[i].age = "day" /\ image'[i].age = "day"
<1>1. ASSUME NEW i \in Images
      PROVE  /\ image'[i] \in Rows \cup {NULL} /\ (image'[i] = NULL <=> image[i] = NULL)
             /\ \/ image'[i] = image[i]
                \/ /\ image[i] # NULL /\ image'[i] # NULL
                   /\ image[i].age = "day" /\ image'[i].age = "day"
  <2>1. CASE image[i] # NULL /\ image[i].uploader = u
    <3>1. image'[i] = [image[i] EXCEPT !.uploader = NULL] /\ image[i].age = "day"
      BY <2>1, Zenon DEF Purge
    <3>2. image[i] \in Rows
      BY <2>1, ImageFields, Zenon
    <3> QED
      BY <2>1, <3>1, <3>2, RowFields
  <2>2. CASE ~(image[i] # NULL /\ image[i].uploader = u)
    BY <2>2, Zenon DEF Purge, RowsOK
  <2> QED
    BY <2>1, <2>2, Zenon
<1>2. image' \in [Images -> Rows \cup {NULL}]
  BY <1>1, Zenon DEF Purge
<1>3. /\ held' \in [Images -> SUBSET Holders]
      /\ \A i \in Images : held'[i] \subseteq held[i]
  <2>1. PICK lost \in SUBSET Images :
          held' = [i \in Images |-> IF i \in lost THEN held[i] \ {"dog"} ELSE held[i]]
    BY Zenon DEF Purge
  <2> QED
    BY <2>1, Zenon DEF RowsOK
<1>4. \A i \in Images : held'[i] # {} => image'[i] # NULL
  BY <1>1, <1>3, Zenon DEF RowsOK
<1> QED
  BY <1>1, <1>2, <1>3, <1>4, Zenon DEF RowsOK

(* The transaction of a confirm commits. *)
LEMMA InsertEffect ==
  ASSUME RequestsOK, NEW c \in Clients, Insert(c)
  PROVE  /\ req[c].step = "insert" /\ req[c].img \in Images
         /\ req[c].user \in Users \cup {NULL} /\ Inserted(req[c].img, req[c].user)
         /\ Becomes(c, req'[c])
         /\ \/ known' = known /\ req'[c].step = "token" /\ req'[c].img = req[c].img
            \/ known' = known \cup {req[c].img} /\ req'[c].step = "idle" /\ req'[c].img = NULL
         /\ UNCHANGED <<bucketVars, token, account, claims, faults>>
<1>1. /\ req[c].step = "insert" /\ req[c].img \in Images
      /\ req[c].user \in Users \cup {NULL}
  BY RequestFields, StepFacts, Zenon DEF Insert, At
<1>2. CASE req[c].user = NULL
  BY <1>1, <1>2, GotoEffect, StepFacts DEF Insert, Inserted
<1>3. CASE req[c].user # NULL
  BY <1>1, <1>3, DoneEffect, Zenon DEF Insert, Inserted
<1> QED
  BY <1>2, <1>3, Zenon

(* It raises. *)
LEMMA InsertFailsEffect ==
  ASSUME RequestsOK, NEW c \in Clients, NEW lost \in BOOLEAN, InsertFails(c, lost)
  PROVE  /\ req[c].step = "insert" /\ req[c].img \in Images
         /\ req[c].user \in Users \cup {NULL}
         /\ Inserted(req[c].img, req[c].user) \/ UNCHANGED rowsVars
         /\ Becomes(c, req'[c]) /\ req'[c].img = req[c].img /\ req'[c].step \in {"undoRow", "undo"}
         /\ faults' = faults + 1
         /\ UNCHANGED <<bucketVars, peopleVars>>
<1>1. /\ req[c].step = "insert" /\ req[c].img \in Images
      /\ req[c].user \in Users \cup {NULL}
  BY RequestFields, StepFacts, Zenon DEF InsertFails, At
<1>2. Goto(c, "undoRow") \/ Goto(c, "undo")
  BY Zenon DEF InsertFails
<1>3. Becomes(c, req'[c]) /\ req'[c].img = req[c].img /\ req'[c].step \in {"undoRow", "undo"}
  BY <1>1, <1>2, GotoEffect, StepFacts
<1> QED
  BY <1>1, <1>3, Zenon DEF InsertFails, Inserted, Fault, rowsVars

(* The signup commits, or the claim finds the row gone or taken. *)
LEMMA ClaimEffect ==
  ASSUME RequestsOK, NEW c \in Clients, Claim(c)
  PROVE  /\ req[c].step = "claim" /\ req[c].img \in Images /\ req[c].user \in Users
         /\ Done(c)
         /\ \/ UNCHANGED <<rowsVars, account, claims>>
            \/ /\ Claimed(req[c].img, req[c].user)
               /\ claims' = [claims EXCEPT ![req[c].img] = @ + 1]
               /\ account' = [account EXCEPT ![req[c].user] = "active"]
         /\ UNCHANGED <<bucketVars, token, known, faults>>
<1>1. req[c].step = "claim" /\ req[c].img \in Images /\ req[c].user \in Users
  BY RequestFields, StepFacts, Zenon DEF Claim, Register, At
<1> QED
  BY <1>1, Zenon DEF Claim, Register, Claimed

(* The clock: a row becomes an hour old while at most signups name it, and a
   day old when nothing does. *)
LEMMA GrowEffect ==
  ASSUME NEW i \in Images, Grow(i)
  PROVE  /\ \/ /\ Aged(i, "hour") /\ image[i].age = "new"
               /\ \A c \in Clients : req[c].img = i => req[c].step \in Signing
            \/ /\ Aged(i, "day") /\ i \notin token
               /\ \A c \in Clients : req[c].img # i
         /\ UNCHANGED <<bucketVars, peopleVars, req, faults>>
<1> DEFINE busy == {req[c].step : c \in {d \in Clients : req[d].img = i}}
<1>1. \A c \in Clients : req[c].img = i => req[c].step \in busy
  OBVIOUS
<1>2. \/ Aged(i, "hour") /\ image[i].age = "new" /\ busy \subseteq Signing
      \/ Aged(i, "day") /\ i \notin token /\ busy = {}
  BY Zenon DEF Grow, Aged, Signing
<1> HIDE DEF busy
<1> QED
  BY <1>1, <1>2, Zenon DEF Grow

----------------------------------------------------------------------------
(* What the requests and the sweepers know of an image.                     *)

(* The step and the image of a request. *)
StepOf(c) == req[c].step
ImgOf(c) == req[c].img

(* The other requests stay where they are, and so do the lists of the sweepers. *)
Same(c) == StepOf(c)' = StepOf(c) /\ ImgOf(c)' = ImgOf(c)
Others(c) == \A d \in Clients \ {c} : Same(d)
ListsStay == \A w \in Sweepers : Listed(w)' = Listed(w)

(* An image is named where the step says so. *)
LEMMA ImgFields ==
  ASSUME RequestsOK, NEW c \in Clients
  PROVE  /\ ImgOf(c) \in Images \cup {NULL}
         /\ StepOf(c) \in Naming => ImgOf(c) \in Images
         /\ StepOf(c) \notin Naming => ImgOf(c) = NULL
BY RequestFields, Zenon DEF StepOf, ImgOf

(* Requests and lists that do not change. *)
LEMMA Stay ==
  /\ \A c \in Clients : Becomes(c, req'[c]) => Others(c)
  /\ req' = req => \A c \in Clients : Same(c)
  /\ UNCHANGED sweepVars => ListsStay
<1>1. ASSUME NEW c \in Clients, Becomes(c, req'[c]) PROVE Others(c)
  BY <1>1, Zenon DEF Becomes, Others, Same, StepOf, ImgOf
<1>2. ASSUME req' = req PROVE \A c \in Clients : Same(c)
  BY <1>2, Zenon DEF Same, StepOf, ImgOf
<1>3. ASSUME UNCHANGED sweepVars PROVE ListsStay
  BY <1>3, Zenon DEF ListsStay, Listed, sweepVars
<1> QED
  BY <1>1, <1>2, <1>3, Zenon

(* Only promotions number images. *)
Numbered ==
  /\ \A i \in object \cup known : i <= promoted
  /\ \A i \in Images : image[i] # NULL => i <= promoted
  /\ \A c \in Clients : ImgOf(c) # NULL => ImgOf(c) <= promoted
  /\ \A w \in Sweepers : \A i \in Listed(w) : i <= promoted

(* The image a confirm is making is its own: no response has returned it, no
   other request and no sweeper names it. *)
Private ==
  \A c \in Clients : StepOf(c) \in Making =>
    /\ ImgOf(c) \notin known
    /\ \A d \in Clients \ {c} : ImgOf(d) # ImgOf(c)
    /\ \A w \in Sweepers : ImgOf(c) \notin Listed(w)

(* How far a request has got. *)
Progress ==
  \A c \in Clients :
    LET s == StepOf(c)
        i == ImgOf(c)
    IN /\ s \in {"unpend", "insert"} => image[i] = NULL
       /\ s \in {"unpend", "insert", "token"} => i \in object
       /\ s = "token" => image[i] # NULL
       /\ s \in {"token", "undoRow"} /\ image[i] # NULL => image[i].age = "new"
       /\ s \in Signing => i \in known /\ (image[i] # NULL => image[i].age # "day")
       /\ s = "undo" => i \notin known \/ image[i] = NULL

(* A row a response returned has its file unless a job selected it, and only
   such rows are referred to. *)
Kept ==
  \A i \in Images :
    /\ i \in known /\ image[i] # NULL => i \in object \cup selected
    /\ held[i] # {} => i \in known

(* A live token names a row that a response returned and that is not a day old. *)
Tokens ==
  \A i \in token : i \in known /\ (image[i] # NULL => image[i].age # "day")

(* A claimed image has its uploader until that account is purged. *)
Claims ==
  \A i \in Images :
    \/ claims[i] = 0
    \/ /\ claims[i] = 1 /\ i \in known
       /\ image[i] # NULL /\ image[i].uploader = NULL => image[i].age = "day"

(* A sweeper has selected what it is about to delete, and the objects it has
   deleted are gone. *)
Swept ==
  \A w \in Sweepers : /\ sweep[w].todo \subseteq selected
                      /\ \A i \in sweep[w].gone : i \notin object

Facts == Numbered /\ Private /\ Progress /\ Kept /\ Tokens /\ Claims /\ Swept

(* Objects without a row that no confirm and no deletion has in hand. *)
Leaked ==
  {i \in object : image[i] = NULL
     /\ \A c \in Clients : ImgOf(c) = i => StepOf(c) \notin Making \cup {"undo"}}

(* Everything these facts speak of but the requests. *)
imageVars == <<object, promoted, image, held, token, known, claims>>

(* They hold at the start. *)
LEMMA FactsInit == Init => Facts
<1> SUFFICES ASSUME Init PROVE Facts
  OBVIOUS
<1> USE DEF Init, RequestInit
<1>1. \A c \in Clients : StepOf(c) = "idle" /\ ImgOf(c) = NULL
  BY IdleFields, Zenon DEF StepOf, ImgOf
<1>2. \A w \in Sweepers : sweep[w].todo = {} /\ sweep[w].gone = {}
  BY AsleepFields, Zenon
<1>3. Numbered
  BY <1>1, <1>2, Zenon DEF Numbered, Listed
<1>4. Private /\ Progress
  BY <1>1, StepFacts, Zenon DEF Private, Progress
<1>5. Kept /\ Tokens /\ Claims
  BY Zenon DEF Kept, Tokens, Claims
<1>6. Swept
  BY <1>2, Zenon DEF Swept
<1> QED
  BY <1>3, <1>4, <1>5, <1>6, Zenon DEF Facts

(* A request that ends, or has no image yet, disturbs none of them. *)
LEMMA RestFacts ==
  ASSUME Types, Facts, NEW c \in Clients, Becomes(c, req'[c]),
         ImgOf(c)' = NULL, StepOf(c)' \notin Naming, UNCHANGED <<imageVars, sweepVars>>
  PROVE  Facts' /\ Leaked' \subseteq Leaked \cup {ImgOf(c)}
<1> USE StepFacts DEF Others, Same, Facts, imageVars, sweepVars
<1>0. ListsStay
  BY Stay, Zenon
<1>1. Others(c)
  BY Stay, Zenon
<1>2. Numbered' /\ Kept' /\ Tokens' /\ Claims' /\ Swept'
  BY <1>0, <1>1 DEF Numbered, Kept, Tokens, Claims, Swept, ListsStay
<1>3. Private'
  BY <1>0, <1>1, NullFacts, ImgFields, SMTT(30) DEF Private, ListsStay, Types
<1>4. Progress'
  BY <1>1, ZenonT(30) DEF Progress
<1>5. Leaked' \subseteq Leaked \cup {ImgOf(c)}
  BY <1>1, Zenon DEF Leaked
<1> QED
  BY <1>2, <1>3, <1>4, <1>5, Zenon

(* A copy takes a number that nothing names yet. *)
LEMMA CopyFacts ==
  ASSUME Types, Facts, NEW c \in Clients, Copy(c), promoted + 1 \in Images, UNCHANGED sweepVars
  PROVE  Facts' /\ Leaked' \subseteq Leaked
<1> USE StepFacts DEF Others, Same, Facts, Types
<1>0. ListsStay
  BY Stay, Zenon
<1>1. promoted + 1 \in Images /\ StepOf(c) = "copy" /\ ImgOf(c) = NULL
  BY ImgFields, Zenon DEF Copy, At, StepOf, ImgOf
<1>2. UNCHANGED <<rowsVars, peopleVars>>
  BY Zenon DEF Copy
<1>3. CASE UNCHANGED <<object, promoted>>
  <2>1. Becomes(c, req'[c]) /\ ImgOf(c)' = NULL /\ StepOf(c)' = "idle"
    BY <1>1, <1>3, CopyEffect, MediaAssumption DEF BucketOK, StepOf, ImgOf
  <2>2. Facts' /\ Leaked' \subseteq Leaked \cup {ImgOf(c)}
    BY <1>2, <1>3, <2>1, RestFacts, Zenon DEF imageVars, rowsVars, peopleVars
  <2>3. NULL \notin Leaked'
    BY <1>3, NullFacts, Zenon DEF Leaked, BucketOK
  <2> QED
    BY <1>1, <2>2, <2>3, Zenon
<1>4. CASE /\ StepOf(c)' = "unpend" /\ ImgOf(c)' = promoted + 1
           /\ promoted' = promoted + 1 /\ object' = object \cup {promoted + 1}
  <2> DEFINE i == promoted + 1
  <2>1. Others(c)
    BY <1>1, CopyEffect, Stay, Zenon DEF StepOf, ImgOf
  <2>2. /\ i \notin object \cup known /\ image[i] = NULL
        /\ \A d \in Clients : ImgOf(d) # i
        /\ \A w \in Sweepers : i \notin Listed(w)
    BY <1>1, NullFacts DEF Numbered, BucketOK
  <2>3. /\ image' = image /\ held' = held /\ token' = token /\ known' = known
        /\ claims' = claims /\ sweep' = sweep /\ selected' = selected
    BY <1>2, Zenon DEF rowsVars, peopleVars, sweepVars
  <2>4. Numbered'
    <3>1. \A j \in Images : j <= promoted => j <= promoted'
      BY <1>4, MediaAssumption DEF BucketOK, Images
    <3>2. \A w \in Sweepers : Listed(w)' = Listed(w) /\ Listed(w) \subseteq Images
      BY <1>0, SweepFields, Zenon DEF ListsStay, Listed
    <3>3. \A d \in Clients : ImgOf(d) \in Images \cup {NULL}
      BY ImgFields, Zenon
    <3>4. i <= promoted'
      BY <1>4 DEF BucketOK
    <3> QED
      BY <1>4, <2>1, <2>3, <3>1, <3>2, <3>3, <3>4, Zenon DEF Numbered, BucketOK, PeopleOK
  <2> HIDE DEF i
  <2>5. Private'
    BY <1>0, <1>4, <2>1, <2>2, <2>3, SMTT(30) DEF Private, ListsStay, i
  <2>6. Progress'
    BY <1>4, <2>1, <2>2, <2>3, Zenon DEF Progress, i
  <2>7. Kept' /\ Tokens' /\ Claims'
    BY <1>4, <2>3, Zenon DEF Kept, Tokens, Claims
  <2>8. Swept'
    BY <1>4, <2>2, <2>3, Zenon DEF Swept, Listed, i
  <2>9. Leaked' \subseteq Leaked
    BY <1>1, <1>4, <2>1, <2>3, Zenon DEF Leaked
  <2> QED
    BY <2>4, <2>5, <2>6, <2>7, <2>8, <2>9, Zenon
<1> QED
  BY <1>1, <1>3, <1>4, CopyEffect, Zenon DEF StepOf, ImgOf

(* The pending object is deleted. *)
LEMMA UnpendFacts ==
  ASSUME Types, Facts, NEW c \in Clients, Unpend(c), UNCHANGED sweepVars
  PROVE  Facts' /\ Leaked' \subseteq Leaked
<1> USE StepFacts DEF Others, Same, Facts, Types
<1>0. ListsStay
  BY Stay, Zenon
<1>1. StepOf(c) = "unpend" /\ ImgOf(c) \in Images
  BY ImgFields, Zenon DEF Unpend, At, StepOf, ImgOf
<1>2. UNCHANGED <<imageVars, sweepVars>>
  BY Zenon DEF Unpend, imageVars, rowsVars, peopleVars
<1>3. /\ Others(c)
      /\ StepOf(c)' \in {"insert", "undo"} /\ ImgOf(c)' = ImgOf(c)
  BY <1>1, GotoEffect, Stay DEF Unpend, StepOf, ImgOf
<1> USE DEF imageVars, sweepVars
<1>4. Numbered' /\ Kept' /\ Tokens' /\ Claims' /\ Swept'
  BY <1>0, <1>2, <1>3 DEF Numbered, Kept, Tokens, Claims, Swept, ListsStay
<1>5. Private' /\ Progress'
  BY <1>0, <1>1, <1>2, <1>3 DEF Private, Progress, ListsStay
<1>6. Leaked' \subseteq Leaked
  BY <1>1, <1>2, <1>3, Zenon DEF Leaked
<1> QED
  BY <1>4, <1>5, <1>6, Zenon

(* The row of an image that is being made appears: the facts that speak of
   rows, when the client that makes it is not at one of its steps any more or
   is at one that has a row. *)
LEMMA InsertedFacts ==
  ASSUME Types, Facts, NEW c \in Clients, StepOf(c) = "insert",
         RowsOK', image'[ImgOf(c)] # NULL, image'[ImgOf(c)].age = "new",
         \A j \in Images \ {ImgOf(c)} : image'[j] = image[j],
         Others(c),
         \/ known' = known /\ StepOf(c)' \in {"token", "undoRow"} /\ ImgOf(c)' = ImgOf(c)
         \/ known' = known /\ StepOf(c)' = "undo" /\ ImgOf(c)' = ImgOf(c)
         \/ known' = known \cup {ImgOf(c)} /\ StepOf(c)' = "idle" /\ ImgOf(c)' = NULL,
         UNCHANGED <<object, promoted, held, token, claims, sweepVars>>
  PROVE  Facts' /\ Leaked' \subseteq Leaked
<1> USE StepFacts, NullFacts DEF Others, Same, Facts, Types, sweepVars
<1> DEFINE i == ImgOf(c)
<1>0. ListsStay
  BY Stay, Zenon
<1>1. /\ i \in Images /\ i \in object /\ i \notin known /\ image[i] = NULL /\ i <= promoted
      /\ \A d \in Clients \ {c} : ImgOf(d) # i
      /\ \A w \in Sweepers : i \notin Listed(w)
  BY ImgFields, Zenon DEF Private, Progress, Numbered
<1>2. Numbered'
  BY <1>0, <1>1 DEF Numbered, ListsStay
<1>3. Private'
  BY <1>0, <1>1, ImgFields DEF Private, ListsStay
<1>4. ASSUME NEW d \in Clients \ {c}
      PROVE  /\ Same(d)
             /\ ImgOf(d) \in Images => /\ image'[ImgOf(d)] = image[ImgOf(d)]
                                         /\ ImgOf(d) \in known' <=> ImgOf(d) \in known
  BY <1>1, Zenon
<1>5. Progress'
  <2>1. ASSUME NEW d \in Clients \ {c} PROVE StepOf(d) \in Naming => ImgOf(d) \in Images
    BY ImgFields, Zenon
  <2> QED
    BY <1>1, <1>4, <2>1 DEF Progress
<1>6. Kept' /\ Tokens'
  BY <1>1, Zenon DEF Kept, Tokens, PeopleOK
<1>7. Claims'
  BY <1>1 DEF Claims, PeopleOK
<1>8. Swept'
  BY Zenon DEF Swept
<1>9. Leaked' \subseteq Leaked
  BY <1>1 DEF Leaked, BucketOK
<1> QED
  BY <1>2, <1>3, <1>5, <1>6, <1>7, <1>8, <1>9, Zenon

(* The transaction of a confirm commits. *)
LEMMA InsertFacts ==
  ASSUME Types, Facts, NEW c \in Clients, Insert(c), UNCHANGED sweepVars
  PROVE  Facts' /\ Leaked' \subseteq Leaked
<1> USE DEF Others, Same
<1>1. /\ StepOf(c) = "insert" /\ ImgOf(c) \in Images /\ req[c].user \in Users \cup {NULL}
      /\ Inserted(ImgOf(c), req[c].user)
  BY InsertEffect, Zenon DEF Types, StepOf, ImgOf
<1>2. /\ RowsOK' /\ image'[ImgOf(c)] # NULL /\ image'[ImgOf(c)].age = "new" /\ held' = held
      /\ \A j \in Images \ {ImgOf(c)} : image'[j] = image[j]
  BY <1>1, InsertedRows, Zenon DEF Types, Inserted
<1>3. /\ Others(c)
      /\ \/ known' = known /\ StepOf(c)' = "token" /\ ImgOf(c)' = ImgOf(c)
         \/ known' = known \cup {ImgOf(c)} /\ StepOf(c)' = "idle" /\ ImgOf(c)' = NULL
      /\ UNCHANGED <<object, promoted, token, claims>>
  BY InsertEffect, Stay, Zenon DEF Types, bucketVars, StepOf, ImgOf
<1> QED
  BY <1>1, <1>2, <1>3, InsertedFacts, Zenon

(* A request goes on to its rollback. *)
LEMMA RollbackFacts ==
  ASSUME Types, Facts, NEW c \in Clients, UNCHANGED <<imageVars, sweepVars>>,
         Others(c), ImgOf(c)' = ImgOf(c),
         \/ StepOf(c) = "insert" /\ StepOf(c)' \in {"undoRow", "undo"}
         \/ StepOf(c) = "token" /\ StepOf(c)' = "undoRow"
  PROVE  Facts' /\ Leaked' \subseteq Leaked
<1> USE StepFacts DEF Others, Same, Facts, imageVars, sweepVars
<1>0. ListsStay
  BY Stay, Zenon
<1>1. Numbered' /\ Kept' /\ Tokens' /\ Claims' /\ Swept'
  BY <1>0 DEF Numbered, Kept, Tokens, Claims, Swept, ListsStay
<1>2. Private'
  BY <1>0 DEF Private, ListsStay
<1>3. Progress'
  BY DEF Progress, Private
<1>4. Leaked' \subseteq Leaked
  BY Zenon DEF Leaked
<1> QED
  BY <1>1, <1>2, <1>3, <1>4, Zenon

(* The transaction raises, whether or not it took effect. *)
LEMMA InsertFailsFacts ==
  ASSUME Types, Facts, NEW c \in Clients, NEW lost \in BOOLEAN, InsertFails(c, lost),
         UNCHANGED sweepVars
  PROVE  Facts' /\ Leaked' \subseteq Leaked
<1> USE DEF Others, Same
<1>1. /\ StepOf(c) = "insert" /\ ImgOf(c) \in Images /\ req[c].user \in Users \cup {NULL}
      /\ Others(c)
      /\ ImgOf(c)' = ImgOf(c) /\ StepOf(c)' \in {"undoRow", "undo"}
      /\ UNCHANGED <<object, promoted, token, known, claims>>
  BY InsertFailsEffect, Stay, Zenon DEF Types, bucketVars, peopleVars, StepOf, ImgOf
<1>2. CASE UNCHANGED rowsVars
  BY <1>1, <1>2, RollbackFacts, Zenon DEF imageVars, rowsVars
<1>3. CASE Inserted(ImgOf(c), req[c].user)
  <2>1. /\ RowsOK' /\ image'[ImgOf(c)] # NULL /\ image'[ImgOf(c)].age = "new" /\ held' = held
        /\ \A j \in Images \ {ImgOf(c)} : image'[j] = image[j]
    BY <1>1, <1>3, InsertedRows, Zenon DEF Types, Inserted
  <2> QED
    BY <1>1, <2>1, InsertedFacts, Zenon
<1> QED
  BY <1>2, <1>3, InsertFailsEffect, Zenon DEF Types, StepOf, ImgOf

(* The token of a signup image is issued and its id returned. *)
LEMMA IssueTokenFacts ==
  ASSUME Types, Facts, NEW c \in Clients, IssueToken(c), UNCHANGED sweepVars
  PROVE  Facts' /\ Leaked' \subseteq Leaked
<1> USE StepFacts, NullFacts DEF Others, Same, Facts, Types, sweepVars
<1> DEFINE i == ImgOf(c)
<1>0. ListsStay
  BY Stay, Zenon
<1>1. /\ StepOf(c) = "token" /\ token' = token \cup {i} /\ known' = known \cup {i}
      /\ UNCHANGED <<object, promoted, image, held, claims>>
  BY Zenon DEF IssueToken, At, bucketVars, rowsVars, StepOf, ImgOf
<1>2. /\ Others(c)
      /\ StepOf(c)' = "idle" /\ ImgOf(c)' = NULL
  BY DoneEffect, Stay, Zenon DEF IssueToken, StepOf, ImgOf
<1>3. /\ i \in Images /\ i \in object /\ i \notin known /\ i <= promoted
      /\ image[i] # NULL /\ image[i].age = "new"
      /\ \A d \in Clients \ {c} : ImgOf(d) # i
      /\ \A w \in Sweepers : i \notin Listed(w)
  BY <1>1, ImgFields, Zenon DEF Private, Progress, Numbered
<1>4. Numbered'
  BY <1>0, <1>1, <1>2, <1>3, Zenon DEF Numbered, ListsStay
<1>5. Private'
  BY <1>0, <1>1, <1>2, <1>3, ImgFields DEF Private, ListsStay
<1>6. Progress'
  BY <1>1, <1>2, <1>3 DEF Progress
<1>7. Kept' /\ Tokens' /\ Claims'
  BY <1>1, <1>3, Zenon DEF Kept, Tokens, Claims
<1>8. Swept' /\ Leaked' \subseteq Leaked
  BY <1>1, <1>2, <1>3 DEF Swept, Leaked
<1> QED
  BY <1>4, <1>5, <1>6, <1>7, <1>8, Zenon

(* Redis is down: the signup confirm is rolled back. *)
LEMMA IssueTokenFailsFacts ==
  ASSUME Types, Facts, NEW c \in Clients, IssueTokenFails(c), UNCHANGED sweepVars
  PROVE  Facts' /\ Leaked' \subseteq Leaked
<1> USE DEF Others, Same
<1>1. StepOf(c) = "token" /\ UNCHANGED imageVars
  BY Zenon DEF IssueTokenFails, At, imageVars, bucketVars, rowsVars, peopleVars, StepOf, ImgOf
<1>2. /\ Others(c)
      /\ StepOf(c)' = "undoRow" /\ ImgOf(c)' = ImgOf(c)
  BY <1>1, StepFacts, GotoEffect, Stay DEF IssueTokenFails, Types, StepOf, ImgOf
<1> QED
  BY <1>1, <1>2, RollbackFacts, Zenon

(* The row of a signup confirm that failed is deleted. *)
LEMMA UndoRowFacts ==
  ASSUME Types, Facts, NEW c \in Clients, UndoRow(c), UNCHANGED sweepVars
  PROVE  Facts' /\ Leaked' \subseteq Leaked
<1> USE StepFacts, NullFacts DEF Others, Same, Facts, Types, sweepVars
<1> DEFINE i == ImgOf(c)
<1>0. ListsStay
  BY Stay, Zenon
<1>1. /\ StepOf(c) = "undoRow" /\ DropRows({i})
      /\ UNCHANGED <<object, promoted, token, known, claims>>
  BY Zenon DEF UndoRow, At, bucketVars, peopleVars, StepOf, ImgOf
<1>2. /\ Others(c)
      /\ StepOf(c)' = "undo" /\ ImgOf(c)' = i
  BY <1>1, GotoEffect, Stay DEF UndoRow, StepOf, ImgOf
<1>3. /\ i \in Images /\ i \notin known
      /\ \A d \in Clients \ {c} : ImgOf(d) # i
  BY <1>1, ImgFields, Zenon DEF Private
<1>4. /\ image'[i] = NULL /\ held'[i] = {}
      /\ \A j \in Images \ {i} : image'[j] = image[j] /\ held'[j] = held[j]
  BY <1>1, <1>3, DroppedRows, Zenon
<1>5. Numbered' /\ Private'
  BY <1>0, <1>1, <1>2, <1>4 DEF Numbered, Private, ListsStay
<1>6. Progress'
  <2>1. ASSUME NEW d \in Clients \ {c} PROVE StepOf(d) \in Naming => ImgOf(d) \in Images \ {i}
    BY <1>3, ImgFields, Zenon
  <2> QED
    BY <1>1, <1>2, <1>4, <2>1 DEF Progress
<1>7. Kept' /\ Tokens' /\ Claims'
  BY <1>1, <1>3, <1>4, Zenon DEF Kept, Tokens, Claims, PeopleOK
<1>8. Swept' /\ Leaked' \subseteq Leaked
  BY <1>1, <1>2, <1>4 DEF Swept, Leaked, BucketOK
<1> QED
  BY <1>5, <1>6, <1>7, <1>8, Zenon

(* The object of a rollback or of delete_image is deleted. *)
LEMMA DeleteObjectFacts ==
  ASSUME Types, Facts, NEW c \in Clients, DeleteObject(c), UNCHANGED sweepVars
  PROVE  Facts' /\ Leaked' \subseteq Leaked
<1> USE StepFacts, NullFacts DEF Others, Same, Facts, Types, sweepVars
<1> DEFINE i == ImgOf(c)
<1>0. ListsStay
  BY Stay, Zenon
<1>1. /\ StepOf(c) = "undo" /\ object' = object \ {i}
      /\ UNCHANGED <<promoted, image, held, token, known, claims>>
  BY Zenon DEF DeleteObject, At, rowsVars, peopleVars, StepOf, ImgOf
<1>2. /\ Others(c)
      /\ StepOf(c)' = "idle" /\ ImgOf(c)' = NULL
  BY DoneEffect, Stay, Zenon DEF DeleteObject, StepOf, ImgOf
<1>3. i \in Images /\ (i \notin known \/ image[i] = NULL)
  BY <1>1, ImgFields, Zenon DEF Progress
<1>4. Numbered'
  BY <1>0, <1>1, <1>2, Zenon DEF Numbered, ListsStay
<1>5. Private'
  BY <1>0, <1>1, <1>2, ImgFields DEF Private, ListsStay
<1>6. Progress'
  <2>1. ASSUME NEW d \in Clients \ {c} PROVE StepOf(d) \in Making => ImgOf(d) # i
    BY Zenon DEF Private
  <2> QED
    BY <1>1, <1>2, <2>1 DEF Progress
<1>7. Kept' /\ Tokens' /\ Claims'
  BY <1>1, <1>3, Zenon DEF Kept, Tokens, Claims
<1>8. Swept' /\ Leaked' \subseteq Leaked
  BY <1>1, <1>2 DEF Swept, Leaked
<1> QED
  BY <1>4, <1>5, <1>6, <1>7, <1>8, Zenon

(* delete_image: the row goes, and the request has the object in hand. *)
LEMMA DeleteImageFacts ==
  ASSUME Types, Facts, NEW c \in Clients, NEW i \in Images, DeleteImage(c, i), UNCHANGED sweepVars
  PROVE  Facts' /\ Leaked' \subseteq Leaked
<1> USE StepFacts, NullFacts DEF Others, Same, Facts, Types, sweepVars
<1>0. ListsStay
  BY Stay, Zenon
<1>1. /\ i \in known /\ DropRows({i})
      /\ UNCHANGED <<object, promoted, token, known, claims>>
  BY Zenon DEF DeleteImage, bucketVars, peopleVars
<1>2. /\ Others(c)
      /\ StepOf(c) = "idle" /\ StepOf(c)' = "undo" /\ ImgOf(c)' = i
  BY DeleteImageEffect, Stay, Zenon DEF StepOf, ImgOf
<1>3. /\ image'[i] = NULL /\ held'[i] = {}
      /\ \A j \in Images \ {i} : image'[j] = image[j] /\ held'[j] = held[j]
  BY <1>1, DroppedRows, Zenon
<1>4. \A d \in Clients : StepOf(d) \in Making => ImgOf(d) # i
  BY <1>1, Zenon DEF Private
<1>5. Numbered'
  BY <1>0, <1>1, <1>2, <1>3, Zenon DEF Numbered, ListsStay
<1>6. Private'
  BY <1>0, <1>1, <1>2, <1>4 DEF Private, ListsStay
<1>7. Progress'
  <2>1. ASSUME NEW d \in Clients PROVE StepOf(d) \in Naming => ImgOf(d) \in Images
    BY ImgFields, Zenon
  <2> QED
    BY <1>1, <1>2, <1>3, <1>4, <2>1 DEF Progress
<1>8. Kept' /\ Tokens' /\ Claims'
  BY <1>1, <1>3 DEF Kept, Tokens, Claims, PeopleOK
<1>9. ImgOf(c) = NULL
  BY <1>2, ImgFields, Zenon
<1>10. Swept' /\ Leaked' \subseteq Leaked
  BY <1>1, <1>2, <1>3, <1>9 DEF Swept, Leaked, BucketOK
<1> QED
  BY <1>5, <1>6, <1>7, <1>8, <1>10, Zenon

(* A signup has read the token of image i, or has deleted it. *)
LEMMA SigningFacts ==
  ASSUME Types, Facts, NEW c \in Clients, NEW i \in Images,
         Others(c),
         StepOf(c) \notin Making, ImgOf(c) \in {NULL, i}, ImgOf(c)' = i,
         StepOf(c)' \in Signing, i \in known, image[i] # NULL => image[i].age # "day",
         StepOf(c) # "undo",
         token' \subseteq token, UNCHANGED <<object, promoted, image, held, known, claims,
         sweepVars>>
  PROVE  Facts' /\ Leaked' \subseteq Leaked
<1> USE StepFacts, NullFacts DEF Others, Same, Facts, Types, sweepVars
<1>0. ListsStay
  BY Stay, Zenon
<1>1. Numbered' /\ Private'
  BY <1>0 DEF Numbered, Private, ListsStay
<1>2. Progress'
  <2>1. StepOf(c)' \notin {"unpend", "insert", "token", "undoRow", "undo"}
    OBVIOUS
  <2> QED
    BY <2>1, Zenon DEF Progress
<1>3. Kept' /\ Tokens' /\ Claims' /\ Swept'
  BY Zenon DEF Kept, Tokens, Claims, Swept
<1>4. Leaked' \subseteq Leaked
  BY Zenon DEF Leaked
<1> QED
  BY <1>1, <1>2, <1>3, <1>4, Zenon

(* The token is read. *)
LEMMA SignupFacts ==
  ASSUME Types, Facts, NEW c \in Clients, NEW i \in Images, NEW u \in NewUsers, Signup(c, u, i),
         UNCHANGED sweepVars
  PROVE  Facts' /\ Leaked' \subseteq Leaked
<1> USE DEF Others, Same
<1>1. /\ i \in token /\ i \in known
      /\ UNCHANGED <<object, promoted, image, held, token, known, claims>>
  BY Zenon DEF Signup, bucketVars, rowsVars, peopleVars
<1>2. /\ Others(c)
      /\ StepOf(c) = "idle" /\ StepOf(c)' = "del" /\ ImgOf(c)' = i
  BY SignupEffect, Stay, Zenon DEF Types, StepOf, ImgOf
<1>3. ImgOf(c) = NULL
  BY <1>2, ImgFields, StepFacts, Zenon DEF Types
<1>4. image[i] # NULL => image[i].age # "day"
  BY <1>1, Zenon DEF Facts, Tokens
<1> QED
  BY <1>1, <1>2, <1>3, <1>4, StepFacts, SigningFacts, Zenon

(* The token is deleted. *)
LEMMA DeleteTokenFacts ==
  ASSUME Types, Facts, NEW c \in Clients, DeleteToken(c), UNCHANGED sweepVars
  PROVE  Facts' /\ Leaked' \subseteq Leaked
<1> USE DEF Others, Same
<1> DEFINE i == ImgOf(c)
<1>1. /\ StepOf(c) = "del" /\ token' \subseteq token
      /\ UNCHANGED <<object, promoted, image, held, known, claims>>
  BY Zenon DEF DeleteToken, At, bucketVars, rowsVars, StepOf, ImgOf
<1>2. /\ Others(c)
      /\ StepOf(c)' = "claim" /\ ImgOf(c)' = i
  BY <1>1, StepFacts, GotoEffect, Stay DEF DeleteToken, Types, StepOf, ImgOf
<1>3. i \in Images /\ i \in known /\ (image[i] # NULL => image[i].age # "day")
  BY <1>1, ImgFields, StepFacts, Zenon DEF Types, Facts, Progress
<1> QED
  BY <1>1, <1>2, <1>3, StepFacts, SigningFacts, Zenon

(* A claim: the row had no uploader and was not a day old, so no signup had
   claimed it. *)
LEMMA ClaimFacts ==
  ASSUME Types, Facts, NEW c \in Clients, Claim(c), UNCHANGED sweepVars
  PROVE  Facts' /\ Leaked' \subseteq Leaked
<1> USE StepFacts, NullFacts DEF Others, Same, Facts, Types, sweepVars
<1> DEFINE i == ImgOf(c)
           u == req[c].user
<1>0. ListsStay
  BY Stay, Zenon
<1>1. /\ StepOf(c) = "claim" /\ i \in Images /\ u \in Users
      /\ UNCHANGED <<object, promoted, token, known>>
  BY ClaimEffect, Zenon DEF bucketVars, StepOf, ImgOf
<1>2. /\ Becomes(c, req'[c]) /\ StepOf(c)' = "idle" /\ ImgOf(c)' = NULL
      /\ Others(c)
  BY ClaimEffect, DoneEffect, Stay, Zenon DEF StepOf, ImgOf
<1>3. CASE UNCHANGED <<rowsVars, claims>>
  <2>1. Facts' /\ Leaked' \subseteq Leaked \cup {i}
    BY <1>1, <1>2, <1>3, RestFacts, Zenon DEF imageVars, rowsVars
  <2>2. Leaked' \subseteq Leaked
    BY <1>1, <1>2, <1>3, Zenon DEF Leaked, rowsVars
  <2> QED
    BY <2>1, <2>2, Zenon
<1>4. CASE Claimed(i, u) /\ claims' = [claims EXCEPT ![i] = @ + 1]
  <2>1. /\ image'[i] # NULL /\ image'[i].uploader = u /\ image'[i].age = image[i].age
        /\ \A j \in Images \ {i} : image'[j] = image[j] /\ held'[j] = held[j]
    BY <1>1, <1>4, ClaimedRows, Zenon
  <2>2. /\ i \in known /\ image[i] # NULL /\ image[i].uploader = NULL /\ image[i].age # "day"
        /\ claims[i] = 0
    BY <1>1, <1>4, Zenon DEF Progress, Claimed, Claims
  <2>3. claims'[i] = 1 /\ \A j \in Images \ {i} : claims'[j] = claims[j]
    BY <1>1, <1>4, <2>2 DEF PeopleOK
  <2>4. Numbered'
    BY <1>0, <1>1, <1>2, <2>1, <2>2, Zenon DEF Numbered, ListsStay
  <2>5. Private'
    BY <1>0, <1>1, <1>2, ImgFields DEF Private, ListsStay
  <2>6. Progress'
    <3>1. ASSUME NEW d \in Clients PROVE StepOf(d) \in Naming => ImgOf(d) \in Images
      BY ImgFields, Zenon
    <3> QED
      BY <1>1, <1>2, <2>1, <2>2, <3>1 DEF Progress
  <2>7. Kept' /\ Tokens'
    BY <1>1, <2>1, <2>2, Zenon DEF Kept, Tokens, PeopleOK
  <2>8. Claims'
    BY <1>1, <2>1, <2>2, <2>3 DEF Claims
  <2>9. Swept' /\ Leaked' \subseteq Leaked
    BY <1>1, <1>2, <2>1, <2>2, SMTT(30) DEF Swept, Leaked, BucketOK
  <2> QED
    BY <2>4, <2>5, <2>6, <2>7, <2>8, <2>9, Zenon
<1> QED
  BY <1>3, <1>4, ClaimEffect, Zenon DEF StepOf, ImgOf

(* What time and the members do to a row disturbs none of the facts. *)
LEMMA RowChangeFacts ==
  ASSUME Types, Facts, token' \subseteq token,
         UNCHANGED <<object, promoted, known, claims, req, sweepVars>>,
         \A i \in Images : held'[i] # {} => i \in known,
         \A i \in Images :
           \/ image'[i] = image[i]
           \/ /\ image[i] # NULL /\ image'[i] # NULL
              /\ \/ /\ image[i].age = "new" /\ image'[i].age = "hour"
                    /\ image'[i].uploader = image[i].uploader
                    /\ \A c \in Clients : ImgOf(c) = i => StepOf(c) \in Signing
                 \/ /\ image'[i].age = "day" /\ i \notin token
                    /\ \A c \in Clients : ImgOf(c) # i
                 \/ image[i].age = "day" /\ image'[i].age = "day"
  PROVE  Facts' /\ Leaked' \subseteq Leaked
<1> USE StepFacts DEF Facts, Types, sweepVars, Same, ListsStay
<1>0. ListsStay /\ \A c \in Clients : Same(c)
  BY Stay, Zenon
<1>1. Numbered' /\ Private'
  BY <1>0, SMTT(30) DEF Numbered, Private, ListsStay
<1>2. Progress'
  <2>1. ASSUME NEW c \in Clients PROVE StepOf(c) \in Naming => ImgOf(c) \in Images
    BY ImgFields, Zenon
  <2> QED
    BY <1>0, <2>1 DEF Progress
<1>3. Kept'
  BY Zenon DEF Kept
<1>4. Tokens'
  BY Zenon DEF Tokens, PeopleOK
<1>5. Claims'
  BY Zenon DEF Claims
<1>6. Swept' /\ Leaked' \subseteq Leaked
  BY <1>0, SMTT(30) DEF Swept, Leaked, BucketOK
<1> QED
  BY <1>1, <1>2, <1>3, <1>4, <1>5, <1>6, Zenon

(* Time passes. *)
LEMMA GrowFacts ==
  ASSUME Types, Facts, NEW i \in Images, Grow(i) \/ ExpireToken(i), UNCHANGED sweepVars
  PROVE  Facts' /\ Leaked' \subseteq Leaked
<1>1. CASE ExpireToken(i)
  BY <1>1, RowChangeFacts, Zenon DEF ExpireToken, Facts, Kept, bucketVars, rowsVars
<1>2. CASE Grow(i)
  <2>1. /\ held' = held
        /\ UNCHANGED <<object, promoted, token, known, claims, req>>
    BY <1>2, GrowEffect, Zenon DEF Aged, bucketVars, peopleVars, StepOf, ImgOf
  <2>2. CASE /\ Aged(i, "hour") /\ image[i].age = "new"
             /\ \A c \in Clients : ImgOf(c) = i => StepOf(c) \in Signing
    <3>1. /\ image[i] # NULL /\ image'[i] # NULL /\ image'[i].uploader = image[i].uploader
          /\ image'[i].age = "hour" /\ \A j \in Images \ {i} : image'[j] = image[j]
      BY <2>2, AgedRows, Zenon DEF Types, Ages, Aged
    <3> QED
      BY <2>1, <2>2, <3>1, RowChangeFacts, Zenon DEF Facts, Kept
  <2>3. CASE Aged(i, "day") /\ i \notin token /\ \A c \in Clients : ImgOf(c) # i
    <3>1. /\ image[i] # NULL /\ image'[i] # NULL
          /\ image'[i].age = "day" /\ \A j \in Images \ {i} : image'[j] = image[j]
      BY <2>3, AgedRows, Zenon DEF Types, Ages, Aged
    <3> QED
      BY <2>1, <2>3, <3>1, RowChangeFacts, Zenon DEF Facts, Kept
  <2> QED
    BY <1>2, <2>2, <2>3, GrowEffect, Zenon DEF StepOf, ImgOf
<1> QED
  BY <1>1, <1>2, Zenon

(* Members refer to images they know, let go of them and leave. *)
LEMMA MemberFacts ==
  ASSUME Types, Facts, UNCHANGED sweepVars,
         \/ \E i \in Images, h \in Holders : Attach(i, h) \/ Release(i, h)
         \/ \E u \in Leavers : Withdraw(u) \/ Purge(u)
  PROVE  Facts' /\ Leaked' \subseteq Leaked
<1>1. ASSUME UNCHANGED <<object, promoted, image, token, known, claims, req>>,
             \A i \in Images : held'[i] # {} => i \in known
      PROVE  Facts' /\ Leaked' \subseteq Leaked
  BY <1>1, RowChangeFacts, Zenon
<1>2. ASSUME NEW i \in Images, NEW h \in Holders, Attach(i, h) \/ Release(i, h)
      PROVE  Facts' /\ Leaked' \subseteq Leaked
  <2>1. \A j \in Images : held'[j] # {} => j \in known
    BY <1>2, Zenon DEF Attach, Release, Facts, Kept, Types, RowsOK
  <2> QED
    BY <1>1, <1>2, <2>1, Zenon DEF Attach, Release, bucketVars, peopleVars
<1>3. ASSUME NEW u \in Leavers, Withdraw(u) PROVE Facts' /\ Leaked' \subseteq Leaked
  <2>1. PICK i \in Images \cup {NULL} :
          held' = [j \in Images |-> IF j = i THEN held[j] \ {"profile"} ELSE held[j]]
    BY <1>3, Zenon DEF Withdraw
  <2>2. \A j \in Images : held'[j] # {} => j \in known
    BY <2>1, Zenon DEF Facts, Kept
  <2> QED
    BY <1>1, <1>3, <2>2, Zenon DEF Withdraw, bucketVars
<1>4. ASSUME NEW u \in Leavers, Purge(u) PROVE Facts' /\ Leaked' \subseteq Leaked
  <2>1. \A i \in Images : /\ held'[i] \subseteq held[i]
                          /\ \/ image'[i] = image[i]
                             \/ /\ image[i] # NULL /\ image'[i] # NULL
                                /\ image[i].age = "day" /\ image'[i].age = "day"
    BY <1>4, PurgedRows, MediaAssumption, Zenon DEF Types
  <2>2. \A i \in Images : held'[i] # {} => i \in known
    BY <2>1, Zenon DEF Facts, Kept
  <2> QED
    BY <1>4, <2>1, <2>2, RowChangeFacts, Zenon DEF Purge, bucketVars
<1> QED
  BY <1>2, <1>3, <1>4, Zenon

----------------------------------------------------------------------------
(* What the sweepers do.                                                    *)

(* A query selects rows that are not new: no confirm is making one of them. *)
LEMMA ListsFacts ==
  ASSUME Types, Facts, NEW w \in Sweepers, Lists(w)
  PROVE  Facts' /\ Leaked' \subseteq Leaked
<1> USE StepFacts DEF Facts, Types
<1>1. /\ UNCHANGED <<imageVars, req>>
      /\ selected' = selected \cup sweep'[w].todo /\ sweep'[w].gone = {}
      /\ \A i \in sweep'[w].todo : i \in Images /\ image[i] # NULL /\ image[i].age # "new"
      /\ \A v \in Sweepers \ {w} : sweep'[v] = sweep[v]
  BY Zenon DEF Lists, requestVars, imageVars, bucketVars, rowsVars, peopleVars
<1> USE DEF imageVars, Same
<1>0. \A c \in Clients : Same(c)
  BY <1>1, Stay, Zenon
<1>6. \A v \in Sweepers : Listed(v)' \subseteq Listed(v) \cup (IF v = w THEN sweep'[w].todo ELSE {})
  BY <1>1, Zenon DEF Listed
<1>2. Numbered'
  BY <1>0, <1>1, <1>6, Zenon DEF Numbered
<1>3. Private'
  <2>1. ASSUME NEW c \in Clients, StepOf(c) \in Making PROVE ImgOf(c) \notin sweep'[w].todo
    <3>1. image[ImgOf(c)] = NULL \/ image[ImgOf(c)].age = "new"
      BY <2>1, Zenon DEF Progress, Making
    <3> QED
      BY <1>1, <3>1, Zenon
  <2> QED
    BY <1>0, <1>1, <1>6, <2>1 DEF Private
<1>4. Progress' /\ Kept' /\ Tokens' /\ Claims'
  BY <1>0, <1>1 DEF Progress, Kept, Tokens, Claims
<1>5. Swept' /\ Leaked' \subseteq Leaked
  BY <1>0, <1>1, SMTT(30) DEF Swept, Leaked
<1> QED
  BY <1>2, <1>3, <1>4, <1>5, Zenon

(* A sweeper drops its list. *)
LEMMA PausesFacts ==
  ASSUME Types, Facts, NEW w \in Sweepers, Drops(w), UNCHANGED <<imageVars, req, selected>>
  PROVE  Facts' /\ Leaked' \subseteq Leaked
<1> USE DEF Facts, imageVars, Same
<1>0. /\ \A c \in Clients : Same(c)
      /\ \A v \in Sweepers : Listed(v)' \subseteq Listed(v)
  BY Stay, Zenon DEF Listed, Drops
<1>1. Numbered' /\ Private'
  BY <1>0, Zenon DEF Numbered, Private
<1>2. Progress' /\ Kept' /\ Tokens' /\ Claims'
  BY <1>0, Zenon DEF Progress, Kept, Tokens, Claims
<1>3. Swept' /\ Leaked' \subseteq Leaked
  BY <1>0, Zenon DEF Swept, Leaked, Drops
<1> QED
  BY <1>1, <1>2, <1>3, Zenon

(* It deletes the object of an image it selected. *)
LEMMA RemovesFacts ==
  ASSUME Types, Facts, NEW w \in Sweepers, NEW i \in Images, Removes(w, i)
  PROVE  Facts' /\ Leaked' \subseteq Leaked
<1> USE StepFacts DEF Facts, Same
<1>1. /\ UNCHANGED <<promoted, image, held, token, known, claims, req, selected>>
      /\ i \in sweep[w].todo /\ i \in selected /\ object \ {i} \subseteq object'
      /\ object' \subseteq object
      /\ \A c \in Clients : StepOf(c) \in Making => ImgOf(c) # i
  BY DEF Removes, rowsVars, peopleVars, Swept, Private, Listed
<1>2. /\ sweep'[w].todo \subseteq sweep[w].todo
      /\ sweep'[w].gone \subseteq sweep[w].gone \cup {i}
      /\ i \in sweep'[w].gone => i \notin object' \/ i \in sweep[w].gone
      /\ \A v \in Sweepers \ {w} : sweep'[v] = sweep[v]
  BY Zenon DEF Removes
<1>3. /\ \A c \in Clients : Same(c)
      /\ \A v \in Sweepers : Listed(v)' \subseteq Listed(v)
  BY <1>1, <1>2, Stay DEF Listed
<1>4. Numbered' /\ Private'
  BY <1>1, <1>3 DEF Numbered, Private
<1>5. Progress'
  BY <1>1, <1>3, Zenon DEF Progress
<1>6. Kept' /\ Tokens' /\ Claims'
  BY <1>1, Zenon DEF Kept, Tokens, Claims
<1>7. Swept' /\ Leaked' \subseteq Leaked
  BY <1>1, <1>2, <1>3, Zenon DEF Swept, Leaked
<1> QED
  BY <1>4, <1>5, <1>6, <1>7, Zenon

(* It deletes the rows of the objects it deleted: none of those is left. *)
LEMMA DeleteRowsFacts ==
  ASSUME Types, Facts, NEW w \in Sweepers, DeleteRows(w)
  PROVE  Facts' /\ Leaked' \subseteq Leaked
<1> USE StepFacts DEF Facts, Types, Same
<1> DEFINE gone == sweep[w].gone
<1>1. /\ DropRows(gone) /\ Drops(w)
      /\ UNCHANGED <<object, promoted, token, known, claims, req, selected>>
  BY SweepToEffect, Zenon DEF DeleteRows, bucketVars, peopleVars
<1>2. /\ \A i \in Images \cap gone : image'[i] = NULL /\ held'[i] = {}
      /\ \A i \in Images \ gone : image'[i] = image[i] /\ held'[i] = held[i]
  BY <1>1, DroppedRows, Zenon
<1>3. /\ \A i \in gone : i \notin object
      /\ \A c \in Clients : StepOf(c) \in Making => ImgOf(c) \notin gone
  BY Zenon DEF Swept, Private, Listed
<1>0. /\ \A c \in Clients : Same(c)
      /\ \A v \in Sweepers : Listed(v)' \subseteq Listed(v)
  BY <1>1, Stay, Zenon DEF Listed, Drops
<1>4. Numbered' /\ Private'
  BY <1>0, <1>1, <1>2 DEF Numbered, Private
<1>5. Progress'
  <2>1. ASSUME NEW c \in Clients PROVE StepOf(c) \in Naming => ImgOf(c) \in Images
    BY ImgFields, Zenon
  <2> QED
    BY <1>0, <1>1, <1>2, <1>3, <2>1 DEF Progress
<1>6. Kept' /\ Tokens' /\ Claims'
  BY <1>1, <1>2, Zenon DEF Kept, Tokens, Claims, PeopleOK
<1>7. Swept' /\ Leaked' \subseteq Leaked
  BY <1>0, <1>1, <1>2, <1>3, SMTT(30) DEF Swept, Leaked, Drops, BucketOK
<1> QED
  BY <1>4, <1>5, <1>6, <1>7, Zenon

----------------------------------------------------------------------------
(* The types of rows, people and sweeps.                                    *)

(* Rows keep their types, and what is referred to is there. *)
LEMMA RowsStep ==
  ASSUME Types, AnyStep
  PROVE  RowsOK'
<1> USE DEF Types
<1>1. CASE UNCHANGED rowsVars
  BY <1>1, Zenon DEF RowsOK, rowsVars
<1>2. ASSUME image' = image, held' \in [Images -> SUBSET Holders],
             \A i \in Images : held'[i] # {} => image[i] # NULL
      PROVE  RowsOK'
  BY <1>2, Zenon DEF RowsOK
<1>3. CASE RequestCases
  <2>1. ASSUME NEW k \in Keys, NEW content \in {"valid", "invalid"}, Upload(k, content)
        PROVE  RowsOK'
    BY <1>1, <2>1, Zenon DEF Upload
  <2>2. ASSUME NEW c \in Clients, \/ Copy(c) \/ Unpend(c) \/ PromoteHead(c) \/ DeleteObject(c)
                                  \/ IssueToken(c) \/ IssueTokenFails(c) \/ DeleteToken(c)
        PROVE  RowsOK'
    BY <1>1, <2>2, Zenon DEF Copy, Unpend, PromoteHead, DeleteObject, IssueToken,
       IssueTokenFails,
                      DeleteToken
  <2>3. ASSUME NEW c \in Clients, Insert(c) PROVE RowsOK'
    BY <2>3, InsertEffect, InsertedRows, Zenon
  <2>4. ASSUME NEW c \in Clients, NEW lost \in BOOLEAN, InsertFails(c, lost) PROVE RowsOK'
    BY <1>1, <2>4, InsertFailsEffect, InsertedRows, Zenon
  <2>5. ASSUME NEW c \in Clients, UndoRow(c) PROVE RowsOK'
    BY <2>5, DroppedRows, Zenon DEF UndoRow
  <2>6. ASSUME NEW c \in Clients, Claim(c) PROVE RowsOK'
    BY <1>1, <2>6, ClaimEffect, ClaimedRows, Zenon
  <2>7. ASSUME NEW c \in Clients, NEW i \in Images, DeleteImage(c, i) PROVE RowsOK'
    BY <2>7, DroppedRows, Zenon DEF DeleteImage
  <2>8. ASSUME NEW c \in Clients, NEW i \in Images, NEW u \in NewUsers, Signup(c, u, i)
        PROVE  RowsOK'
    BY <1>1, <2>8, Zenon DEF Signup
  <2>9. ASSUME NEW i \in Images, Grow(i) PROVE RowsOK'
    BY <2>9, GrowEffect, AgedRows, Zenon DEF Ages
  <2>10. ASSUME NEW i \in Images, ExpireToken(i) PROVE RowsOK'
    BY <1>1, <2>10, Zenon DEF ExpireToken
  <2>11. ASSUME NEW i \in Images, NEW h \in Holders, Attach(i, h) \/ Release(i, h) PROVE RowsOK'
    BY <1>2, <2>11 DEF Attach, Release, RowsOK
  <2>12. ASSUME NEW u \in Leavers, Withdraw(u) PROVE RowsOK'
    <3>1. PICK i \in Images \cup {NULL} :
            held' = [j \in Images |-> IF j = i THEN held[j] \ {"profile"} ELSE held[j]]
      BY <2>12, Zenon DEF Withdraw
    <3> QED
      BY <1>2, <2>12, <3>1, Zenon DEF Withdraw, RowsOK
  <2>13. ASSUME NEW u \in Leavers, Purge(u) PROVE RowsOK'
    BY <2>13, PurgedRows, MediaAssumption, Zenon
  <2>14. ASSUME NEW c \in Clients, NEW k \in Keys, NEW u \in Uploaders, Confirm(c, k, u)
         PROVE  RowsOK'
    BY <1>1, <2>14, Zenon DEF Confirm
  <2> QED
    BY <1>3, <2>1, <2>2, <2>3, <2>4, <2>5, <2>6, <2>7, <2>8, <2>9, <2>10, <2>11, <2>12, <2>13,
       <2>14, Zenon DEF RequestCases
<1>4. ASSUME NEW w \in Sweepers, DeleteRows(w) PROVE RowsOK'
  BY <1>4, DroppedRows, Zenon DEF DeleteRows
<1>5. ASSUME NEW w \in Sweepers, NEW i, Lists(w) \/ Pauses(w) \/ Removes(w, i) PROVE RowsOK'
  BY <1>1, <1>5, Zenon DEF Lists, Pauses, Removes, requestVars
<1>6. ASSUME UNCHANGED vars \/ (\E j \in Jobs : LockExpires(j)) \/ (\E c \in Clients : Abandon(c))
      PROVE  RowsOK'
  BY <1>1, <1>6, Zenon DEF vars, LockExpires, Abandon, requestVars
<1>7. faults \in Nat
  BY DEF BucketOK
<1> QED
  BY <1>3, <1>4, <1>5, <1>6, <1>7, Zenon DEF AnyStep

(* Tokens, accounts, answers and claims keep their types. *)
LEMMA PeopleStep ==
  ASSUME Types, AnyStep
  PROVE  PeopleOK'
<1> USE DEF Types
<1>1. CASE UNCHANGED peopleVars
  BY <1>1, Zenon DEF PeopleOK, peopleVars
<1>2. CASE RequestCases
  <2>1. ASSUME NEW c \in Clients, Insert(c) PROVE PeopleOK'
    BY <2>1, InsertEffect, Zenon DEF PeopleOK
  <2>2. ASSUME NEW c \in Clients, IssueToken(c) PROVE PeopleOK'
    <3>1. req[c].img \in Images
      BY <2>2, RequestFields, StepFacts, Zenon DEF IssueToken, At
    <3> QED
      BY <2>2, <3>1, Zenon DEF IssueToken, PeopleOK
  <2>3. ASSUME NEW c \in Clients, DeleteToken(c) PROVE PeopleOK'
    BY <2>3, Zenon DEF DeleteToken, PeopleOK
  <2>4. ASSUME NEW c \in Clients, Claim(c) PROVE PeopleOK'
    BY <2>4, ClaimEffect DEF PeopleOK
  <2>5. ASSUME NEW c \in Clients, NEW lost \in BOOLEAN,
               \/ PromoteHead(c) \/ Copy(c) \/ Unpend(c) \/ IssueTokenFails(c)
               \/ InsertFails(c, lost) \/ UndoRow(c) \/ DeleteObject(c)
        PROVE  PeopleOK'
    BY <1>1, <2>5, Zenon DEF PromoteHead, Copy, Unpend, IssueTokenFails, InsertFails, UndoRow,
                      DeleteObject
  <2>6. ASSUME NEW k \in Keys, NEW content, Upload(k, content) PROVE PeopleOK'
    BY <1>1, <2>6, Zenon DEF Upload
  <2>7. ASSUME NEW c \in Clients, NEW k \in Keys, NEW u \in Uploaders, Confirm(c, k, u)
        PROVE  PeopleOK'
    BY <1>1, <2>7, Zenon DEF Confirm
  <2>8. ASSUME NEW c \in Clients, NEW i \in Images,
               DeleteImage(c, i) \/ \E u \in NewUsers : Signup(c, u, i)
        PROVE  PeopleOK'
    BY <1>1, <2>8, Zenon DEF DeleteImage, Signup
  <2>9. ASSUME NEW i \in Images, Grow(i) \/ \E h \in Holders : Attach(i, h) \/ Release(i, h)
        PROVE  PeopleOK'
    BY <1>1, <2>9, Zenon DEF Grow, Attach, Release
  <2>10. ASSUME NEW i \in Images, ExpireToken(i) PROVE PeopleOK'
    BY <2>10, Zenon DEF ExpireToken, PeopleOK
  <2>11. ASSUME NEW u \in Leavers, Withdraw(u) \/ Purge(u) PROVE PeopleOK'
    BY <2>11, MediaAssumption, Zenon DEF Withdraw, Purge, PeopleOK
  <2> QED
    BY <1>2, <2>1, <2>2, <2>3, <2>4, <2>5, <2>6, <2>7, <2>8, <2>9, <2>10, <2>11, Zenon
       DEF RequestCases
<1>3. ASSUME NEW w \in Sweepers, NEW i, Lists(w) \/ Pauses(w) \/ DeleteRows(w) \/ Removes(w, i)
      PROVE  PeopleOK'
  BY <1>1, <1>3, Zenon DEF Lists, Pauses, DeleteRows, Removes, requestVars
<1>4. ASSUME UNCHANGED vars \/ (\E j \in Jobs : LockExpires(j)) \/ (\E c \in Clients : Abandon(c))
      PROVE  PeopleOK'
  BY <1>1, <1>4, Zenon DEF vars, LockExpires, Abandon, requestVars
<1>5. faults \in Nat
  BY DEF BucketOK
<1> QED
  BY <1>2, <1>3, <1>4, <1>5, Zenon DEF AnyStep

(* Sweeps keep their types. *)
LEMMA SweepsStep ==
  ASSUME Types, AnyStep
  PROVE  SweepsOK'
<1> USE DEF Types
<1>1. CASE UNCHANGED sweepVars
  BY <1>1, Zenon DEF sweepVars, SweepsOK
<1>2. ASSUME NEW w \in Sweepers, Lists(w) PROVE SweepsOK'
  BY <1>2, Zenon DEF Lists, SweepsOK
<1>3. ASSUME NEW w \in Sweepers, Pauses(w) PROVE SweepsOK'
  BY <1>3, Zenon DEF Pauses, Drops, SweepsOK
<1>4. ASSUME NEW w \in Sweepers, NEW i \in Images, Removes(w, i) PROVE SweepsOK'
  BY <1>4, Zenon DEF Removes, SweepsOK
<1>5. ASSUME NEW w \in Sweepers, DeleteRows(w) PROVE SweepsOK'
  <2>1. Drops(w)
    BY <1>5, SweepToEffect, Zenon DEF DeleteRows
  <2> QED
    BY <1>5, <2>1, Zenon DEF DeleteRows, Drops, SweepsOK
<1>6. ASSUME NEW j \in Jobs, LockExpires(j) PROVE SweepsOK'
  BY <1>6, Zenon DEF LockExpires, SweepsOK
<1>7. faults \in Nat
  BY DEF BucketOK
<1> QED
  BY <1>1, <1>2, <1>3, <1>4, <1>5, <1>6, <1>7, Zenon DEF AnyStep, Abandon, vars

----------------------------------------------------------------------------
(* Counting.                                                                *)
INSTANCE FiniteSetTheorems
INSTANCE WellFoundedInduction

(* The order of the numbers. *)
Less == OpToRel(<, Nat)

(* A nonempty set of numbers has a smallest element. *)
LEMMA Smallest ==
  ASSUME NEW S, S \subseteq Nat, S # {}
  PROVE  \E x \in S : \A y \in S : x <= y
<1>1. IsWellFoundedOn(Less, Nat)
  BY NatLessThanWellFounded, Zenon DEF Less
<1>2. PICK x \in S : \A y \in S : ~(<<y, x>> \in Less)
  BY <1>1, WFMin, Zenon
<1>3. ASSUME NEW y \in Nat, y < x PROVE <<y, x>> \in Less
  <2>1. Less = {ss \in Nat \X Nat : ss[1] < ss[2]}
    BY Zenon DEF Less, OpToRel
  <2>2. <<y, x>> \in Nat \X Nat /\ <<y, x>>[1] = y /\ <<y, x>>[2] = x
    OBVIOUS
  <2> QED
    BY <1>3, <2>1, <2>2, Zenon
<1>4. ASSUME NEW y \in S PROVE x <= y
  <2>1. x \in Nat /\ y \in Nat /\ ~(<<y, x>> \in Less)
    BY <1>2, Zenon
  <2>2. ~(y < x)
    BY <1>3, <2>1, Zenon
  <2> QED
    BY <2>1, <2>2
<1> QED
  BY <1>4, Zenon

(* Min takes it. *)
LEMMA MinInSet ==
  ASSUME NEW S, S \subseteq Nat, S # {}
  PROVE  Min(S) \in S
BY Smallest, Zenon DEF Min

(* A nonempty set of images has a largest element. *)
LEMMA MaxInSet ==
  ASSUME NEW S, S \subseteq Images, S # {}
  PROVE  Max(S) \in S
<1> DEFINE T == {n \in Nat : n <= MaxImages /\ MaxImages - n \in S}
<1>1. MaxImages \in Nat /\ S \subseteq Nat /\ \A s \in S : s <= MaxImages
  BY MediaAssumption DEF Images
<1>2. T \subseteq Nat /\ T # {}
  <2>1. PICK s \in S : TRUE
    OBVIOUS
  <2>2. MaxImages - s \in Nat /\ MaxImages - (MaxImages - s) = s /\ MaxImages - s <= MaxImages
    BY <1>1
  <2>3. MaxImages - s \in T
    BY <2>2, Zenon
  <2> QED
    BY <2>3, Zenon
<1> HIDE DEF T
<1>3. PICK x \in T : \A y \in T : x <= y
  BY <1>2, Smallest, Zenon
<1>4. MaxImages - x \in S /\ x \in Nat /\ x <= MaxImages
  BY <1>3, Zenon DEF T
<1>5. ASSUME NEW s \in S PROVE MaxImages - x >= s
  <2>1. MaxImages - s \in T
    BY <1>1 DEF T
  <2> QED
    BY <1>1, <1>3, <1>4, <2>1
<1> QED
  BY <1>4, <1>5, Zenon DEF Max

----------------------------------------------------------------------------
(* The steps of a sweep.                                                    *)

(* The end of a job. *)
LEMMA JobEndsEffect ==
  ASSUME SweepsOK, NEW w \in Sweepers,
         JobEnds(w) \/ sweep' = [sweep EXCEPT ![w] = Asleep(w)]
  PROVE  Drops(w)
<1> DEFINE r == [Asleep(w) EXCEPT !.job = "orphan"]
<1>1. r \in Sweeps /\ r.step = "lock" /\ r.todo = {} /\ r.gone = {}
  BY AsleepFields, Zenon DEF Sweeps, Jobs
<1>2. sweep' = [sweep EXCEPT ![w] = r] \/ sweep' = [sweep EXCEPT ![w] = Asleep(w)]
  BY Zenon DEF JobEnds
<1> QED
  BY <1>1, <1>2, AsleepFields, Zenon DEF Drops, SweepsOK

(* These are the lock steps, the failures and the end of a job. *)
LEMMA PausesCases ==
  ASSUME SweepsOK, NEW w \in Sweepers,
         \/ TryAcquire(w) \/ AcquireFails(w) \/ ReleaseLock(w) \/ ReleaseFails(w)
         \/ DeleteRowsFails(w) \/ CrashSweep(w)
  PROVE  Pauses(w)
<1>0. jobLock \in [Jobs -> Instances \cup {NULL}] /\ sweep[w].job \in Jobs
  BY SweepFields, Zenon DEF SweepsOK
<1>1. CASE TryAcquire(w)
  <2>1. Drops(w)
    BY <1>1, SweepToEffect, JobEndsEffect, Zenon DEF TryAcquire
  <2>2. jobLock' \in [Jobs -> Instances \cup {NULL}]
    BY <1>0, <1>1, Zenon DEF TryAcquire, Sweepers
  <2> QED
    BY <1>1, <2>1, <2>2, Zenon DEF TryAcquire, Pauses, requestVars
<1>2. CASE ReleaseLock(w)
  <2>1. jobLock' \in [Jobs -> Instances \cup {NULL}]
    BY <1>0, <1>2, Zenon DEF ReleaseLock
  <2> QED
    BY <1>2, <2>1, JobEndsEffect, Zenon DEF ReleaseLock, Pauses, requestVars
<1>3. CASE AcquireFails(w) \/ DeleteRowsFails(w)
  BY <1>0, <1>3, SweepToEffect, Zenon DEF AcquireFails, DeleteRowsFails, Fault, Pauses
<1>4. CASE ReleaseFails(w) \/ CrashSweep(w)
  BY <1>0, <1>4, JobEndsEffect, Zenon DEF ReleaseFails, CrashSweep, Fault, Pauses
<1> QED
  BY <1>1, <1>2, <1>3, <1>4, Zenon

(* A query has found something, or the job ends. *)
LEMMA FetchEffect ==
  ASSUME SweepsOK, NEW w \in Sweepers, Fetch(w)
  PROVE  Lists(w) \/ Pauses(w)
<1> DEFINE s == sweep[w]
           batch == FirstOf({i \in Candidates(s.job) : i > s.cursor}, BatchSize)
           r == [s EXCEPT !.step = "delete", !.cursor = Max(batch), !.todo = batch,
                          !.gone = {}, !.full = (Cardinality(batch) = BatchSize)]
<1>1. CASE batch = {}
  <2>1. SweepTo(w, "release") /\ UNCHANGED <<selected, requestVars, jobLock>>
    BY <1>1, Zenon DEF Fetch, FetchFrom
  <2> QED
    BY <2>1, SweepToEffect, Zenon DEF Pauses, SweepsOK, requestVars
<1>2. CASE batch # {}
  <2>1. /\ sweep' = [sweep EXCEPT ![w] = r]
        /\ selected' = selected \cup {i \in batch : held[i] = {} \/ image[i].uploader = NULL}
        /\ UNCHANGED <<requestVars, jobLock>>
    BY <1>2, Zenon DEF Fetch, FetchFrom
  <2>2. batch \subseteq Candidates(s.job)
    BY Zenon DEF FirstOf
  <2>3. /\ batch \subseteq Images
        /\ \A i \in batch : /\ image[i] # NULL /\ image[i].age # "new"
                            /\ held[i] = {} \/ image[i].uploader = NULL
    BY <2>2, Zenon DEF Candidates
  <2> HIDE DEF batch
  <2>4. Max(batch) \in 0..MaxImages
    <3>1. Max(batch) \in Images
      BY <1>2, <2>3, MaxInSet, Zenon
    <3> QED
      BY <3>1 DEF Images
  <2>5. s \in Sweeps
    BY SweepFields, Zenon
  <2>6. (Cardinality(batch) = BatchSize) \in BOOLEAN
    OBVIOUS
  <2>7. r \in Sweeps /\ r.todo = batch /\ r.gone = {}
    BY <2>3, <2>4, <2>5, <2>6, Zenon DEF Sweeps
  <2>8. /\ sweep' \in [Sweepers -> Sweeps] /\ sweep'[w] = r
        /\ \A v \in Sweepers \ {w} : sweep'[v] = sweep[v]
    BY <2>1, <2>7, Zenon DEF SweepsOK
  <2>9. selected' = selected \cup batch
    BY <2>1, <2>3, Zenon
  <2> QED
    BY <1>2, <2>1, <2>3, <2>7, <2>8, <2>9, Zenon DEF Lists
<1> QED
  BY <1>1, <1>2, Zenon

(* That is what the loop over a batch does. *)
LEMMA DeleteEffect ==
  ASSUME SweepsOK, NEW w \in Sweepers, DeleteStored(w) \/ DeleteStoredFails(w)
  PROVE  \E i \in Images : Removes(w, i)
<1> DEFINE s == sweep[w]
           i == Min(s.todo)
<1>1. PICK ok \in BOOLEAN : DeleteNext(w, ok)
  BY Zenon DEF DeleteStored, DeleteStoredFails
<1>2. faults' = faults \/ (faults' = faults + 1 /\ faults < MaxFaults)
  BY Zenon DEF DeleteStored, DeleteStoredFails, Fault
<1>3. s \in Sweeps /\ s.todo \subseteq Images /\ s.gone \subseteq Images /\ s.step = "delete"
  BY <1>1, SweepFields, Zenon DEF DeleteNext, InSweep
<1>4. i \in s.todo /\ i \in Images
  <2>1. s.todo # {} /\ s.todo \subseteq Nat
    BY <1>3, MediaAssumption DEF SweepsOK, Images
  <2> QED
    BY <1>3, <2>1, MinInSet, Zenon
<1> DEFINE g == IF ok THEN s.gone \cup {i} ELSE s.gone
           p == IF s.todo = {i} THEN "rows" ELSE s.step
           r == [s EXCEPT !.todo = s.todo \ {i}, !.gone = g, !.step = p]
<1>5. /\ sweep' = [sweep EXCEPT ![w] = r]
      /\ object' = IF ok THEN object \ {i} ELSE object
      /\ UNCHANGED <<pending, promoted, rowsVars, peopleVars, req, jobLock, selected>>
  BY <1>1, Zenon DEF DeleteNext
<1>6. g \subseteq Images /\ p \in {"rows", "delete"} /\ (p = "delete" => s.todo \ {i} # {})
  BY <1>3, <1>4, Zenon
<1>7. (ok => g = s.gone \cup {i}) /\ (~ok => g = s.gone)
  OBVIOUS
<1> HIDE DEF i, g, p
<1>8. r \in Sweeps /\ r.todo = s.todo \ {i} /\ r.gone = g /\ r.step = p
  BY <1>3, <1>6, Zenon DEF Sweeps
<1>9. /\ sweep' \in [Sweepers -> Sweeps] /\ sweep'[w] = r
      /\ \A v \in Sweepers \ {w} : sweep'[v] = sweep[v]
  BY <1>5, <1>8, Zenon DEF SweepsOK
<1>10. Removes(w, i)
  BY <1>2, <1>4, <1>5, <1>6, <1>7, <1>8, <1>9, Zenon DEF Removes
<1> QED
  BY <1>4, <1>10, Zenon

(* Every step of the specification is one of these. *)
LEMMA NextCases ==
  ASSUME SweepsOK, faults \in Nat, [Next]_vars
  PROVE  AnyStep
<1>1. CASE RequestNext /\ UNCHANGED sweepVars
  <2>1. ASSUME NEW c \in Clients,
               \/ PromoteFails(c) \/ UndoRowFails(c) \/ DeleteObjectFails(c)
               \/ DeleteTokenFails(c) \/ ClaimFails(c) \/ CrashRequest(c)
        PROVE  Abandon(c)
    <3>1. faults < MaxFaults => faults <= MaxFaults
      BY MediaAssumption
    <3> QED
      BY <1>1, <2>1, <3>1, Zenon DEF PromoteFails, UndoRowFails, DeleteObjectFails,
           DeleteTokenFails,
           ClaimFails, CrashRequest, Fault, Abandon
  <2> QED
    BY <1>1, <2>1 DEF RequestNext, RequestCases, AnyStep
<1> QED
  BY <1>1, PausesCases, FetchEffect, DeleteEffect, Zenon
     DEF Next, SweepStep, SweepFault, AnyStep

----------------------------------------------------------------------------
(* The types of requests and of the bucket.                                 *)

(* The copy that is next has a number. *)
LEMMA RoomToCopy ==
  ASSUME Types, NEW c \in Clients, req[c].step \in {"promote", "copy"}
  PROVE  promoted + 1 \in Images
<1>1. c \in Promoting /\ IsFiniteSet(Promoting) /\ Cardinality(Promoting) \in Nat
  BY FS_CardinalityType, Zenon DEF Types, RoomLeft, Promoting
<1>2. Cardinality(Promoting) # 0
  BY <1>1, FS_EmptySet, Zenon
<1> QED
  BY <1>1, <1>2, MediaAssumption DEF Types, BucketOK, RoomLeft, Images

(* Fewer promotions leave at least as much room. *)
LEMMA RoomShrinks ==
  ASSUME Types, Promoting' \subseteq Promoting, promoted' = promoted
  PROVE  RoomLeft'
<1>1. IsFiniteSet(Promoting') /\ Cardinality(Promoting') <= Cardinality(Promoting)
  BY FS_Subset, Zenon DEF Types, RoomLeft
<1>2. Cardinality(Promoting') \in Nat /\ Cardinality(Promoting) \in Nat
  BY <1>1, FS_CardinalityType, Zenon DEF Types, RoomLeft
<1> QED
  BY <1>1, <1>2, MediaAssumption DEF Types, BucketOK, RoomLeft

(* A client that does not begin a promotion. *)
LEMMA PromotingShrinks ==
  ASSUME NEW c \in Clients, Becomes(c, req'[c]),
         req'[c].step \in {"promote", "copy"} => req[c].step \in {"promote", "copy"}
  PROVE  Promoting' \subseteq Promoting
BY Zenon DEF Becomes, Promoting

(* Requests stay as their steps need, and leave room for the promotions that
   have begun. *)
LEMMA RequestsStep ==
  ASSUME Types, AnyStep
  PROVE  RequestsOK' /\ RoomLeft'
<1> USE StepFacts DEF Types
<1> DEFINE Goal == RequestsOK' /\ RoomLeft'
<1>1. CASE UNCHANGED <<req, promoted>>
  <2>1. Promoting' \subseteq Promoting
    BY <1>1, Zenon DEF Promoting
  <2> QED
    BY <1>1, <2>1, RoomShrinks, Zenon DEF RequestsOK
<1>2. ASSUME NEW c \in Clients, Becomes(c, req'[c]), RequestsOK', promoted' = promoted,
             req'[c].step \in {"promote", "copy"} => req[c].step \in {"promote", "copy"}
      PROVE  Goal
  BY <1>2, PromotingShrinks, RoomShrinks, Zenon
<1>3. ASSUME NEW c \in Clients, NEW k \in Keys, NEW u \in Uploaders, Confirm(c, k, u)
      PROVE  Goal
  <2>1. /\ IsFiniteSet(Promoting) /\ Cardinality(Promoting) \in Nat
        /\ promoted + Cardinality(Promoting) < MaxImages /\ promoted' = promoted
    BY <1>3, FS_CardinalityType, Zenon DEF RoomLeft, Confirm, MorePromotions, Promoting,
       bucketVars
  <2>2. Promoting' \subseteq Promoting \cup {c}
    BY <1>3, ConfirmEffect, Zenon DEF Becomes, Promoting
  <2>3. /\ IsFiniteSet(Promoting \cup {c})
        /\ Cardinality(Promoting \cup {c}) \in {Cardinality(Promoting), Cardinality(Promoting) + 1}
    BY <2>1, FS_AddElement, Zenon
  <2>4. IsFiniteSet(Promoting') /\ Cardinality(Promoting') <= Cardinality(Promoting \cup {c})
    BY <2>2, <2>3, FS_Subset, Zenon
  <2>5. Cardinality(Promoting') \in Nat
    BY <2>4, FS_CardinalityType, Zenon
  <2>6. RoomLeft'
    BY <2>1, <2>3, <2>4, <2>5, MediaAssumption DEF BucketOK, RoomLeft
  <2> QED
    BY <1>3, <2>6, ConfirmEffect, Zenon
<1>4. ASSUME NEW c \in Clients, Copy(c) PROVE Goal
  <2>1. promoted + 1 \in Images /\ req[c].step = "copy"
    BY <1>4, RoomToCopy, Zenon DEF Copy, At
  <2>2. CASE UNCHANGED promoted
    BY <1>2, <1>4, <2>1, <2>2, CopyEffect, MediaAssumption, Zenon DEF BucketOK
  <2>3. CASE promoted' = promoted + 1 /\ req'[c].step = "unpend"
    <3>1. Promoting' \subseteq Promoting \ {c} /\ c \in Promoting
      BY <1>4, <2>1, <2>3, CopyEffect, Zenon DEF Becomes, Promoting
    <3>2. /\ IsFiniteSet(Promoting) /\ Cardinality(Promoting) \in Nat
          /\ IsFiniteSet(Promoting \ {c})
          /\ Cardinality(Promoting \ {c}) = Cardinality(Promoting) - 1
      BY <3>1, FS_RemoveElement, FS_CardinalityType, Zenon DEF RoomLeft
    <3>3. IsFiniteSet(Promoting') /\ Cardinality(Promoting') <= Cardinality(Promoting \ {c})
      BY <3>1, <3>2, FS_Subset, Zenon
    <3>4. Cardinality(Promoting') \in Nat
      BY <3>3, FS_CardinalityType, Zenon
    <3>5. RoomLeft'
      BY <2>3, <3>2, <3>3, <3>4, MediaAssumption DEF BucketOK, RoomLeft
    <3> QED
      BY <1>4, <2>1, <3>5, CopyEffect, Zenon
  <2> QED
    BY <1>4, <2>1, <2>2, <2>3, CopyEffect, Zenon
<1>5. CASE RequestCases
  <2>1. ASSUME NEW c \in Clients, Insert(c) \/ \E lost \in BOOLEAN : InsertFails(c, lost)
        PROVE  Goal
    <3>1. Becomes(c, req'[c]) /\ RequestsOK' /\ req'[c].step \notin {"promote", "copy"}
      BY <2>1, DoneEffect, GotoEffect, SMTT(30) DEF Insert, InsertFails, At
    <3> QED
      BY <1>2, <2>1, <3>1, ZenonT(30) DEF Insert, InsertFails, bucketVars
  <2>2. ASSUME NEW c \in Clients, Unpend(c) PROVE Goal
    <3>1. Becomes(c, req'[c]) /\ RequestsOK' /\ req'[c].step \notin {"promote", "copy"}
      BY <2>2, GotoEffect, SMTT(30) DEF Unpend, At
    <3> QED
      BY <1>2, <2>2, <3>1, Zenon DEF Unpend
  <2>3. ASSUME NEW c \in Clients, PromoteHead(c) PROVE Goal
    BY <1>2, <2>3, PromoteHeadEffect, Zenon DEF PromoteHead, bucketVars
  <2>4. ASSUME NEW c \in Clients, IssueTokenFails(c) \/ UndoRow(c) \/ DeleteToken(c)
        PROVE  Goal
    <3>1. Becomes(c, req'[c]) /\ RequestsOK' /\ req'[c].step \notin {"promote", "copy"}
      BY <2>4, GotoEffect, SMTT(30) DEF IssueTokenFails, UndoRow, DeleteToken, At
    <3> QED
      BY <1>2, <2>4, <3>1, Zenon DEF IssueTokenFails, UndoRow, DeleteToken, bucketVars
  <2>5. ASSUME NEW c \in Clients, IssueToken(c) \/ DeleteObject(c) \/ Claim(c)
        PROVE  Goal
    <3>1. Done(c) /\ promoted' = promoted
      BY <2>5, Zenon DEF IssueToken, DeleteObject, Claim, Register, bucketVars
    <3> QED
      BY <1>2, <3>1, DoneEffect, Zenon
  <2>6. ASSUME NEW c \in Clients, NEW i \in Images, DeleteImage(c, i) PROVE Goal
    BY <1>2, <2>6, DeleteImageEffect, Zenon DEF DeleteImage, bucketVars
  <2>7. ASSUME NEW c \in Clients, NEW i \in Images, NEW u \in NewUsers, Signup(c, u, i)
        PROVE Goal
    BY <1>2, <2>7, SignupEffect, Zenon DEF Signup, bucketVars
  <2>8. ASSUME NEW i \in Images, \/ Grow(i) \/ ExpireToken(i)
                                 \/ \E h \in Holders : Attach(i, h) \/ Release(i, h)
        PROVE  Goal
    BY <1>1, <2>8, Zenon DEF Grow, ExpireToken, Attach, Release, bucketVars
  <2>9. ASSUME NEW u \in Leavers, Withdraw(u) \/ Purge(u) PROVE Goal
    BY <1>1, <2>9, Zenon DEF Withdraw, Purge, bucketVars
  <2>10. ASSUME NEW k \in Keys, NEW content, Upload(k, content) PROVE Goal
    BY <1>1, <2>10, Zenon DEF Upload
  <2> QED
    BY <1>3, <1>4, <1>5, <2>1, <2>2, <2>3, <2>4, <2>5, <2>6, <2>7, <2>8, <2>9, <2>10, Zenon
       DEF RequestCases
<1>6. ASSUME NEW c \in Clients, Abandon(c) PROVE Goal
  BY <1>2, <1>6, DoneEffect, Zenon DEF Abandon, bucketVars
<1>7. ASSUME NEW w \in Sweepers, NEW i, Lists(w) \/ Pauses(w) \/ DeleteRows(w) \/ Removes(w, i)
      PROVE  Goal
  BY <1>1, <1>7, Zenon DEF Lists, Pauses, DeleteRows, Removes, requestVars, bucketVars
<1>8. CASE UNCHANGED vars \/ \E j \in Jobs : LockExpires(j)
  BY <1>1, <1>8, Zenon DEF vars, LockExpires, requestVars, bucketVars
<1>9. faults \in Nat
  BY DEF BucketOK
<1> QED
  BY <1>5, <1>6, <1>7, <1>8, <1>9, Zenon DEF AnyStep

(* The bucket keeps its types. *)
LEMMA BucketStep ==
  ASSUME Types, AnyStep
  PROVE  BucketOK'
<1> USE MediaAssumption DEF Types, BucketOK, bucketVars
<1>1. CASE UNCHANGED <<bucketVars, faults>>
  BY <1>1, Zenon
<1>2. ASSUME UNCHANGED bucketVars, faults' = faults + 1, faults <= MaxFaults PROVE BucketOK'
  BY <1>2
<1>3. ASSUME UNCHANGED <<pending, promoted>>, object' \subseteq object,
             faults' = faults \/ (faults' = faults + 1 /\ faults < MaxFaults)
      PROVE  BucketOK'
  BY <1>3
<1>4. CASE RequestCases
  <2>1. ASSUME NEW k \in Keys, NEW content \in {"valid", "invalid"}, Upload(k, content)
        PROVE  BucketOK'
    BY <2>1, ZenonT(30) DEF Upload
  <2>2. ASSUME NEW c \in Clients, Copy(c) PROVE BucketOK'
    <3>1. promoted + 1 \in Images
      BY <2>2, RoomToCopy, Zenon DEF Copy, At
    <3>2. \/ UNCHANGED <<object, promoted>>
          \/ promoted' = promoted + 1 /\ object' = object \cup {promoted + 1}
      BY <2>2, <3>1, CopyEffect, Zenon
    <3> QED
      BY <2>2, <3>1, <3>2 DEF Copy, Images
  <2>3. ASSUME NEW c \in Clients, Unpend(c) PROVE BucketOK'
    <3>1. req[c].key \in Keys
      BY <2>3, RequestFields, StepFacts, SMTT(30) DEF Unpend, At
    <3> QED
      BY <2>3, <3>1, Zenon DEF Unpend
  <2>4. ASSUME NEW c \in Clients, DeleteObject(c) PROVE BucketOK'
    BY <1>3, <2>4, Zenon DEF DeleteObject
  <2>5. ASSUME NEW c \in Clients, NEW lost \in BOOLEAN, IssueTokenFails(c) \/ InsertFails(c, lost)
        PROVE  BucketOK'
    BY <1>3, <2>5, Zenon DEF IssueTokenFails, InsertFails, Fault
  <2>6. ASSUME NEW c \in Clients, \/ PromoteHead(c) \/ Insert(c) \/ IssueToken(c) \/ UndoRow(c)
                                  \/ DeleteToken(c) \/ Claim(c)
        PROVE  BucketOK'
    BY <1>1, <2>6, Zenon DEF PromoteHead, Insert, IssueToken, UndoRow, DeleteToken, Claim,
       Register
  <2>7. ASSUME NEW c \in Clients, NEW i \in Images, NEW u \in NewUsers, Signup(c, u, i)
        PROVE  BucketOK'
    BY <1>1, <2>7, Zenon DEF Signup
  <2>8. ASSUME NEW i \in Images, \/ Grow(i) \/ ExpireToken(i)
                                 \/ \E h \in Holders : Attach(i, h) \/ Release(i, h)
        PROVE  BucketOK'
    BY <1>1, <2>8, Zenon DEF Grow, ExpireToken, Attach, Release
  <2>9. ASSUME NEW u \in Leavers, Withdraw(u) \/ Purge(u) PROVE BucketOK'
    BY <1>1, <2>9, Zenon DEF Withdraw, Purge
  <2>10. ASSUME NEW c \in Clients, NEW k \in Keys, NEW u \in Uploaders, Confirm(c, k, u)
         PROVE BucketOK'
    BY <1>1, <2>10, Zenon DEF Confirm
  <2>11. ASSUME NEW c \in Clients, NEW i \in Images, DeleteImage(c, i) PROVE BucketOK'
    BY <1>1, <2>11, Zenon DEF DeleteImage
  <2> QED
    BY <1>4, <2>1, <2>2, <2>3, <2>4, <2>5, <2>6, <2>7, <2>8, <2>9, <2>10, <2>11, Zenon
       DEF RequestCases
<1>5. ASSUME NEW c \in Clients, Abandon(c) PROVE BucketOK'
  BY <1>2, <1>5, Zenon DEF Abandon
<1>6. ASSUME NEW w \in Sweepers, NEW i, Lists(w) \/ Pauses(w) \/ DeleteRows(w) \/ Removes(w, i)
      PROVE  BucketOK'
  BY <1>1, <1>3, <1>6, Zenon DEF Lists, Pauses, DeleteRows, Removes, requestVars
<1>7. CASE UNCHANGED vars \/ \E j \in Jobs : LockExpires(j)
  BY <1>1, <1>7, Zenon DEF vars, LockExpires, requestVars
<1> QED
  BY <1>4, <1>5, <1>6, <1>7, Zenon DEF AnyStep

(* All types are kept. *)
LEMMA TypesStep ==
  ASSUME Types, [Next]_vars
  PROVE  Types'
<1>1. AnyStep
  BY NextCases, SMTT(30) DEF Types, BucketOK
<1> QED
  BY <1>1, BucketStep, RowsStep, PeopleStep, RequestsStep, SweepsStep, Zenon DEF Types

(* They hold at the start. *)
LEMMA TypesInit == Init => Types
<1> SUFFICES ASSUME Init PROVE Types
  OBVIOUS
<1> USE MediaAssumption DEF Init, RequestInit
<1>1. BucketOK /\ RowsOK
  BY DEF BucketOK, RowsOK
<1>2. PeopleOK
  BY Zenon DEF PeopleOK
<1>3. RequestsOK
  BY IdleFields, StepFacts, Zenon DEF RequestsOK
<1>4. SweepsOK
  BY AsleepFields, Zenon DEF SweepsOK
<1>5. RoomLeft
  <2>1. Promoting = {}
    BY IdleFields, Zenon DEF Promoting
  <2> QED
    BY <2>1, FS_EmptySet DEF RoomLeft
<1> QED
  BY <1>1, <1>2, <1>3, <1>4, <1>5, Zenon DEF Types

(* Media and MediaCleanup keep their types, for any number of requests,
   accounts, images and sweepers.  In particular held[i] # {} has a row: no
   order of delete_image, the sweeps' deletes, a rollback and the requests
   that refer to an image leaves a foreign key to a row that is gone; and no
   promotion exceeds the bound that MorePromotions guards. *)
THEOREM TypeCorrect == Spec => []TypeOK
<1>1. Types => TypeOK
  BY Zenon DEF Types, BucketOK, RowsOK, PeopleOK, RequestsOK, SweepsOK, TypeOK, RequestTypeOK
<1>2. Types /\ [Next]_vars => Types'
  BY TypesStep, Zenon
<1> QED
  BY <1>1, <1>2, TypesInit, PTL DEF Spec

----------------------------------------------------------------------------
(* The theorems.                                                            *)

(* Nothing is leaked, or one fault leaks one object at most. *)
LeakStep ==
  \/ Leaked' \subseteq Leaked /\ faults' \in {faults, faults + 1}
  \/ faults' = faults + 1 /\ \E i : Leaked' \subseteq Leaked \cup {i}

(* The facts are kept by the steps of requests, members and the clock, none of
   which leaks an object. *)
LEMMA RequestFacts ==
  ASSUME Types, Facts, RequestCases, UNCHANGED sweepVars
  PROVE  Facts' /\ LeakStep
<1> USE StepFacts, NullFacts
<1> SUFFICES Facts' /\ Leaked' \subseteq Leaked /\ faults' \in {faults, faults + 1}
  BY ZenonT(30) DEF LeakStep
<1>1. ASSUME NEW c \in Clients, Becomes(c, req'[c]), ImgOf(c) = NULL,
             ImgOf(c)' = NULL, StepOf(c)' \notin Naming, UNCHANGED imageVars
      PROVE  Facts' /\ Leaked' \subseteq Leaked
  <2>1. NULL \notin Leaked'
    BY <1>1, Zenon DEF Leaked, imageVars, Types, BucketOK
  <2> QED
    BY <1>1, <2>1, RestFacts, Zenon
<1>2. ASSUME NEW k \in Keys, NEW content, Upload(k, content)
      PROVE  Facts' /\ Leaked' \subseteq Leaked /\ faults' = faults
  <2>1. \A i \in Images : held'[i] # {} => i \in known
    BY <1>2, Zenon DEF Upload, rowsVars, Facts, Kept
  <2> QED
    BY <1>2, <2>1, RowChangeFacts, Zenon DEF Upload, rowsVars, peopleVars
<1>3. ASSUME NEW c \in Clients, NEW k \in Keys, NEW u \in Uploaders, Confirm(c, k, u)
      PROVE  Facts' /\ Leaked' \subseteq Leaked /\ faults' = faults
  <2>1. /\ Becomes(c, req'[c]) /\ ImgOf(c) = NULL
        /\ StepOf(c)' = "promote" /\ ImgOf(c)' = NULL
    BY <1>3, ConfirmEffect, ImgFields, Zenon DEF Types, StepOf, ImgOf
  <2> QED
    BY <1>1, <1>3, <2>1, Zenon DEF Confirm, imageVars, bucketVars, rowsVars, peopleVars
<1>4. ASSUME NEW c \in Clients, PromoteHead(c)
      PROVE  Facts' /\ Leaked' \subseteq Leaked /\ faults' = faults
  <2>1. /\ Becomes(c, req'[c]) /\ ImgOf(c) = NULL
        /\ StepOf(c)' \in {"idle", "copy"} /\ ImgOf(c)' = NULL
    BY <1>4, PromoteHeadEffect, ImgFields, Zenon DEF Types, StepOf, ImgOf
  <2> QED
    BY <1>1, <1>4, <2>1, ZenonT(30) DEF PromoteHead, imageVars, bucketVars, rowsVars, peopleVars
<1>5. ASSUME NEW c \in Clients, Copy(c) \/ Unpend(c) \/ DeleteObject(c)
      PROVE  Facts' /\ Leaked' \subseteq Leaked /\ faults' = faults
  <2>1. Copy(c) => promoted + 1 \in Images
    BY RoomToCopy, Zenon DEF Copy, At
  <2> QED
    BY <1>5, <2>1, CopyFacts, UnpendFacts, DeleteObjectFacts, Zenon
       DEF Copy, Unpend, DeleteObject
<1>6. ASSUME NEW c \in Clients,
             Insert(c) \/ IssueToken(c) \/ UndoRow(c) \/ DeleteToken(c) \/ Claim(c)
      PROVE  Facts' /\ Leaked' \subseteq Leaked /\ faults' = faults
  BY <1>6, InsertFacts, IssueTokenFacts, UndoRowFacts, DeleteTokenFacts, ClaimFacts, Zenon
     DEF Insert, IssueToken, UndoRow, DeleteToken, Claim, Register
<1>7. ASSUME NEW c \in Clients, NEW lost \in BOOLEAN, IssueTokenFails(c) \/ InsertFails(c, lost)
      PROVE  Facts' /\ Leaked' \subseteq Leaked /\ faults' = faults + 1
  BY <1>7, IssueTokenFailsFacts, InsertFailsFacts, ZenonT(30)
     DEF IssueTokenFails, InsertFails, Fault
<1>8. ASSUME NEW c \in Clients, NEW i \in Images,
             DeleteImage(c, i) \/ \E u \in NewUsers : Signup(c, u, i)
      PROVE  Facts' /\ Leaked' \subseteq Leaked /\ faults' = faults
  BY <1>8, DeleteImageFacts, SignupFacts, Zenon DEF DeleteImage, Signup
<1>9. ASSUME NEW i \in Images, Grow(i) \/ ExpireToken(i)
      PROVE  Facts' /\ Leaked' \subseteq Leaked /\ faults' = faults
  BY <1>9, GrowFacts, Zenon DEF Grow, ExpireToken
<1>10. ASSUME \/ \E i \in Images, h \in Holders : Attach(i, h) \/ Release(i, h)
              \/ \E u \in Leavers : Withdraw(u) \/ Purge(u)
       PROVE  Facts' /\ Leaked' \subseteq Leaked /\ faults' = faults
  BY <1>10, MemberFacts, Zenon DEF Attach, Release, Withdraw, Purge
<1> QED
  BY <1>2, <1>3, <1>4, <1>5, <1>6, <1>7, <1>8, <1>9, <1>10, Zenon DEF RequestCases

(* They are kept by every step; only a request that is given up leaks. *)
LEMMA FactsStep ==
  ASSUME Types, Facts, AnyStep
  PROVE  Facts' /\ LeakStep
<1>1. ASSUME NEW c \in Clients, Abandon(c) PROVE Facts' /\ LeakStep
  <2>1. Becomes(c, req'[c]) /\ StepOf(c)' = "idle" /\ ImgOf(c)' = NULL
    BY <1>1, DoneEffect, Zenon DEF Abandon, Types, StepOf, ImgOf
  <2>2. Facts' /\ Leaked' \subseteq Leaked \cup {ImgOf(c)}
    BY <1>1, <2>1, StepFacts, RestFacts, Zenon
       DEF Abandon, imageVars, bucketVars, rowsVars, peopleVars
  <2> QED
    BY <1>1, <2>2, Zenon DEF Abandon, LeakStep
<1>2. ASSUME NEW w \in Sweepers, Lists(w) \/ DeleteRows(w) PROVE Facts' /\ LeakStep
  BY <1>2, ListsFacts, DeleteRowsFacts, Zenon DEF Lists, DeleteRows, requestVars, LeakStep
<1>3. ASSUME NEW w \in Sweepers, Pauses(w) PROVE Facts' /\ LeakStep
  <2>1. Drops(w) /\ UNCHANGED <<imageVars, req, selected>> /\ faults' \in {faults, faults + 1}
    BY <1>3, Zenon DEF Pauses, imageVars, bucketVars, rowsVars, peopleVars
  <2> QED
    BY <2>1, PausesFacts, Zenon DEF LeakStep
<1>4. ASSUME NEW w \in Sweepers, NEW i \in Images, Removes(w, i) PROVE Facts' /\ LeakStep
  <2>1. faults' \in {faults, faults + 1}
    BY <1>4, Zenon DEF Removes
  <2> QED
    BY <1>4, <2>1, RemovesFacts, Zenon DEF LeakStep
<1>5. ASSUME UNCHANGED vars \/ \E j \in Jobs : LockExpires(j) PROVE Facts' /\ LeakStep
  <2>1. UNCHANGED <<object, promoted, image, held, token, known, claims, req, faults, sweep, selected>>
    BY <1>5, Zenon DEF vars, sweepVars, LockExpires, requestVars, bucketVars, rowsVars,
       peopleVars
  <2>2. ListsStay /\ \A c \in Clients : Same(c)
    BY <2>1, Stay, Zenon DEF ListsStay, Listed
  <2>3. Facts'
    BY <2>1, <2>2, SMTT(30) DEF Facts, Numbered, Private, Progress, Kept, Tokens,
             Claims, Swept, ListsStay, Same
  <2>4. Leaked' = Leaked
    BY <2>1, <2>2, Zenon DEF Leaked, Same
  <2> QED
    BY <2>1, <2>3, <2>4, Zenon DEF LeakStep
<1>6. SweepsOK /\ faults \in Nat
  BY DEF Types, BucketOK
<1> QED
  BY <1>1, <1>2, <1>3, <1>4, <1>5, <1>6, RequestFacts, Zenon DEF AnyStep

(* There are finitely many images, so leaked objects can be counted. *)
LEMMA LeakedFinite ==
  ASSUME Types
  PROVE  IsFiniteSet(Leaked) /\ Cardinality(Leaked) \in Nat
<1>1. IsFiniteSet(Images)
  BY MediaAssumption, FS_Interval DEF Images
<1>2. Leaked \subseteq Images
  BY Zenon DEF Leaked, Types, BucketOK
<1> QED
  BY <1>1, <1>2, FS_Subset, FS_CardinalityType, Zenon

(* Each fault has leaked one object at most. *)
LeaksCounted == Cardinality(Leaked) <= faults

(* So it stays. *)
LEMMA LeaksStep ==
  ASSUME Types, LeaksCounted, LeakStep
  PROVE  LeaksCounted'
<1>1. IsFiniteSet(Leaked) /\ Cardinality(Leaked) \in Nat /\ faults \in Nat
  BY LeakedFinite DEF Types, BucketOK
<1>2. CASE Leaked' \subseteq Leaked /\ faults' \in {faults, faults + 1}
  <2>1. IsFiniteSet(Leaked') /\ Cardinality(Leaked') <= Cardinality(Leaked)
    BY <1>1, <1>2, FS_Subset, Zenon
  <2>2. Cardinality(Leaked') \in Nat
    BY <2>1, FS_CardinalityType, Zenon
  <2> QED
    BY <1>1, <1>2, <2>1, <2>2 DEF LeaksCounted
<1>3. CASE faults' = faults + 1 /\ \E i : Leaked' \subseteq Leaked \cup {i}
  <2>1. PICK i : Leaked' \subseteq Leaked \cup {i}
    BY <1>3, Zenon
  <2>2. /\ IsFiniteSet(Leaked \cup {i})
        /\ Cardinality(Leaked \cup {i}) \in {Cardinality(Leaked), Cardinality(Leaked) + 1}
    BY <1>1, FS_AddElement, Zenon
  <2>3. IsFiniteSet(Leaked') /\ Cardinality(Leaked') <= Cardinality(Leaked \cup {i})
    BY <2>1, <2>2, FS_Subset, Zenon
  <2>4. Cardinality(Leaked') \in Nat
    BY <2>3, FS_CardinalityType, Zenon
  <2> QED
    BY <1>1, <1>3, <2>2, <2>3, <2>4 DEF LeaksCounted
<1> QED
  BY <1>2, <1>3, Zenon DEF LeakStep

MediaInv == Types /\ Facts /\ LeaksCounted

(* The inductive invariant of the requests and the sweepers. *)
THEOREM MediaInvariant == Spec => []MediaInv
<1>1. Init => MediaInv
  <2> SUFFICES ASSUME Init PROVE MediaInv
    OBVIOUS
  <2>1. object = {} /\ faults = 0
    BY Zenon DEF Init, RequestInit
  <2>2. Cardinality(Leaked) = 0
    <3>1. Leaked = {}
      BY <2>1, Zenon DEF Leaked
    <3> QED
      BY <3>1, FS_EmptySet, Zenon
  <2>3. LeaksCounted
    BY <2>1, <2>2 DEF LeaksCounted
  <2> QED
    BY <2>3, TypesInit, FactsInit, Zenon DEF MediaInv
<1>2. MediaInv /\ [Next]_vars => MediaInv'
  <2> SUFFICES ASSUME MediaInv, [Next]_vars PROVE MediaInv'
    OBVIOUS
  <2>1. AnyStep
    BY NextCases DEF MediaInv, Types, BucketOK
  <2> QED
    BY <2>1, TypesStep, FactsStep, LeaksStep, Zenon DEF MediaInv
<1> QED
  BY <1>1, <1>2, PTL DEF Spec

(* However many signups read one upload token before either deletes it, and
   whatever accounts are purged in between, claim_image_ownership lets at most
   one of them have the image: a claimed row is without uploader again only
   when it is a day old, and by then no token and no signup names it. *)
THEOREM TokenClaimsOnceHolds == Spec => []TokenClaimsOnce
<1>1. MediaInv => TokenClaimsOnce
  BY DEF MediaInv, Facts, Claims, TokenClaimsOnce
<1> QED
  BY <1>1, MediaInvariant, PTL

(* No interleaving of confirms, rollbacks, delete_image and any number of
   sweepers, with or without the job lock, deletes the file of an image
   something refers to, unless a job selected that image when nothing referred
   to it or it had no uploader. *)
THEOREM HeldHasFileHolds == Spec => []HeldHasFile
<1>1. MediaInv => HeldHasFile
  <2> SUFFICES ASSUME MediaInv, NEW i \in Images, held[i] # {} PROVE i \in object \cup selected
    BY Zenon DEF HeldHasFile
  <2>1. image[i] # NULL
    BY Zenon DEF MediaInv, Types, RowsOK
  <2> QED
    BY <2>1, Zenon DEF MediaInv, Facts, Kept
<1> QED
  BY <1>1, MediaInvariant, PTL

(* The order of the rollbacks (row, then object), of delete_image (row, then
   object) and of the sweeps (object, then row) leaves a permanent object
   without a row only to a request in flight or to a fault, and each fault
   costs one object at most. *)
THEOREM LeaksBoundedByFaultsHolds == Spec => []LeaksBoundedByFaults
<1>1. MediaInv => LeaksBoundedByFaults
  <2> SUFFICES ASSUME MediaInv PROVE LeaksBoundedByFaults
    OBVIOUS
  <2> DEFINE inHand == {req[c].img : c \in Clients}
             lost == {i \in object : image[i] = NULL /\ i \notin inHand}
  <2>1. lost \subseteq Leaked
    BY Zenon DEF Leaked, ImgOf, StepOf
  <2>2. /\ IsFiniteSet(Leaked) /\ Cardinality(Leaked) \in Nat /\ Cardinality(Leaked) <= faults
        /\ faults \in Nat
    BY LeakedFinite DEF MediaInv, LeaksCounted, Types, BucketOK
  <2>3. IsFiniteSet(lost) /\ Cardinality(lost) <= Cardinality(Leaked)
    BY <2>1, <2>2, FS_Subset, Zenon
  <2>4. Cardinality(lost) \in Nat
    BY <2>3, FS_CardinalityType, Zenon
  <2>5. Cardinality(lost) <= faults
    BY <2>2, <2>3, <2>4
  <2> QED
    BY <2>5, Zenon DEF LeaksBoundedByFaults
<1> QED
  BY <1>1, MediaInvariant, PTL
=============================================================================
