---------------------------- MODULE MediaCleanup ----------------------------
(***************************************************************************)
(* The image jobs of app/domain/media/service.py next to the requests of   *)
(* Media: every instance runs the loop of app/core/cleanup.py, which first *)
(* removes expired signup images and then images nothing refers to, and an *)
(* administrator may start the second job by hand, without the job lock.   *)
(***************************************************************************)
EXTENDS Media, FiniteSetsExt

CONSTANTS Instances,  \* processes that run the cleanup loop
          Admins,     \* background sweeps started by POST /admin/media/sweep
          BatchSize,  \* MEDIA_CLEANUP_BATCH_SIZE
          Stuck       \* images whose object S3 never deletes

ASSUME CleanupAssumption ==
  /\ Instances \cap Admins = {}
  /\ NULL \notin Instances
  /\ BatchSize \in Nat \ {0}
  /\ Stuck \subseteq Images

Jobs == {"signup", "orphan"}
Sweepers == Instances \cup Admins

VARIABLES
  jobLock,  \* lock:media-signup-cleanup and lock:media-sweep
  sweep,    \* the job run of each sweeper
  selected  \* history: images a job selected when nothing referred to them or
            \* they had no uploader

sweepVars == <<jobLock, sweep, selected>>
vars == <<requestVars, sweepVars>>

FirstJob(w) == IF w \in Instances THEN "signup" ELSE "orphan"
Asleep(w) == [step |-> "lock", job |-> FirstJob(w), cursor |-> 0,
              todo |-> {}, gone |-> {}, full |-> FALSE]
Sweeps == [step : {"lock", "fetch", "delete", "rows", "release"}, job : Jobs,
           cursor : 0..MaxImages, todo : SUBSET Images, gone : SUBSET Images, full : BOOLEAN]

(* Types; in particular a foreign key never refers to a row that is gone. *)
TypeOK ==
  /\ RequestTypeOK
  /\ jobLock \in [Jobs -> Instances \cup {NULL}]
  /\ sweep \in [Sweepers -> Sweeps]
  /\ selected \subseteq Images

Init ==
  /\ RequestInit
  /\ jobLock = [j \in Jobs |-> NULL]
  /\ sweep = [w \in Sweepers |-> Asleep(w)]
  /\ selected = {}

InSweep(w, step) == sweep[w].step = step

(* On to the next batch, or to the end; what belongs to one batch is dropped. *)
SweepTo(w, step) ==
  sweep' = [sweep EXCEPT ![w] =
              [Asleep(w) EXCEPT !.step = step, !.job = sweep[w].job,
                                !.cursor = IF step = "fetch" THEN sweep[w].cursor ELSE 0]]

(* run_once: the signup job, the orphan job, then sleep until the interval
   has elapsed. *)
JobEnds(w) ==
  sweep' = [sweep EXCEPT ![w] =
              IF @.job = "signup" THEN [Asleep(w) EXCEPT !.job = "orphan"]
              ELSE Asleep(w)]

----------------------------------------------------------------------------
(* The job lock *)

(* SET NX: a job whose lock is taken is skipped.  The administrator's sweep
   passes no Redis client and takes no lock. *)
TryAcquire(w) ==
  LET j == sweep[w].job
  IN /\ InSweep(w, "lock")
     /\ IF w \in Admins
        THEN SweepTo(w, "fetch") /\ UNCHANGED jobLock
        ELSE IF jobLock[j] # NULL
        THEN JobEnds(w) /\ UNCHANGED jobLock
        ELSE jobLock' = [jobLock EXCEPT ![j] = w] /\ SweepTo(w, "fetch")
     /\ UNCHANGED <<requestVars, selected>>

(* Redis is down: the job runs without its lock. *)
AcquireFails(w) ==
  /\ InSweep(w, "lock") /\ w \in Instances
  /\ Fault("redisError")
  /\ SweepTo(w, "fetch")
  /\ UNCHANGED <<bucketVars, rowsVars, peopleVars, req, jobLock, selected>>

(* Compare and delete of the own lock value; an error is only logged. *)
ReleaseLock(w) ==
  LET j == sweep[w].job
  IN /\ InSweep(w, "release")
     /\ jobLock' = IF jobLock[j] = w THEN [jobLock EXCEPT ![j] = NULL] ELSE jobLock
     /\ JobEnds(w)
     /\ UNCHANGED <<requestVars, selected>>

ReleaseFails(w) ==
  /\ InSweep(w, "release") /\ w \in Instances
  /\ Fault("redisError")
  /\ JobEnds(w)
  /\ UNCHANGED <<bucketVars, rowsVars, peopleVars, req, jobLock, selected>>

(* The TTL of a lock ends, its holder running or not. *)
LockExpires(j) ==
  /\ jobLock[j] # NULL
  /\ jobLock' = [jobLock EXCEPT ![j] = NULL]
  /\ UNCHANGED <<requestVars, sweep, selected>>

----------------------------------------------------------------------------
(* The keyset loop *)

(* Defect: the query forgets a table that refers to images. *)
CandidatesWithoutUsers(job) ==
  {i \in Images : image[i] # NULL /\ IF job = "signup"
                                     THEN image[i].uploader = NULL /\ image[i].age # "new"
                                     ELSE held[i] \subseteq {"profile"} /\ image[i].age = "day"}

(* get_expired_signup_images and get_orphan_images_older_than *)
Candidates(job) ==
  {i \in Images : image[i] # NULL /\ IF job = "signup"
                                     THEN image[i].uploader = NULL /\ image[i].age # "new"
                                     ELSE held[i] = {} /\ image[i].age = "day"}

FirstOf(s, n) == {i \in s : Cardinality({j \in s : j < i}) < n}

FetchFrom(w, cursor) ==
  LET s == sweep[w]
      batch == FirstOf({i \in Candidates(s.job) : i > cursor}, BatchSize)
  IN /\ InSweep(w, "fetch")
     /\ IF batch = {}
        THEN SweepTo(w, "release") /\ UNCHANGED selected
        ELSE /\ sweep' = [sweep EXCEPT ![w] =
                            [s EXCEPT !.step = "delete", !.cursor = Max(batch), !.todo = batch,
                                      !.gone = {}, !.full = (Cardinality(batch) = BatchSize)]]
             /\ selected' = selected \cup {i \in batch : held[i] = {} \/ image[i].uploader = NULL}
     /\ UNCHANGED <<requestVars, jobLock>>

(* Defect: every batch starts from the first row again. *)
FetchFromStart(w) == FetchFrom(w, 0)

(* One batch, by id after the last one of the batch before. *)
Fetch(w) == FetchFrom(w, sweep[w].cursor)

(* storage_delete of one image of the batch, outside any transaction; an
   image whose object was not deleted keeps its row. *)
DeleteNext(w, ok) ==
  LET s == sweep[w]
      i == Min(s.todo)
  IN /\ InSweep(w, "delete")
     /\ sweep' = [sweep EXCEPT ![w] =
                    [s EXCEPT !.todo = @ \ {i}, !.gone = IF ok THEN @ \cup {i} ELSE @,
                              !.step = IF s.todo = {i} THEN "rows" ELSE @]]
     /\ object' = IF ok THEN object \ {i} ELSE object
     /\ UNCHANGED <<pending, promoted, rowsVars, peopleVars, req, jobLock, selected>>

DeleteStored(w) == DeleteNext(w, Min(sweep[w].todo) \notin Stuck) /\ UNCHANGED faults

DeleteStoredFails(w) == DeleteNext(w, FALSE) /\ Fault("storageError")

(* delete_images_by_ids in a transaction of its own; the loop goes on after a
   full batch. *)
DeleteRows(w) ==
  /\ InSweep(w, "rows")
  /\ DropRows(sweep[w].gone)
  /\ SweepTo(w, IF sweep[w].full THEN "fetch" ELSE "release")
  /\ UNCHANGED <<bucketVars, peopleVars, req, faults, jobLock, selected>>

(* The transaction fails: the job ends, its lock is released. *)
DeleteRowsFails(w) ==
  /\ InSweep(w, "rows") /\ sweep[w].gone # {}
  /\ Fault("dbError")
  /\ SweepTo(w, "release")
  /\ UNCHANGED <<bucketVars, rowsVars, peopleVars, req, jobLock, selected>>

(* The process of a job dies and comes back; its lock stays until the TTL. *)
CrashSweep(w) ==
  /\ ~InSweep(w, "lock")
  /\ Fault("crash")
  /\ sweep' = [sweep EXCEPT ![w] = Asleep(w)]
  /\ UNCHANGED <<bucketVars, rowsVars, peopleVars, req, jobLock, selected>>

SweepStep(w) ==
  TryAcquire(w) \/ Fetch(w) \/ DeleteStored(w) \/ DeleteRows(w) \/ ReleaseLock(w)

SweepFault(w) ==
  AcquireFails(w) \/ ReleaseFails(w) \/ DeleteStoredFails(w) \/ DeleteRowsFails(w) \/ CrashSweep(w)

Next ==
  \/ RequestNext /\ UNCHANGED sweepVars
  \/ \E w \in Sweepers : SweepStep(w) \/ SweepFault(w)
  \/ \E j \in Jobs : LockExpires(j)

(* The loop of every instance goes on and a lock's TTL ends; requests,
   administrators and the clock owe nothing. *)
Fairness ==
  /\ \A w \in Instances : WF_vars(SweepStep(w))
  /\ \A j \in Jobs : WF_vars(LockExpires(j))

Spec == Init /\ [][Next]_vars /\ Fairness

----------------------------------------------------------------------------
(* An image that something refers to keeps its file, unless a job had selected
   it when nothing referred to it or it had no uploader: the jobs delete by id
   what they selected earlier and do not look again, and the signup job asks
   for no reference, so an image attached or claimed since, or one in a post
   of a purged account, goes all the same. *)
HeldHasFile ==
  \A i \in Images : held[i] # {} => i \in object \cup selected

(* Two signups may both read an upload token before either deletes it; the
   claim of claim_image_ownership lets one of them have the image. *)
TokenClaimsOnce == \A i \in Images : claims[i] <= 1

(* A permanent object without a row, which no job can find, is in the hands
   of a request or the price of a fault: one object for one fault at most. *)
LeaksBoundedByFaults ==
  LET inHand == {req[c].img : c \in Clients}
  IN Cardinality({i \in object : image[i] = NULL /\ i \notin inHand}) <= faults

(* An image that nothing refers to and that is a day old is eventually
   removed, although the deletion of an image before it fails for ever: the
   cursor passes over what could not be deleted. *)
OrphanIsSwept ==
  \A i \in Images \ Stuck :
    i \in Candidates("orphan") ~> (image[i] = NULL \/ held[i] # {})
=============================================================================
