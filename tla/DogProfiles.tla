---------------------------- MODULE DogProfiles -----------------------------
(***************************************************************************)
(* The dogs of one user (app/domain/dogs): update_user_profile replaces    *)
(* the whole list, set_representative_dog changes the representative.      *)
(* Neither locks the user's row for the dogs, so that two transactions can *)
(* interleave at every statement under READ COMMITTED: a statement sees    *)
(* what is committed, waits for rows another transaction has written, and  *)
(* skips those deleted meanwhile.  A partial unique index admits one       *)
(* representative per owner.                                               *)
(***************************************************************************)
EXTENDS Naturals, FiniteSets

CONSTANTS
  Edits,      \* transactions
  Dogs,       \* ids of dogs the user has or will have
  OldDogs,    \* those there at the start
  NewDog,     \* the id a transaction creates
  NoDog

ASSUME DogAssumption ==
  /\ IsFiniteSet(Dogs)
  /\ OldDogs \subseteq Dogs
  /\ NewDog \in [Edits -> Dogs \ OldDogs]
  /\ \A s, t \in Edits : NewDog[s] = NewDog[t] => s = t
  /\ NoDog \notin Dogs \cup Edits

VARIABLES
  dog,        \* the committed table: "none", "plain" or "rep"
  wrote,      \* rows a transaction has written and still locks: a function on some dogs
  edit,       \* a transaction
  alone,      \* history: transactions that have not overlapped another
  last        \* history: the last one that committed, or NoDog

dogVars == <<dog, wrote, edit, alone, last>>

-----------------------------------------------------------------------------
Unset == [step |-> "begin", replace |-> TRUE, keep |-> {}, new |-> FALSE, rep |-> NoDog, existing |-> {}, rows |-> {}]
Nothing == [d \in {} |-> "plain"]

DogInit ==
  /\ dog \in [Dogs -> {"none", "plain", "rep"}]
  /\ \A d \in Dogs : (dog[d] = "none") = (d \notin OldDogs)
  /\ Cardinality({d \in Dogs : dog[d] = "rep"}) <= 1
  /\ wrote = [t \in Edits |-> Nothing]
  /\ edit = [t \in Edits |-> Unset]
  /\ alone = Edits
  /\ last = NoDog

Table == {d \in Dogs : dog[d] # "none"}

EditAt(t, step) == edit[t].step = step
EditTo(t, step) == edit' = [edit EXCEPT ![t].step = step]
Running(t) == edit[t].step \notin {"begin", "committed", "failed"}

(* What a transaction sees, which rows others hold, and its next write.    *)
Sees(t, d) == IF d \in DOMAIN wrote[t] THEN wrote[t][d] ELSE dog[d]
Visible(t) == {d \in Dogs : Sees(t, d) # "none"}
Held(t) == UNION {DOMAIN wrote[o] : o \in Edits \ {t}}
Write(t, ds, value) ==
  wrote' = [wrote EXCEPT ![t] =
    [d \in DOMAIN @ \cup ds |-> IF d \in ds THEN value ELSE @[d]]]

Requested(t) == edit[t].keep \cup (IF edit[t].new THEN {NewDog[t]} ELSE {})

Fail(t) ==
  /\ wrote' = [wrote EXCEPT ![t] = Nothing]
  /\ EditTo(t, "failed")

-----------------------------------------------------------------------------
(* A transaction starts: overlapping ones are no longer alone.             *)
Start(t, request) ==
  /\ EditAt(t, "begin")
  /\ edit' = [edit EXCEPT ![t] = request]
  /\ alone' = IF \E o \in Edits : Running(o) THEN alone \ ({t} \cup {o \in Edits : Running(o)})
              ELSE alone
  /\ UNCHANGED <<dog, wrote, last>>

(* upsert_dog_profile with a list of old and new dogs, and set_representative_dog. *)
Replace(t, keep, new, rep) ==
  Start(t, [Unset EXCEPT !.step = "existing", !.keep = keep, !.new = new, !.rep = rep])
SetOne(t, d) == Start(t, [Unset EXCEPT !.step = "find", !.replace = FALSE, !.rep = d])

ReadExisting(t) ==
  /\ EditAt(t, "existing")
  /\ edit' = [edit EXCEPT ![t].step = "owned", ![t].existing = Visible(t)]
  /\ UNCHANGED <<dog, wrote, alone, last>>

(* get_owned_ids_in: a dog that is not the user's is Forbidden.            *)
CheckOwned(t) ==
  /\ EditAt(t, "owned")
  /\ IF edit[t].keep \subseteq Visible(t) THEN EditTo(t, "update") /\ UNCHANGED wrote ELSE Fail(t)
  /\ UNCHANGED <<dog, alone, last>>

(* bulk_update_by_owner, called when a dog is kept.  It gives a list of    *)
(* parameter sets to an ORM UPDATE that has a WHERE clause, which          *)
(* SQLAlchemy 2.0 refuses (InvalidRequestError) without                    *)
(* synchronize_session=None: nothing is sent and the request fails.        *)
UpdateDogs(t) ==
  /\ EditAt(t, "update")
  /\ IF edit[t].keep = {} THEN EditTo(t, "create") /\ UNCHANGED wrote ELSE Fail(t)
  /\ UNCHANGED <<dog, alone, last>>

CreateDogs(t) ==
  /\ EditAt(t, "create")
  /\ Write(t, Requested(t) \ edit[t].keep, "plain")
  /\ EditTo(t, "delete")
  /\ UNCHANGED <<dog, alone, last>>

(* Defect: the ids to delete are read when they are deleted.               *)
DeleteDogsUnread(t) ==
  LET gone == Visible(t) \ Requested(t) IN
  /\ EditAt(t, "delete")
  /\ gone \cap Held(t) = {}
  /\ Write(t, gone, "none")
  /\ EditTo(t, IF edit[t].rep = NoDog THEN "commit" ELSE "clear")
  /\ UNCHANGED <<dog, alone, last>>

(* bulk_delete_by_owner_ids: what was there before and is not requested.   *)
DeleteDogs(t) ==
  LET gone == edit[t].existing \ Requested(t) IN
  /\ EditAt(t, "delete")
  /\ gone \cap Held(t) = {}
  /\ Write(t, gone \cap Visible(t), "none")
  /\ EditTo(t, IF edit[t].rep = NoDog THEN "commit" ELSE "clear")
  /\ UNCHANGED <<dog, alone, last>>

-----------------------------------------------------------------------------
(* set_representative_dog looks the dog up.                                *)
FindDog(t) ==
  /\ EditAt(t, "find")
  /\ IF edit[t].rep \in Visible(t) THEN EditTo(t, "clear") /\ UNCHANGED wrote ELSE Fail(t)
  /\ UNCHANGED <<dog, alone, last>>

(* set_representative: the first UPDATE finds its rows, then waits for     *)
(* those that are held.                                                    *)
FindDogs(t) ==
  /\ EditAt(t, "clear")
  /\ edit' = [edit EXCEPT ![t].step = "clearing", ![t].rows = Visible(t)]
  /\ UNCHANGED <<wrote, dog, alone, last>>

ClearRepresentative(t) ==
  /\ EditAt(t, "clearing")
  /\ edit[t].rows \cap Held(t) = {}
  /\ Write(t, edit[t].rows \cap Visible(t), "plain")
  /\ EditTo(t, "set")
  /\ UNCHANGED <<dog, alone, last>>

Representatives(t) == {d \in Dogs : Sees(t, d) = "rep"}
WroteRep(t, d) == d \in DOMAIN wrote[t] /\ wrote[t][d] = "rep"
InDoubt(t) == {d \in Held(t) : dog[d] = "rep" \/ \E o \in Edits \ {t} : WroteRep(o, d)}

(* The second UPDATE.  A dog that is gone is not set: set_representative_dog *)
(* raises, upsert_dog_profile ignores it.  The index waits for a           *)
(* representative that is not committed and refuses a second one.          *)
SetRepresentative(t) ==
  LET d == edit[t].rep IN
  /\ EditAt(t, "set")
  /\ d \notin Held(t)
  /\ d \in Visible(t) => InDoubt(t) = {}
  /\ IF d \in Visible(t)
       THEN IF Representatives(t) \subseteq {d}
              THEN Write(t, {d}, "rep") /\ EditTo(t, "commit")
              ELSE Fail(t)
       ELSE IF edit[t].replace THEN EditTo(t, "commit") /\ UNCHANGED wrote ELSE Fail(t)
  /\ UNCHANGED <<dog, alone, last>>

CommitEdit(t) ==
  /\ EditAt(t, "commit")
  /\ dog' = [d \in Dogs |-> Sees(t, d)]
  /\ wrote' = [wrote EXCEPT ![t] = Nothing]
  /\ EditTo(t, "committed")
  /\ last' = t
  /\ UNCHANGED alone

(* An error, a lost connection, or the deadlock detector: a statement that *)
(* writes several rows takes them together here, but PostgreSQL one by one. *)
RollBackEdit(t) ==
  /\ Running(t)
  /\ Fail(t)
  /\ UNCHANGED <<dog, alone, last>>

DogNext ==
  \E t \in Edits :
    \/ \E keep \in SUBSET (Dogs \ {NewDog[t]}), new \in BOOLEAN :
         \E rep \in keep \cup {NoDog} \cup (IF new THEN {NewDog[t]} ELSE {}) : Replace(t, keep, new, rep)
    \/ \E d \in Dogs \ {NewDog[t]} : SetOne(t, d)
    \/ ReadExisting(t) \/ CheckOwned(t) \/ UpdateDogs(t) \/ CreateDogs(t) \/ DeleteDogs(t)
    \/ FindDog(t) \/ FindDogs(t) \/ ClearRepresentative(t) \/ SetRepresentative(t)
    \/ CommitEdit(t) \/ RollBackEdit(t)

DogSpec == DogInit /\ [][DogNext]_dogVars

-----------------------------------------------------------------------------
Replaced == {t \in Edits : EditAt(t, "committed") /\ edit[t].replace}

(* A user never has two representatives, whatever transactions overlap.    *)
(* The list is exact too: a dog is in it if and only if it was there at    *)
(* the start or a replacement that committed has created it, and every     *)
(* replacement that found it and committed had it in its list.  So one     *)
(* that overlapped no other leaves exactly the list requested, with the    *)
(* representative requested and no other; of two that overlap, neither     *)
(* deletes what the other creates.                                         *)
ListIsReplaced ==
  LET reps == {d \in Dogs : dog[d] = "rep"}
      created == {NewDog[t] : t \in {o \in Replaced : edit[o].new}}
  IN
  /\ Cardinality(reps) <= 1
  /\ Table = {d \in OldDogs \cup created :
               \A t \in Replaced : d \in edit[t].existing => d \in Requested(t)}
  /\ last \in alone =>
       /\ reps = {edit[last].rep} \ {NoDog}
       /\ edit[last].replace => Table = Requested(last)
=============================================================================
