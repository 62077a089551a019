----------------------------- MODULE MCServices -----------------------------
(***************************************************************************)
(* Six services that share no state, checked together: `part` chooses,     *)
(* in the initial state, the one whose steps are taken, so that their      *)
(* state spaces add up instead of multiplying.                             *)
(***************************************************************************)
EXTENDS SnsDelivery, NotificationStream, CacheAside, DogProfiles, PostEditing, TLC

CONSTANTS i1, i2, tab1, tab2, tab3, v1, v2, p1, p2, t1, t2, t3

VARIABLE part

MCStreamUser == tab1 :> 1 @@ tab2 :> 1 @@ tab3 :> 1
MCStreamHost == tab1 :> i1 @@ tab2 :> i1 @@ tab3 :> i2
MCAddressee == [n \in 1..MaxNotes |-> 1]
MCAuthorOf == p1 :> v1 @@ p2 :> v2
MCNewDog == t1 :> 3 @@ t2 :> 4 @@ t3 :> 5
MCTagLists == {<<"#B", "b", "a">>, <<"b">>, <<"!">>}
MCCanonical == "a" :> "a" @@ "b" :> "b" @@ "#B" :> "b" @@ "!" :> Blank

Parts == {"sns", "streams", "table", "cache", "dogs", "edits"}

Init ==
  /\ part \in Parts
  /\ faults = 0
  /\ SnsInit
  /\ StreamInit
  /\ CacheInit
  /\ DogInit
  /\ PatchInit
  /\ part = "sns" \/ celery
  /\ \A d \in Dogs : dog[d] = "rep" => part = "dogs" /\ d = 1  \* the old dogs are interchangeable

(* Bound: the third transaction, if it begins, commits before the others   *)
(* begin and leaves an empty list; no list names the dog it would create,  *)
(* and none keeps more than one.                                           *)
DogBound ==
  /\ edit'[t3] = [Unset EXCEPT !.step = edit'[t3].step, !.existing = edit'[t3].existing]
  /\ edit'[t3].step # "failed"
  /\ \A t \in Edits \ {t3} :
       /\ edit'[t].step = "begin" \/ ~Running(t3)'
       /\ NewDog[t3] \notin edit'[t].keep \cup {edit'[t].rep}
       /\ Cardinality(edit'[t].keep) <= 1

Next ==
  /\ UNCHANGED part
  /\ \/ part = "sns" /\ SnsNext /\ UNCHANGED <<streamState, cacheState, dogVars, patchVars>>
     \/ part = "streams" /\ StreamNext /\ UNCHANGED <<snsState, cacheState, dogVars, patchVars>>
     \/ /\ part = "table"
        /\ TableNext
        /\ UNCHANGED <<snsState, registered, queue, notify, reaching, fanOutVars, cacheState,
                       dogVars, patchVars, faults>>
     \/ part = "cache" /\ CacheNext /\ UNCHANGED <<snsState, streamState, dogVars, patchVars>>
     \/ /\ part = "dogs"
        /\ DogNext /\ DogBound
        /\ UNCHANGED <<snsState, streamState, cacheState, patchVars, faults>>
     \/ part = "edits" /\ PatchNext /\ UNCHANGED <<snsState, streamState, cacheState, dogVars, faults>>

vars == <<part, snsState, streamState, cacheState, dogVars, patchVars, faults>>

Spec == Init /\ [][Next]_vars /\ SnsFairness
=============================================================================
