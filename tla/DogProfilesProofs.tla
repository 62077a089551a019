------------------------- MODULE DogProfilesProofs -------------------------
(***************************************************************************)
(* ListIsReplaced for any dogs and any number of overlapping transactions. *)
(***************************************************************************)
EXTENDS DogProfiles, FiniteSetTheorems, TLAPS

Values == {"none", "plain", "rep"}
Written == UNION {[S -> Values] : S \in SUBSET Dogs}
Steps == {"begin", "existing", "owned", "update", "create", "delete", "find",
          "clear", "clearing", "set", "commit", "committed", "failed"}
Requests == [step : Steps, replace : BOOLEAN, keep : SUBSET Dogs, new : BOOLEAN,
             rep : Dogs \cup {NoDog}, existing : SUBSET Dogs, rows : SUBSET Dogs]

DogTypeOK ==
  /\ dog \in [Dogs -> Values]
  /\ wrote \in [Edits -> Written]
  /\ edit \in [Edits -> Requests]
  /\ alone \subseteq Edits
  /\ last \in Edits \cup {NoDog}

(* What a transaction that runs alone has achieved at each of its steps.   *)
Goal(t) ==
  /\ Representatives(t) = {edit[t].rep} \ {NoDog}
  /\ edit[t].replace => Visible(t) = Requested(t)

ReplaceStage(t) ==
  /\ edit[t].rep \in Requested(t) \cup {NoDog}
  /\ edit[t].step # "find"
  /\ edit[t].step \in {"existing", "owned", "update", "create"} => wrote[t] = Nothing
  /\ edit[t].step \in {"owned", "update", "create", "delete"} => edit[t].existing = Table
  /\ edit[t].step = "create" => edit[t].keep = {}
  /\ edit[t].step = "delete" =>
       \A d \in Dogs : Sees(t, d) = IF d \in Requested(t) THEN "plain" ELSE dog[d]
  /\ edit[t].step \in {"clear", "clearing", "set"} =>
       /\ edit[t].rep # NoDog
       /\ \A d \in Dogs : Sees(t, d) = IF d \in Requested(t) THEN "plain" ELSE "none"

SetOneStage(t) ==
  /\ edit[t].rep \in Dogs
  /\ edit[t].step \in {"find", "clear", "clearing", "set", "commit"}
  /\ edit[t].step \in {"clear", "clearing", "set"} => edit[t].rep \in Visible(t)

Stage(t) ==
  /\ edit[t].replace => ReplaceStage(t)
  /\ ~edit[t].replace => SetOneStage(t)
  /\ edit[t].step = "clearing" => edit[t].rows = Visible(t)
  /\ edit[t].step = "set" => Representatives(t) = {}
  /\ edit[t].step = "commit" => Goal(t)

(* The index at work: one committed representative, one written by a       *)
(* running transaction, which then sees no other.                          *)
IndexOK ==
  /\ \A d, e \in Dogs : dog[d] = "rep" /\ dog[e] = "rep" => d = e
  /\ \A s, t \in Edits, d, e \in Dogs : WroteRep(s, d) /\ WroteRep(t, e) => s = t
  /\ \A t \in Edits, d, e \in Dogs : WroteRep(t, d) /\ Sees(t, e) = "rep" => d = e

(* A transaction that runs alone is at its stage, and the last one to      *)
(* commit, if it was alone, has reached its goal.                          *)
AloneOK ==
  /\ \A t \in Edits : ~Running(t) => wrote[t] = Nothing
  /\ \A t \in alone, o \in Edits : Running(t) /\ Running(o) => o = t
  /\ \A t \in alone : Running(t) => Stage(t)
  /\ last \in alone =>
       /\ edit[last].step = "committed"
       /\ {d \in Dogs : dog[d] = "rep"} = {edit[last].rep} \ {NoDog}
       /\ edit[last].replace => Table = Requested(last)

DogInv == DogTypeOK /\ IndexOK /\ AloneOK

-----------------------------------------------------------------------------
(* What a write does to the rows its transaction sees and has written.     *)
LEMMA WriteSees ==
  ASSUME DogTypeOK, NEW t \in Edits, NEW ds \in SUBSET Dogs, NEW v \in Values,
         Write(t, ds, v), dog' = dog
  PROVE  /\ wrote' \in [Edits -> Written]
         /\ \A o \in Edits \ {t} : wrote'[o] = wrote[o]
         /\ \A d \in Dogs : Sees(t, d)' = IF d \in ds THEN v ELSE Sees(t, d)
         /\ \A d \in Dogs : WroteRep(t, d)' = IF d \in ds THEN v = "rep" ELSE WroteRep(t, d)
<1> DEFINE new == [d \in DOMAIN wrote[t] \cup ds |-> IF d \in ds THEN v ELSE wrote[t][d]]
<1>1. PICK S \in SUBSET Dogs : wrote[t] \in [S -> Values]
  BY DEF DogTypeOK, Written
<1>2. new \in [S \cup ds -> Values]
  BY <1>1, Zenon
<1>3. new \in Written
  BY <1>2, Zenon DEF Written
<1>4. wrote' = [wrote EXCEPT ![t] = new]
  BY Zenon DEF Write
<1>5. wrote'[t] = new /\ \A o \in Edits \ {t} : wrote'[o] = wrote[o]
  BY <1>4, Zenon DEF DogTypeOK
<1>6. wrote' \in [Edits -> Written]
  BY <1>3, <1>4, Zenon DEF DogTypeOK
<1>7. \A d \in Dogs : Sees(t, d)' = IF d \in ds THEN v ELSE Sees(t, d)
  BY <1>1, <1>5, Zenon DEF Sees
<1>8. \A d \in Dogs : WroteRep(t, d)' = IF d \in ds THEN v = "rep" ELSE WroteRep(t, d)
  BY <1>1, <1>5, Zenon DEF WroteRep
<1>9. QED
  BY <1>5, <1>6, <1>7, <1>8, Zenon

(* A transaction moves on and keeps its request.                           *)
SameRequest(t) ==
  /\ edit'[t].replace = edit[t].replace
  /\ edit'[t].keep = edit[t].keep
  /\ edit'[t].new = edit[t].new
  /\ edit'[t].rep = edit[t].rep

(* EditTo.                                                                 *)
LEMMA EditMoves ==
  ASSUME DogTypeOK, NEW t \in Edits, NEW step \in Steps, EditTo(t, step)
  PROVE  /\ edit' \in [Edits -> Requests]
         /\ \A o \in Edits \ {t} : edit'[o] = edit[o]
         /\ edit'[t].step = step
         /\ SameRequest(t)
         /\ edit'[t].existing = edit[t].existing
         /\ edit'[t].rows = edit[t].rows
<1> DEFINE e == [edit[t] EXCEPT !.step = step]
<1>1. edit[t] \in Requests
  BY Zenon DEF DogTypeOK
<1>2. e \in Requests
  BY <1>1, Zenon DEF Requests
<1>3. edit' = [edit EXCEPT ![t] = e]
  BY Zenon DEF EditTo
<1>4. edit'[t] = e /\ edit' \in [Edits -> Requests] /\ \A o \in Edits \ {t} : edit'[o] = edit[o]
  BY <1>2, <1>3, Zenon DEF DogTypeOK
<1>5. QED
  BY <1>1, <1>4, Zenon DEF Requests, SameRequest

TakesRows(t, step, rows) == edit' = [edit EXCEPT ![t].step = step, ![t].rows = rows]

(* A transaction moves on with the rows its statement found.               *)
LEMMA EditTakesRows ==
  ASSUME DogTypeOK, NEW t \in Edits, NEW step \in Steps, NEW rows \in SUBSET Dogs,
         TakesRows(t, step, rows)
  PROVE  /\ edit' \in [Edits -> Requests]
         /\ \A o \in Edits \ {t} : edit'[o] = edit[o]
         /\ edit'[t].step = step
         /\ SameRequest(t)
         /\ edit'[t].existing = edit[t].existing
         /\ edit'[t].rows = rows
<1> DEFINE e == [edit[t] EXCEPT !.step = step, !.rows = rows]
<1>1. edit[t] \in Requests
  BY Zenon DEF DogTypeOK
<1>2. e \in Requests
  BY <1>1, Zenon DEF Requests
<1>3. edit' = [edit EXCEPT ![t] = e]
  BY <1>1, Zenon DEF DogTypeOK, Requests, TakesRows
<1>4. edit'[t] = e /\ edit' \in [Edits -> Requests] /\ \A o \in Edits \ {t} : edit'[o] = edit[o]
  BY <1>2, <1>3, Zenon DEF DogTypeOK
<1>5. QED
  BY <1>1, <1>4, Zenon DEF Requests, SameRequest

(* A transaction sees the three values of a row.                           *)
LEMMA SeesValues ==
  ASSUME DogTypeOK, NEW t \in Edits, NEW d \in Dogs
  PROVE  Sees(t, d) \in Values
<1>1. PICK S \in SUBSET Dogs : wrote[t] \in [S -> Values]
  BY DEF DogTypeOK, Written
<1>2. QED
  BY <1>1, Zenon DEF DogTypeOK, Sees

(* A step of one transaction that leaves the table alone: the index and    *)
(* its own stage are what is to be shown.                                  *)
LEMMA OwnStep ==
  ASSUME DogInv, DogTypeOK', IndexOK', NEW t \in Edits, Running(t),
         dog' = dog, alone' = alone, last' = last,
         \A o \in Edits \ {t} : edit'[o] = edit[o] /\ wrote'[o] = wrote[o],
         Running(t)' \/ wrote'[t] = Nothing,
         t \in alone /\ Running(t)' => Stage(t)'
  PROVE  DogInv'
<1>1. \A o \in Edits : ~Running(o)' => wrote'[o] = Nothing
  BY Zenon DEF DogInv, AloneOK, Running
<1>2. \A s \in alone, o \in Edits : Running(s)' /\ Running(o)' => o = s
  BY Zenon DEF DogInv, DogTypeOK, AloneOK, Running
<1>3. \A s \in alone : Running(s)' => Stage(s)'
  <2>1. ASSUME NEW s \in alone, Running(s)', s # t
        PROVE  FALSE
    BY <2>1, Zenon DEF DogInv, DogTypeOK, AloneOK, Running
  <2>2. QED
    BY <2>1, Zenon
<1>4. last \in alone => last # t /\ edit'[last] = edit[last]
  BY Zenon DEF DogInv, DogTypeOK, AloneOK, Running
<1>5. AloneOK'
  BY <1>1, <1>2, <1>3, <1>4, Zenon DEF DogInv, AloneOK, Table, Requested, Nothing
<1>6. QED
  BY <1>5, Zenon DEF DogInv

(* A step that makes no new representative keeps the index's promise.      *)
LEMMA NoNewRep ==
  ASSUME DogInv, NEW t \in Edits, dog' = dog,
         \A o \in Edits \ {t} : wrote'[o] = wrote[o],
         \A d \in Dogs : WroteRep(t, d)' => WroteRep(t, d),
         \A d, e \in Dogs : WroteRep(t, d)' /\ Sees(t, e)' = "rep" => Sees(t, e) = "rep"
  PROVE  IndexOK'
<1>1. \A o \in Edits \ {t}, d \in Dogs : WroteRep(o, d)' = WroteRep(o, d) /\ Sees(o, d)' = Sees(o, d)
  BY Zenon DEF WroteRep, Sees
<1>2. \A d, e \in Dogs : dog'[d] = "rep" /\ dog'[e] = "rep" => d = e
  BY Zenon DEF DogInv, IndexOK
<1>3. \A r, s \in Edits, d, e \in Dogs : WroteRep(r, d)' /\ WroteRep(s, e)' => r = s
  BY <1>1 DEF DogInv, IndexOK
<1>4. \A s \in Edits, d, e \in Dogs : WroteRep(s, d)' /\ Sees(s, e)' = "rep" => d = e
  BY <1>1 DEF DogInv, IndexOK
<1>5. QED
  BY <1>2, <1>3, <1>4, Zenon DEF IndexOK

(* A transaction that fails gives up what it wrote.                        *)
LEMMA FailStep ==
  ASSUME DogInv, NEW t \in Edits, Running(t), Fail(t), dog' = dog, alone' = alone, last' = last
  PROVE  DogInv'
<1>1. /\ wrote'[t] = Nothing
      /\ \A o \in Edits \ {t} : edit'[o] = edit[o] /\ wrote'[o] = wrote[o]
      /\ edit'[t].step = "failed"
  <2>1. "failed" \in Steps /\ EditTo(t, "failed")
    BY Zenon DEF Steps, Fail
  <2>2. edit'[t].step = "failed" /\ \A o \in Edits \ {t} : edit'[o] = edit[o]
    BY <2>1, EditMoves, Zenon DEF DogInv
  <2>3. QED
    BY <2>2, Zenon DEF Fail, DogInv, DogTypeOK
<1>2. Nothing \in Written
  BY Zenon DEF Nothing, Written, Values
<1>3. DogTypeOK'
  <2>1. "failed" \in Steps /\ EditTo(t, "failed")
    BY Zenon DEF Steps, Fail
  <2>2. edit' \in [Edits -> Requests]
    BY <2>1, EditMoves, Zenon DEF DogInv
  <2>3. QED
    BY <1>2, <2>2, Zenon DEF DogInv, DogTypeOK, Fail
<1>4. \A d \in Dogs : ~WroteRep(t, d)'
  BY <1>1, Zenon DEF WroteRep, Nothing
<1>5. IndexOK'
  BY <1>1, <1>4, NoNewRep, Zenon
<1>6. ~Running(t)'
  BY <1>1, Zenon DEF Running
<1>7. QED
  BY <1>1, <1>3, <1>5, <1>6, OwnStep, Zenon

(* A step that writes plain or deleted rows.                               *)
LEMMA WriteStep ==
  ASSUME DogInv, NEW t \in Edits, Running(t), Running(t)',
         NEW ds \in SUBSET Dogs, NEW v \in {"none", "plain"}, Write(t, ds, v),
         dog' = dog, alone' = alone, last' = last, edit' \in [Edits -> Requests],
         \A o \in Edits \ {t} : edit'[o] = edit[o],
         t \in alone => Stage(t)'
  PROVE  DogInv'
<1>1. v \in Values /\ v # "rep"
  BY Zenon DEF Values
<1>2. /\ wrote' \in [Edits -> Written]
      /\ \A o \in Edits \ {t} : wrote'[o] = wrote[o]
      /\ \A d \in Dogs : Sees(t, d)' = IF d \in ds THEN v ELSE Sees(t, d)
      /\ \A d \in Dogs : WroteRep(t, d)' = IF d \in ds THEN v = "rep" ELSE WroteRep(t, d)
  BY <1>1, WriteSees DEF DogInv
<1>3. DogTypeOK'
  BY <1>2, Zenon DEF DogInv, DogTypeOK
<1>4. \A d \in Dogs : WroteRep(t, d)' => WroteRep(t, d)
  BY <1>1, <1>2, Zenon
<1>5. \A e \in Dogs : Sees(t, e)' = "rep" => Sees(t, e) = "rep"
  BY <1>1, <1>2, Zenon
<1>6. IndexOK'
  BY <1>2, <1>4, <1>5, NoNewRep, Zenon
<1>7. QED
  BY <1>2, <1>3, <1>6, OwnStep, Zenon

(* A step that writes nothing.                                             *)
LEMMA StillStep ==
  ASSUME DogInv, NEW t \in Edits, Running(t), Running(t)', UNCHANGED <<dog, wrote, alone, last>>,
         edit' \in [Edits -> Requests],
         \A o \in Edits \ {t} : edit'[o] = edit[o],
         t \in alone => Stage(t)'
  PROVE  DogInv'
<1>1. DogTypeOK'
  BY Zenon DEF DogInv, DogTypeOK
<1>2. IndexOK'
  BY Zenon DEF DogInv, IndexOK, WroteRep, Sees
<1>3. QED
  BY <1>1, <1>2, OwnStep, Zenon

-----------------------------------------------------------------------------
(* The steps of upsert_dog_profile.                                        *)
LEMMA ReadExistingInv ==
  ASSUME DogInv, NEW t \in Edits, ReadExisting(t)
  PROVE  DogInv'
<1> DEFINE e == [edit[t] EXCEPT !.step = "owned", !.existing = Visible(t)]
<1>1. edit[t] \in Requests /\ edit[t].step = "existing"
  BY Zenon DEF DogInv, DogTypeOK, ReadExisting, EditAt
<1>2. e \in Requests
  BY <1>1, Zenon DEF Requests, Steps, Visible
<1>3. edit' = [edit EXCEPT ![t] = e]
  BY <1>1, Zenon DEF DogInv, DogTypeOK, Requests, ReadExisting
<1>4. edit'[t] = e /\ edit' \in [Edits -> Requests] /\ \A o \in Edits \ {t} : edit'[o] = edit[o]
  BY <1>2, <1>3, Zenon DEF DogInv, DogTypeOK
<1>5. SameRequest(t) /\ edit'[t].step = "owned" /\ edit'[t].existing = Visible(t)
  BY <1>1, <1>4, Zenon DEF Requests, SameRequest
<1>6. Running(t) /\ Running(t)'
  BY <1>1, <1>5, Zenon DEF Running
<1>7. UNCHANGED <<dog, wrote, alone, last>>
  BY Zenon DEF ReadExisting
<1>8. ASSUME t \in alone PROVE Stage(t)'
  <2>1. Stage(t) /\ edit[t].replace
    BY <1>1, <1>6, <1>8, Zenon DEF DogInv, AloneOK, Stage, SetOneStage
  <2>2. wrote[t] = Nothing
    BY <1>1, <2>1, Zenon DEF Stage, ReplaceStage
  <2>3. Visible(t) = Table
    BY <2>2, Zenon DEF Visible, Table, Sees, Nothing
  <2>4. QED
    BY <1>1, <1>5, <1>7, <2>1, <2>2, <2>3
    DEF Stage, ReplaceStage, SameRequest, Requested, Table, Nothing
<1>9. QED
  BY <1>4, <1>6, <1>7, <1>8, StillStep, Zenon

(* A step that fails the transaction or moves it on before it has written. *)
LEMMA CheckStep ==
  ASSUME DogInv, NEW t \in Edits, NEW step \in {"update", "create"},
         edit[t].step \in {"owned", "update"},
         Fail(t) \/ (EditTo(t, step) /\ wrote' = wrote /\ (step = "create" => edit[t].keep = {})),
         dog' = dog, alone' = alone, last' = last
  PROVE  DogInv'
<1>1. Running(t)
  BY Zenon DEF Running
<1>2. CASE Fail(t)
  BY <1>1, <1>2, FailStep, Zenon
<1>3. CASE EditTo(t, step) /\ wrote' = wrote /\ (step = "create" => edit[t].keep = {})
  <2>1. step \in Steps
    BY Zenon DEF Steps
  <2>2. /\ edit' \in [Edits -> Requests]
        /\ \A o \in Edits \ {t} : edit'[o] = edit[o]
        /\ edit'[t].step = step
        /\ SameRequest(t)
        /\ edit'[t].existing = edit[t].existing
    BY <1>3, <2>1, EditMoves, Zenon DEF DogInv
  <2>3. Running(t)'
    BY <2>2, Zenon DEF Running
  <2>4. ASSUME t \in alone PROVE Stage(t)'
    <3>1. Stage(t) /\ edit[t].replace
      BY <1>1, <2>4, Zenon DEF DogInv, AloneOK, Stage, SetOneStage
    <3>2. wrote[t] = Nothing /\ edit[t].existing = Table
      BY <3>1, Zenon DEF Stage, ReplaceStage
    <3>3. QED
      BY <1>3, <2>2, <3>1, <3>2
      DEF Stage, ReplaceStage, SameRequest, Requested, Table, Nothing
  <2>5. QED
    BY <1>1, <1>3, <2>2, <2>3, <2>4, StillStep, Zenon
<1>4. QED
  BY <1>2, <1>3, Zenon

(* get_owned_ids_in and bulk_update_by_owner.                              *)
LEMMA CheckOwnedInv ==
  ASSUME DogInv, NEW t \in Edits, CheckOwned(t) \/ UpdateDogs(t)
  PROVE  DogInv'
<1>1. CASE CheckOwned(t)
  BY <1>1, CheckStep, Zenon DEF CheckOwned, EditAt
<1>2. CASE UpdateDogs(t)
  BY <1>2, CheckStep, Zenon DEF UpdateDogs, EditAt
<1>3. QED
  BY <1>1, <1>2, Zenon

(* The new dogs are inserted as plain ones.                                *)
LEMMA CreateDogsInv ==
  ASSUME DogInv, NEW t \in Edits, CreateDogs(t)
  PROVE  DogInv'
<1> DEFINE made == Requested(t) \ edit[t].keep
<1>1. /\ edit[t] \in Requests /\ edit[t].step = "create"
      /\ dog' = dog /\ alone' = alone /\ last' = last
  BY Zenon DEF DogInv, DogTypeOK, CreateDogs, EditAt
<1>2. "delete" \in Steps /\ EditTo(t, "delete")
  BY Zenon DEF Steps, CreateDogs
<1>3. /\ edit' \in [Edits -> Requests]
      /\ \A o \in Edits \ {t} : edit'[o] = edit[o]
      /\ edit'[t].step = "delete"
      /\ SameRequest(t)
      /\ edit'[t].existing = edit[t].existing
  BY <1>2, EditMoves, Zenon DEF DogInv
<1>4. Running(t) /\ Running(t)'
  BY <1>1, <1>3, Zenon DEF Running
<1>5. made \in SUBSET Dogs /\ Write(t, made, "plain")
  BY <1>1, DogAssumption DEF CreateDogs, Requested, Requests
<1>6. \A e \in Dogs : Sees(t, e)' = IF e \in made THEN "plain" ELSE Sees(t, e)
  BY <1>1, <1>5, WriteSees DEF DogInv, Values
<1>7. ASSUME t \in alone PROVE Stage(t)'
  <2>1. Stage(t) /\ edit[t].replace
    BY <1>1, <1>4, <1>7, Zenon DEF DogInv, AloneOK, Stage, SetOneStage
  <2>2. wrote[t] = Nothing /\ edit[t].keep = {}
    BY <1>1, <2>1, Zenon DEF Stage, ReplaceStage
  <2>3. \A e \in Dogs : Sees(t, e) = dog[e]
    BY <2>2, Zenon DEF Sees, Nothing
  <2>4. \A e \in Dogs : Sees(t, e)' = IF e \in Requested(t) THEN "plain" ELSE dog[e]
    BY <1>6, <2>2, <2>3, Zenon
  <2>5. Requested(t)' = Requested(t)
    BY <1>3, Zenon DEF SameRequest, Requested
  <2>6. QED
    BY <1>1, <1>3, <2>1, <2>4, <2>5, Zenon DEF Stage, ReplaceStage, SameRequest, Table
<1>8. QED
  BY <1>1, <1>3, <1>4, <1>5, <1>7, WriteStep, Zenon

(* bulk_delete_by_owner_ids leaves the requested rows only.                *)
LEMMA DeleteDogsInv ==
  ASSUME DogInv, NEW t \in Edits, DeleteDogs(t)
  PROVE  DogInv'
<1> DEFINE gone == (edit[t].existing \ Requested(t)) \cap Visible(t)
           step == IF edit[t].rep = NoDog THEN "commit" ELSE "clear"
<1>1. /\ edit[t] \in Requests /\ edit[t].step = "delete"
      /\ dog' = dog /\ alone' = alone /\ last' = last
  BY Zenon DEF DogInv, DogTypeOK, DeleteDogs, EditAt
<1>2. step \in Steps /\ EditTo(t, step)
  BY Zenon DEF Steps, DeleteDogs
<1>3. /\ edit' \in [Edits -> Requests]
      /\ \A o \in Edits \ {t} : edit'[o] = edit[o]
      /\ edit'[t].step = step
      /\ SameRequest(t)
  BY <1>2, EditMoves, Zenon DEF DogInv
<1>4. Running(t) /\ Running(t)'
  BY <1>1, <1>3, Zenon DEF Running
<1>5. gone \in SUBSET Dogs /\ Write(t, gone, "none")
  BY Zenon DEF DeleteDogs, Visible
<1>6. \A e \in Dogs : Sees(t, e)' = IF e \in gone THEN "none" ELSE Sees(t, e)
  BY <1>1, <1>5, WriteSees DEF DogInv, Values
<1>7. ASSUME t \in alone PROVE Stage(t)'
  <2>1. Stage(t) /\ edit[t].replace
    BY <1>1, <1>4, <1>7, Zenon DEF DogInv, AloneOK, Stage, SetOneStage
  <2>2. /\ edit[t].existing = Table
        /\ edit[t].rep \in Requested(t) \cup {NoDog}
        /\ \A e \in Dogs : Sees(t, e) = IF e \in Requested(t) THEN "plain" ELSE dog[e]
    BY <1>1, <2>1, Zenon DEF Stage, ReplaceStage
  <2>3. \A e \in Dogs : Sees(t, e)' = IF e \in Requested(t) THEN "plain" ELSE "none"
    BY <1>6, <2>2, Zenon DEF Table, Visible
  <2>4. Requested(t)' = Requested(t) /\ Requested(t) \subseteq Dogs
    BY <1>1, <1>3, DogAssumption DEF SameRequest, Requested, Requests
  <2>5. Visible(t)' = Requested(t) /\ Representatives(t)' = {}
    BY <2>3, <2>4, Zenon DEF Visible, Representatives
  <2>6. step = "commit" => Goal(t)'
    BY <1>3, <2>4, <2>5, Zenon DEF Goal, SameRequest
  <2>7. QED
    BY <1>3, <2>1, <2>2, <2>3, <2>4, <2>6 DEF Stage, ReplaceStage, SameRequest
<1>8. QED
  BY <1>1, <1>3, <1>4, <1>5, <1>7, WriteStep, Zenon

-----------------------------------------------------------------------------
(* The steps of set_representative_dog and set_representative.             *)
LEMMA FindDogInv ==
  ASSUME DogInv, NEW t \in Edits, FindDog(t)
  PROVE  DogInv'
<1>1. edit[t] \in Requests /\ edit[t].step = "find" /\ dog' = dog /\ alone' = alone /\ last' = last
  BY Zenon DEF DogInv, DogTypeOK, FindDog, EditAt
<1>2. Running(t)
  BY <1>1, Zenon DEF Running
<1>3. CASE Fail(t)
  BY <1>1, <1>2, <1>3, FailStep, Zenon
<1>4. CASE edit[t].rep \in Visible(t) /\ EditTo(t, "clear") /\ wrote' = wrote
  <2>1. "clear" \in Steps
    BY Zenon DEF Steps
  <2>2. /\ edit' \in [Edits -> Requests]
        /\ \A o \in Edits \ {t} : edit'[o] = edit[o]
        /\ edit'[t].step = "clear"
        /\ SameRequest(t)
    BY <1>4, <2>1, EditMoves, Zenon DEF DogInv
  <2>3. Running(t)'
    BY <2>2, Zenon DEF Running
  <2>4. ASSUME t \in alone PROVE Stage(t)'
    <3>1. Stage(t) /\ ~edit[t].replace
      BY <1>1, <1>2, <2>4, Zenon DEF DogInv, AloneOK, Stage, ReplaceStage
    <3>2. Visible(t)' = Visible(t)
      BY <1>1, <1>4, Zenon DEF Visible, Sees
    <3>3. QED
      BY <1>1, <1>4, <2>2, <3>1, <3>2, Zenon DEF Stage, SetOneStage, SameRequest
  <2>5. QED
    BY <1>1, <1>2, <1>4, <2>2, <2>3, <2>4, StillStep, Zenon
<1>5. QED
  BY <1>3, <1>4, Zenon DEF FindDog

(* The first UPDATE of set_representative finds its rows.                  *)
LEMMA FindDogsInv ==
  ASSUME DogInv, NEW t \in Edits, FindDogs(t)
  PROVE  DogInv'
<1>1. edit[t] \in Requests /\ edit[t].step = "clear" /\ UNCHANGED <<dog, wrote, alone, last>>
  BY Zenon DEF DogInv, DogTypeOK, FindDogs, EditAt
<1>2. "clearing" \in Steps /\ Visible(t) \in SUBSET Dogs /\ TakesRows(t, "clearing", Visible(t))
  BY Zenon DEF Steps, Visible, TakesRows, FindDogs
<1>3. /\ edit' \in [Edits -> Requests]
      /\ \A o \in Edits \ {t} : edit'[o] = edit[o]
      /\ edit'[t].step = "clearing"
      /\ SameRequest(t)
      /\ edit'[t].rows = Visible(t)
  BY <1>2, EditTakesRows, Zenon DEF DogInv
<1>4. Running(t) /\ Running(t)'
  BY <1>1, <1>3, Zenon DEF Running
<1>5. ASSUME t \in alone PROVE Stage(t)'
  <2>1. Stage(t)
    BY <1>4, <1>5, Zenon DEF DogInv, AloneOK
  <2>2. Visible(t)' = Visible(t) /\ \A d \in Dogs : Sees(t, d)' = Sees(t, d)
    BY <1>1, Zenon DEF Visible, Sees
  <2>3. edit[t].replace => ReplaceStage(t)'
    BY <1>1, <1>3, <2>1, <2>2 DEF Stage, ReplaceStage, SameRequest, Requested
  <2>4. ~edit[t].replace => SetOneStage(t)'
    BY <1>1, <1>3, <2>1, <2>2, Zenon DEF Stage, SetOneStage, SameRequest
  <2>5. QED
    BY <1>3, <2>2, <2>3, <2>4, Zenon DEF Stage, SameRequest
<1>6. QED
  BY <1>1, <1>3, <1>4, <1>5, StillStep, Zenon

(* It then clears them: no representative is left.                         *)
LEMMA ClearRepresentativeInv ==
  ASSUME DogInv, NEW t \in Edits, ClearRepresentative(t)
  PROVE  DogInv'
<1> DEFINE cleared == edit[t].rows \cap Visible(t)
<1>1. /\ edit[t] \in Requests /\ edit[t].step = "clearing"
      /\ dog' = dog /\ alone' = alone /\ last' = last
  BY Zenon DEF DogInv, DogTypeOK, ClearRepresentative, EditAt
<1>2. "set" \in Steps /\ EditTo(t, "set")
  BY Zenon DEF Steps, ClearRepresentative
<1>3. /\ edit' \in [Edits -> Requests]
      /\ \A o \in Edits \ {t} : edit'[o] = edit[o]
      /\ edit'[t].step = "set"
      /\ SameRequest(t)
  BY <1>2, EditMoves, Zenon DEF DogInv
<1>4. Running(t) /\ Running(t)'
  BY <1>1, <1>3, Zenon DEF Running
<1>5. cleared \in SUBSET Dogs /\ Write(t, cleared, "plain")
  BY Zenon DEF ClearRepresentative, Visible
<1>6. \A e \in Dogs : Sees(t, e)' = IF e \in cleared THEN "plain" ELSE Sees(t, e)
  BY <1>1, <1>5, WriteSees DEF DogInv, Values
<1>7. ASSUME t \in alone PROVE Stage(t)'
  <2>1. Stage(t) /\ edit[t].rows = Visible(t)
    BY <1>1, <1>4, <1>7, Zenon DEF DogInv, AloneOK, Stage
  <2>2. \A e \in Dogs : Sees(t, e)' = IF e \in Visible(t) THEN "plain" ELSE "none"
    BY <1>6, <2>1, Zenon DEF Visible
  <2>3. Visible(t)' = Visible(t) /\ Representatives(t)' = {}
    BY <2>2, Zenon DEF Visible, Representatives
  <2>4. edit[t].replace => ReplaceStage(t)'
    <3>1. SUFFICES ASSUME edit[t].replace PROVE ReplaceStage(t)'
      OBVIOUS
    <3>2. /\ edit[t].rep # NoDog /\ edit[t].rep \in Requested(t)
          /\ \A e \in Dogs : Sees(t, e) = IF e \in Requested(t) THEN "plain" ELSE "none"
      BY <1>1, <2>1, <3>1, Zenon DEF Stage, ReplaceStage
    <3>3. \A e \in Dogs : Sees(t, e)' = IF e \in Requested(t) THEN "plain" ELSE "none"
      BY <2>2, <3>2, Zenon DEF Visible
    <3>4. QED
      BY <1>3, <3>2, <3>3, Zenon DEF ReplaceStage, SameRequest, Requested
  <2>5. ~edit[t].replace => SetOneStage(t)'
    BY <1>1, <1>3, <2>1, <2>3, Zenon DEF Stage, SetOneStage, SameRequest
  <2>6. QED
    BY <1>3, <2>3, <2>4, <2>5, Zenon DEF Stage, SameRequest
<1>8. QED
  BY <1>1, <1>3, <1>4, <1>5, <1>7, WriteStep, Zenon

(* The index admits the representative of a transaction that sees no other *)
(* and waits for nobody's.                                                 *)
LEMMA NewRep ==
  ASSUME DogInv, NEW t \in Edits, NEW d \in Dogs, Write(t, {d}, "rep"), dog' = dog,
         InDoubt(t) = {}, Representatives(t) \subseteq {d}
  PROVE  IndexOK'
<1>1. /\ \A o \in Edits \ {t} : wrote'[o] = wrote[o]
      /\ \A e \in Dogs : Sees(t, e)' = IF e \in {d} THEN "rep" ELSE Sees(t, e)
      /\ \A e \in Dogs : WroteRep(t, e)' = IF e \in {d} THEN "rep" = "rep" ELSE WroteRep(t, e)
  BY WriteSees DEF DogInv, Values
<1>2. \A o \in Edits \ {t}, e \in Dogs : WroteRep(o, e)' = WroteRep(o, e) /\ Sees(o, e)' = Sees(o, e)
  BY <1>1, Zenon DEF WroteRep, Sees
<1>3. \A o \in Edits \ {t}, e \in Dogs : ~WroteRep(o, e)
  BY Zenon DEF InDoubt, Held, WroteRep
<1>4. \A e \in Dogs : WroteRep(t, e) => e = d
  BY Zenon DEF WroteRep, Representatives, Sees
<1>5. \A e \in Dogs : WroteRep(t, e)' => e = d
  BY <1>1, <1>4, Zenon
<1>6. \A e \in Dogs : Sees(t, e)' = "rep" => e = d
  BY <1>1, Zenon DEF Representatives
<1>7. \A r, s \in Edits, e, f \in Dogs : WroteRep(r, e)' /\ WroteRep(s, f)' => r = s
  BY <1>2, <1>3, Zenon
<1>8. \A s \in Edits, e, f \in Dogs : WroteRep(s, e)' /\ Sees(s, f)' = "rep" => e = f
  BY <1>2, <1>3, <1>5, <1>6, Zenon
<1>9. QED
  BY <1>7, <1>8, Zenon DEF DogInv, IndexOK

(* The second UPDATE sets the one representative, or fails.                *)
LEMMA SetRepresentativeInv ==
  ASSUME DogInv, NEW t \in Edits, SetRepresentative(t)
  PROVE  DogInv'
<1> DEFINE d == edit[t].rep
<1>1. edit[t] \in Requests /\ edit[t].step = "set" /\ dog' = dog /\ alone' = alone /\ last' = last
  BY Zenon DEF DogInv, DogTypeOK, SetRepresentative, EditAt
<1>2. Running(t)
  BY <1>1, Zenon DEF Running
<1>3. CASE Fail(t)
  BY <1>1, <1>2, <1>3, FailStep, Zenon
<1>4. ASSUME EditTo(t, "commit")
      PROVE  /\ edit' \in [Edits -> Requests]
             /\ \A o \in Edits \ {t} : edit'[o] = edit[o]
             /\ edit'[t].step = "commit"
             /\ SameRequest(t)
             /\ Running(t)'
  <2>1. "commit" \in Steps
    BY Zenon DEF Steps
  <2>2. QED
    BY <1>4, <2>1, EditMoves, Zenon DEF DogInv, Running
<1>5. ASSUME t \in alone
      PROVE  /\ d \in Visible(t) /\ Representatives(t) = {}
             /\ edit[t].replace => Visible(t) = Requested(t) /\ d \in Requested(t) \cup {NoDog}
  <2>1. Stage(t) /\ Representatives(t) = {}
    BY <1>1, <1>2, <1>5, Zenon DEF DogInv, AloneOK, Stage
  <2>2. ASSUME edit[t].replace
        PROVE  Visible(t) = Requested(t) /\ d \in Requested(t)
    <3>1. Requested(t) \subseteq Dogs
      BY <1>1, DogAssumption DEF Requested, Requests
    <3>2. QED
      BY <1>1, <2>1, <2>2, <3>1, Zenon DEF Stage, ReplaceStage, Visible
  <2>3. ~edit[t].replace => d \in Visible(t)
    BY <1>1, <2>1, Zenon DEF Stage, SetOneStage
  <2>4. QED
    BY <2>1, <2>2, <2>3, Zenon
<1>6. CASE /\ d \in Visible(t) /\ InDoubt(t) = {} /\ Representatives(t) \subseteq {d}
           /\ Write(t, {d}, "rep") /\ EditTo(t, "commit")
  <2>1. d \in Dogs
    BY <1>6, Zenon DEF Visible
  <2>2. /\ wrote' \in [Edits -> Written]
        /\ \A o \in Edits \ {t} : wrote'[o] = wrote[o]
        /\ \A e \in Dogs : Sees(t, e)' = IF e \in {d} THEN "rep" ELSE Sees(t, e)
    BY <1>1, <1>6, <2>1, WriteSees DEF DogInv, Values
  <2>3. DogTypeOK'
    BY <1>1, <1>4, <1>6, <2>2, Zenon DEF DogInv, DogTypeOK
  <2>4. IndexOK'
    BY <1>1, <1>6, <2>1, NewRep, Zenon
  <2>5. ASSUME t \in alone PROVE Stage(t)'
    <3>1. Representatives(t)' = {d} /\ Visible(t)' = Visible(t) /\ d # NoDog
      BY <1>5, <1>6, <2>1, <2>2, <2>5, DogAssumption DEF Representatives, Visible
    <3>2. Requested(t)' = Requested(t)
      BY <1>4, <1>6, Zenon DEF SameRequest, Requested
    <3>3. Goal(t)'
      BY <1>4, <1>5, <1>6, <2>5, <3>1, <3>2, Zenon DEF Goal, SameRequest
    <3>4. Stage(t)
      BY <1>2, <2>5, Zenon DEF DogInv, AloneOK
    <3>5. edit[t].replace => ReplaceStage(t)'
      BY <1>1, <1>4, <1>6, <3>2, <3>4, Zenon DEF Stage, ReplaceStage, SameRequest
    <3>6. ~edit[t].replace => SetOneStage(t)'
      BY <1>1, <1>4, <1>6, <3>4, Zenon DEF Stage, SetOneStage, SameRequest
    <3>7. QED
      BY <1>4, <1>6, <3>3, <3>5, <3>6, Zenon DEF Stage, SameRequest
  <2>6. QED
    BY <1>1, <1>2, <1>4, <1>6, <2>2, <2>3, <2>4, <2>5, OwnStep, Zenon
<1>7. CASE d \notin Visible(t) /\ EditTo(t, "commit") /\ wrote' = wrote
  <2>1. t \notin alone
    BY <1>5, <1>7, Zenon
  <2>2. QED
    BY <1>1, <1>2, <1>4, <1>7, <2>1, StillStep, Zenon
<1>8. QED
  BY <1>3, <1>6, <1>7, Zenon DEF SetRepresentative

(* A commit publishes what the transaction sees.                           *)
LEMMA CommitEditInv ==
  ASSUME DogInv, NEW t \in Edits, CommitEdit(t)
  PROVE  DogInv'
<1>1. /\ edit[t] \in Requests /\ edit[t].step = "commit"
      /\ alone' = alone /\ last' = t /\ Running(t)
  BY Zenon DEF DogInv, DogTypeOK, CommitEdit, EditAt, Running
<1>2. "committed" \in Steps /\ EditTo(t, "committed")
  BY Zenon DEF Steps, CommitEdit
<1>3. /\ edit' \in [Edits -> Requests]
      /\ \A o \in Edits \ {t} : edit'[o] = edit[o]
      /\ edit'[t].step = "committed"
      /\ SameRequest(t)
  BY <1>2, EditMoves, Zenon DEF DogInv
<1>4. Nothing \in Written
  BY Zenon DEF Nothing, Written, Values
<1>5. /\ wrote' \in [Edits -> Written] /\ wrote'[t] = Nothing
      /\ \A o \in Edits \ {t} : wrote'[o] = wrote[o]
  BY <1>4, Zenon DEF DogInv, DogTypeOK, CommitEdit
<1>6. \A d \in Dogs : dog'[d] = Sees(t, d)
  BY Zenon DEF CommitEdit
<1>7. dog' \in [Dogs -> Values]
  BY SeesValues, Zenon DEF DogInv, CommitEdit
<1>8. DogTypeOK'
  BY <1>1, <1>3, <1>5, <1>7, Zenon DEF DogInv, DogTypeOK
<1>9. IndexOK'
  <2>1. \A d, e \in Dogs : dog'[d] = "rep" /\ dog'[e] = "rep" => d = e
    BY <1>6, Zenon DEF DogInv, IndexOK, Sees, WroteRep
  <2>2. \A d \in Dogs : ~WroteRep(t, d)'
    BY <1>5, Zenon DEF WroteRep, Nothing
  <2>3. \A o \in Edits \ {t}, d \in Dogs : WroteRep(o, d)' = WroteRep(o, d)
    BY <1>5, Zenon DEF WroteRep
  <2>4. \A o \in Edits \ {t}, d, e \in Dogs : WroteRep(o, d) /\ Sees(o, e)' = "rep" => d = e
    <3>1. SUFFICES ASSUME NEW o \in Edits \ {t}, NEW d \in Dogs, NEW e \in Dogs,
                          WroteRep(o, d), Sees(o, e)' = "rep"
                   PROVE  Sees(o, e) = "rep"
      BY Zenon DEF DogInv, IndexOK
    <3>2. ~WroteRep(t, e)
      BY <3>1, Zenon DEF DogInv, IndexOK
    <3>3. QED
      BY <1>5, <1>6, <3>1, <3>2, Zenon DEF Sees, WroteRep
  <2>5. QED
    BY <2>1, <2>2, <2>3, <2>4 DEF DogInv, IndexOK
<1>10. \A o \in Edits : ~Running(o)' => wrote'[o] = Nothing
  BY <1>3, <1>5, Zenon DEF DogInv, AloneOK, Running
<1>11. \A s \in alone, o \in Edits : Running(s)' /\ Running(o)' => o = s
  BY <1>3, Zenon DEF DogInv, DogTypeOK, AloneOK, Running
<1>12. \A s \in alone : ~Running(s)' 
  BY <1>1, <1>3, Zenon DEF DogInv, DogTypeOK, AloneOK, Running
<1>13. t \in alone => /\ {d \in Dogs : dog'[d] = "rep"} = {edit'[t].rep} \ {NoDog}
                      /\ edit'[t].replace => Table' = Requested(t)'
  <2>1. SUFFICES ASSUME t \in alone
                 PROVE  /\ {d \in Dogs : dog'[d] = "rep"} = {edit'[t].rep} \ {NoDog}
                        /\ edit'[t].replace => Table' = Requested(t)'
    OBVIOUS
  <2>2. Goal(t)
    BY <1>1, <2>1, Zenon DEF DogInv, AloneOK, Stage
  <2>3. Representatives(t) = {d \in Dogs : dog'[d] = "rep"} /\ Visible(t) = Table'
    BY <1>6, Zenon DEF Representatives, Visible, Table
  <2>4. QED
    BY <1>3, <2>2, <2>3, Zenon DEF Goal, SameRequest, Requested
<1>14. AloneOK'
  BY <1>1, <1>3, <1>10, <1>11, <1>12, <1>13, Zenon DEF AloneOK, Nothing
<1>15. QED
  BY <1>8, <1>9, <1>14, Zenon DEF DogInv

(* An error fails one transaction.                                         *)
LEMMA RollBackEditInv ==
  ASSUME DogInv, NEW t \in Edits, RollBackEdit(t)
  PROVE  DogInv'
<1>1. Running(t) /\ Fail(t) /\ dog' = dog /\ alone' = alone /\ last' = last
  BY Zenon DEF RollBackEdit
<1>2. QED
  BY <1>1, FailStep, Zenon

-----------------------------------------------------------------------------
(* A transaction starts: it is alone only if none runs.                    *)
LEMMA StartInv ==
  ASSUME DogInv, NEW t \in Edits, NEW request \in Requests, Start(t, request),
         request.step \in {"existing", "find"},
         t \in alone' => Stage(t)'
  PROVE  DogInv'
<1>1. /\ edit[t].step = "begin" /\ UNCHANGED <<dog, wrote, last>> /\ alone' \subseteq alone
      /\ (\E o \in Edits : Running(o)) => alone' = alone \ ({t} \cup {o \in Edits : Running(o)})
  BY Zenon DEF Start, EditAt
<1>2. edit'[t] = request /\ edit' \in [Edits -> Requests] /\ \A o \in Edits \ {t} : edit'[o] = edit[o]
  BY Zenon DEF Start, DogInv, DogTypeOK
<1>3. DogTypeOK'
  BY <1>1, <1>2, Zenon DEF DogInv, DogTypeOK
<1>4. IndexOK'
  BY <1>1, Zenon DEF DogInv, IndexOK, WroteRep, Sees
<1>5. \A o \in Edits \ {t} : Running(o)' = Running(o)
  BY <1>2, Zenon DEF Running
<1>6. \A o \in Edits : ~Running(o)' => wrote'[o] = Nothing
  BY <1>1, <1>2, <1>5, Zenon DEF DogInv, AloneOK, Running
<1>7. \A s \in alone' : Running(s)' => s = t /\ \A o \in Edits : ~Running(o)
  BY <1>1, <1>5, Zenon DEF DogInv, DogTypeOK
<1>8. \A s \in alone', o \in Edits : Running(s)' /\ Running(o)' => o = s
  BY <1>5, <1>7, Zenon
<1>9. \A s \in alone' : Running(s)' => Stage(s)'
  BY <1>7, Zenon
<1>10. last \in alone' => last \in alone /\ last # t /\ edit'[last] = edit[last]
  BY <1>1, <1>2, Zenon DEF DogInv, DogTypeOK, AloneOK
<1>11. AloneOK'
  BY <1>1, <1>6, <1>8, <1>9, <1>10 DEF DogInv, AloneOK, Table, Requested, Nothing
<1>12. QED
  BY <1>3, <1>4, <1>11, Zenon DEF DogInv

(* upsert_dog_profile starts.                                              *)
LEMMA ReplaceInv ==
  ASSUME DogInv, NEW t \in Edits, NEW keep \in SUBSET Dogs, NEW new \in BOOLEAN,
         NEW rep \in keep \cup {NoDog} \cup (IF new THEN {NewDog[t]} ELSE {}),
         Replace(t, keep, new, rep)
  PROVE  DogInv'
<1> DEFINE request == [Unset EXCEPT !.step = "existing", !.keep = keep, !.new = new, !.rep = rep]
<1>1. /\ request \in Requests /\ request.step = "existing" /\ request.replace = TRUE
      /\ request.keep = keep /\ request.new = new /\ request.rep = rep
  BY DogAssumption, Zenon DEF Requests, Steps, Unset
<1>2. Start(t, request)
  BY Zenon DEF Replace
<1>3. edit'[t] = request /\ wrote' = wrote /\ edit[t].step = "begin"
  BY <1>2, Zenon DEF Start, EditAt, DogInv, DogTypeOK
<1>4. wrote'[t] = Nothing
  BY <1>3, Zenon DEF DogInv, AloneOK, Running
<1>5. Stage(t)'
  BY <1>1, <1>3, <1>4, Zenon DEF Stage, ReplaceStage, Requested, Nothing
<1>6. QED
  BY <1>1, <1>2, <1>5, StartInv, Zenon

(* set_representative_dog starts.                                          *)
LEMMA SetOneInv ==
  ASSUME DogInv, NEW t \in Edits, NEW d \in Dogs, SetOne(t, d)
  PROVE  DogInv'
<1> DEFINE request == [Unset EXCEPT !.step = "find", !.replace = FALSE, !.rep = d]
<1>1. request \in Requests /\ request.step = "find" /\ request.replace = FALSE /\ request.rep = d
  BY DogAssumption, Zenon DEF Requests, Steps, Unset
<1>2. Start(t, request)
  BY Zenon DEF SetOne
<1>3. edit'[t] = request
  BY <1>2, Zenon DEF Start, DogInv, DogTypeOK
<1>4. Stage(t)'
  BY <1>1, <1>3, Zenon DEF Stage, SetOneStage
<1>5. QED
  BY <1>1, <1>2, <1>4, StartInv, Zenon

-----------------------------------------------------------------------------
(* The initial table has at most one representative.                       *)
LEMMA DogInitInv == DogInit => DogInv
<1>1. SUFFICES ASSUME DogInit PROVE DogInv
  OBVIOUS
<1>2. Nothing \in Written /\ Unset \in Requests /\ Unset.step = "begin"
  BY DogAssumption DEF Nothing, Written, Values, Unset, Requests, Steps
<1>3. DogTypeOK
  BY <1>1, <1>2, Zenon DEF DogInit, DogTypeOK, Values
<1>4. \A t \in Edits : wrote[t] = Nothing /\ ~Running(t)
  BY <1>1, <1>2, Zenon DEF DogInit, Running
<1>5. \A t \in Edits, d \in Dogs : ~WroteRep(t, d)
  BY <1>4, Zenon DEF WroteRep, Nothing
<1>6. \A d, e \in Dogs : dog[d] = "rep" /\ dog[e] = "rep" => d = e
  <2> DEFINE reps == {d \in Dogs : dog[d] = "rep"}
  <2>1. Cardinality(reps) <= 1
    BY <1>1, Zenon DEF DogInit
  <2>2. SUFFICES ASSUME NEW d \in reps, NEW e \in reps, d # e PROVE FALSE
    OBVIOUS
  <2>3. IsFiniteSet(reps)
    BY DogAssumption, FS_Subset, Zenon
  <2>4. IsFiniteSet({d}) /\ Cardinality({d}) = 1
    BY FS_Singleton, Zenon
  <2>5. Cardinality({d} \cup {e}) = 2
    BY <2>2, <2>4, FS_AddElement, SMTT(30)
  <2>6. {d} \cup {e} \subseteq reps
    BY <2>2, Zenon
  <2>7. Cardinality({d} \cup {e}) <= Cardinality(reps)
    BY <2>3, <2>6, FS_Subset, Zenon
  <2>8. Cardinality(reps) \in Nat
    BY <2>3, FS_CardinalityType, Zenon
  <2>9. QED
    BY <2>1, <2>5, <2>7, <2>8
<1>7. last \notin alone
  BY <1>1, DogAssumption, Zenon DEF DogInit
<1>8. alone \subseteq Edits
  BY <1>1, Zenon DEF DogInit
<1>9. QED
  BY <1>3, <1>4, <1>5, <1>6, <1>7, <1>8, Zenon DEF DogInv, IndexOK, AloneOK

(* Every step of every transaction keeps the invariant.                    *)
LEMMA DogInvStep == DogInv /\ [DogNext]_dogVars => DogInv'
<1>1. SUFFICES ASSUME DogInv, [DogNext]_dogVars PROVE DogInv'
  OBVIOUS
<1>2. CASE UNCHANGED dogVars
  <2>1. dog' = dog /\ wrote' = wrote /\ edit' = edit /\ alone' = alone /\ last' = last
    BY <1>2, Zenon DEF dogVars
  <2>2. DogTypeOK'
    BY <1>1, <2>1, Zenon DEF DogInv, DogTypeOK
  <2>3. \A t \in Edits, d \in Dogs : Sees(t, d)' = Sees(t, d) /\ WroteRep(t, d)' = WroteRep(t, d)
    BY <2>1, Zenon DEF Sees, WroteRep
  <2>4. IndexOK'
    BY <1>1, <2>1, <2>3 DEF DogInv, IndexOK
  <2>5. Table' = Table /\ \A t \in Edits : Running(t)' = Running(t) /\ Requested(t)' = Requested(t)
    BY <2>1, Zenon DEF Table, Running, Requested
  <2>6. \A t \in Edits : Visible(t)' = Visible(t) /\ Representatives(t)' = Representatives(t)
    BY <2>3, Zenon DEF Visible, Representatives
  <2>7. ASSUME NEW t \in alone, Stage(t) PROVE Stage(t)'
    <3>1. t \in Edits
      BY <1>1, Zenon DEF DogInv, DogTypeOK
    <3>2. ReplaceStage(t) => ReplaceStage(t)'
      BY <2>1, <2>3, <2>5, <3>1 DEF ReplaceStage, Nothing
    <3>3. SetOneStage(t) => SetOneStage(t)'
      BY <2>1, <2>6, <3>1, Zenon DEF SetOneStage
    <3>4. Goal(t) => Goal(t)'
      BY <2>1, <2>5, <2>6, <3>1, Zenon DEF Goal
    <3>5. QED
      BY <2>1, <2>6, <2>7, <3>1, <3>2, <3>3, <3>4, Zenon DEF Stage
  <2>8. AloneOK'
    <3>1. \A t \in Edits : ~Running(t)' => wrote'[t] = Nothing
      BY <1>1, <2>1, <2>5, Zenon DEF DogInv, AloneOK
    <3>2. \A t \in alone, o \in Edits : Running(t)' /\ Running(o)' => o = t
      BY <1>1, <2>5, Zenon DEF DogInv, DogTypeOK, AloneOK
    <3>3. \A t \in alone : Running(t)' => Stage(t)'
      BY <1>1, <2>5, <2>7, Zenon DEF DogInv, DogTypeOK, AloneOK
    <3>4. QED
      BY <1>1, <2>1, <2>5, <3>1, <3>2, <3>3, Zenon DEF DogInv, DogTypeOK, AloneOK, Nothing
  <2>9. QED
    BY <2>2, <2>4, <2>8, Zenon DEF DogInv
<1>3. CASE DogNext
  <2>1. PICK t \in Edits :
          \/ \E keep \in SUBSET (Dogs \ {NewDog[t]}), new \in BOOLEAN :
               \E rep \in keep \cup {NoDog} \cup (IF new THEN {NewDog[t]} ELSE {}) :
                 Replace(t, keep, new, rep)
          \/ \E d \in Dogs \ {NewDog[t]} : SetOne(t, d)
          \/ ReadExisting(t) \/ CheckOwned(t) \/ UpdateDogs(t) \/ CreateDogs(t) \/ DeleteDogs(t)
          \/ FindDog(t) \/ FindDogs(t) \/ ClearRepresentative(t) \/ SetRepresentative(t)
          \/ CommitEdit(t) \/ RollBackEdit(t)
    BY <1>3, Zenon DEF DogNext
  <2>2. ASSUME NEW keep \in SUBSET (Dogs \ {NewDog[t]}), NEW new \in BOOLEAN,
               NEW rep \in keep \cup {NoDog} \cup (IF new THEN {NewDog[t]} ELSE {}),
               Replace(t, keep, new, rep)
        PROVE  DogInv'
    <3>1. keep \in SUBSET Dogs
      OBVIOUS
    <3>2. QED
      BY <1>1, <2>2, <3>1, ReplaceInv, Zenon
  <2>3. ASSUME NEW d \in Dogs, SetOne(t, d) PROVE DogInv'
    BY <1>1, <2>3, SetOneInv, Zenon
  <2>4. CASE ReadExisting(t) \/ CheckOwned(t) \/ UpdateDogs(t) \/ CreateDogs(t) \/ DeleteDogs(t)
    BY <1>1, <2>4, ReadExistingInv, CheckOwnedInv, CreateDogsInv, DeleteDogsInv, Zenon
  <2>5. CASE FindDog(t) \/ FindDogs(t) \/ ClearRepresentative(t) \/ SetRepresentative(t)
    BY <1>1, <2>5, FindDogInv, FindDogsInv, ClearRepresentativeInv, SetRepresentativeInv, Zenon
  <2>6. CASE CommitEdit(t) \/ RollBackEdit(t)
    BY <1>1, <2>6, CommitEditInv, RollBackEditInv, Zenon
  <2>7. QED
    BY <2>1, <2>2, <2>3, <2>4, <2>5, <2>6, Zenon
<1>4. QED
  BY <1>1, <1>2, <1>3, Zenon

-----------------------------------------------------------------------------
(* The list is exact: a row is written by one transaction at a time, a     *)
(* dog that is written is in the table or is the writer's own, and only    *)
(* those that were read and are not requested are deleted.                 *)
Created == {NewDog[t] : t \in {o \in Replaced : edit[o].new}}
Kept(d) == \A t \in Replaced : d \in edit[t].existing => d \in Requested(t)
Unwanted(t) == edit[t].existing \ Requested(t)
Creates(t, d) == edit[t].replace /\ edit[t].new /\ d = NewDog[t]

WroteOK(t) ==
  \A d \in DOMAIN wrote[t] :
    /\ d \in Dogs
    /\ wrote[t][d] = "none" => edit[t].replace /\ d \in Unwanted(t)
    /\ wrote[t][d] # "none" => d \in Table \/ Creates(t, d)

(* What a transaction has written at each of its steps.                    *)
DoneOK(t) ==
  /\ edit[t].step \in {"delete", "clear", "clearing", "set", "commit"} =>
       \A d \in Dogs : Creates(t, d) => d \in Visible(t)
  /\ edit[t].step \in {"clear", "clearing", "set", "commit"} /\ edit[t].replace =>
       Unwanted(t) \cap Visible(t) = {}

WriterOK(t) ==
  /\ edit[t].step \in {"existing", "owned", "update", "create", "delete"} => edit[t].replace
  /\ edit[t].step = "find" => ~edit[t].replace
  /\ edit[t].step = "create" => edit[t].keep = {}
  /\ edit[t].step \in {"existing", "owned", "update", "create", "find"} => wrote[t] = Nothing
  /\ WroteOK(t)
  /\ DoneOK(t)

ListOK ==
  /\ \A s, t \in Edits : DOMAIN wrote[s] \cap DOMAIN wrote[t] # {} => s = t
  /\ \A s, t \in Edits : NewDog[s] \in edit[t].existing => edit[s].step = "committed"
  /\ \A t \in Edits : WriterOK(t)
  /\ Table = {d \in OldDogs \cup Created : Kept(d)}

(* A step of one transaction that leaves the table alone.                  *)
LEMMA ListStep ==
  ASSUME ListOK, NEW t \in Edits, Running(t) \/ edit[t].step = "begin",
         edit'[t].step # "committed", dog' = dog,
         \A o \in Edits \ {t} : edit'[o] = edit[o] /\ wrote'[o] = wrote[o],
         \A o \in Edits \ {t} : DOMAIN wrote'[t] \cap DOMAIN wrote[o] = {},
         \A s \in Edits : NewDog[s] \in edit'[t].existing => edit[s].step = "committed",
         WriterOK(t)'
  PROVE  ListOK'
<1>1. /\ edit[t].step # "committed"
      /\ \A o \in Edits : edit[o].step = "committed" => edit'[o].step = "committed"
  BY Zenon DEF Running
<1>2. \A r, s \in Edits : DOMAIN wrote'[r] \cap DOMAIN wrote'[s] # {} => r = s
  BY Zenon DEF ListOK
<1>3. \A r, s \in Edits : NewDog[r] \in edit'[s].existing => edit'[r].step = "committed"
  BY <1>1, Zenon DEF ListOK
<1>4. Table' = Table
  BY Zenon DEF Table
<1>5. \A o \in Edits \ {t} : WriterOK(o)'
  <2>1. SUFFICES ASSUME NEW o \in Edits \ {t} PROVE WriterOK(o)'
    BY Zenon
  <2>2. edit'[o] = edit[o] /\ wrote'[o] = wrote[o] /\ WriterOK(o)
    BY Zenon DEF ListOK
  <2>3. Visible(o)' = Visible(o) /\ Unwanted(o)' = Unwanted(o) /\ \A d : Creates(o, d)' = Creates(o, d)
    BY <2>2, Zenon DEF Visible, Sees, Unwanted, Requested, Creates
  <2>4. WroteOK(o)'
    BY <1>4, <2>2, <2>3, Zenon DEF WriterOK, WroteOK
  <2>5. QED
    BY <2>2, <2>3, <2>4, Zenon DEF WriterOK, DoneOK, Nothing
<1>6. Replaced' = Replaced /\ t \notin Replaced
  BY <1>1, Zenon DEF Replaced, EditAt
<1>7. Created' = Created
  BY <1>6, Zenon DEF Created, Replaced
<1>8. \A d : Kept(d)' = Kept(d)
  BY <1>6, Zenon DEF Kept, Replaced, Requested
<1>9. QED
  BY <1>2, <1>3, <1>4, <1>5, <1>7, <1>8, Zenon DEF ListOK

(* A transaction that writes nothing more and moves on.                    *)
LEMMA ListMoves ==
  ASSUME DogInv, ListOK, NEW t \in Edits, Running(t), edit'[t].step # "committed",
         dog' = dog, wrote' = wrote, SameRequest(t), edit'[t].existing = edit[t].existing,
         \A o \in Edits \ {t} : edit'[o] = edit[o],
         WriterOK(t) => WriterOK(t)'
  PROVE  ListOK'
<1>1. WriterOK(t)'
  BY Zenon DEF ListOK
<1>2. \A o \in Edits \ {t} : DOMAIN wrote'[t] \cap DOMAIN wrote[o] = {}
  BY Zenon DEF ListOK
<1>3. \A s \in Edits : NewDog[s] \in edit'[t].existing => edit[s].step = "committed"
  BY Zenon DEF ListOK
<1>4. QED
  BY <1>1, <1>2, <1>3, ListStep, Zenon

(* One that fails.                                                         *)
LEMMA ListFails ==
  ASSUME DogInv, ListOK, NEW t \in Edits, Running(t), Fail(t), dog' = dog
  PROVE  ListOK'
<1>1. "failed" \in Steps /\ EditTo(t, "failed")
  BY Zenon DEF Steps, Fail
<1>2. /\ \A o \in Edits \ {t} : edit'[o] = edit[o]
      /\ edit'[t].step = "failed"
      /\ edit'[t].existing = edit[t].existing
  BY <1>1, EditMoves, Zenon DEF DogInv
<1>3. wrote'[t] = Nothing /\ \A o \in Edits \ {t} : wrote'[o] = wrote[o]
  BY Zenon DEF Fail, DogInv, DogTypeOK
<1>4. WriterOK(t)'
  BY <1>2, <1>3, Zenon DEF WriterOK, WroteOK, DoneOK, Nothing
<1>5. \A o \in Edits \ {t} : DOMAIN wrote'[t] \cap DOMAIN wrote[o] = {}
  BY <1>3, Zenon DEF Nothing
<1>6. \A s \in Edits : NewDog[s] \in edit'[t].existing => edit[s].step = "committed"
  BY <1>2, Zenon DEF ListOK
<1>7. QED
  BY <1>2, <1>3, <1>4, <1>5, <1>6, ListStep, Zenon

(* One that writes rows nobody holds: its own, those of the table, or      *)
(* deletes unwanted ones.                                                  *)
LEMMA ListWrites ==
  ASSUME DogInv, ListOK, NEW t \in Edits, Running(t),
         NEW ds \in SUBSET Dogs, NEW v \in Values, Write(t, ds, v), ds \cap Held(t) = {},
         v = "none" => edit[t].replace /\ ds \subseteq Unwanted(t),
         v # "none" => \A d \in ds : d \in Table \/ Creates(t, d),
         dog' = dog, SameRequest(t), edit'[t].existing = edit[t].existing,
         \A o \in Edits \ {t} : edit'[o] = edit[o],
         edit'[t].step \in {"delete", "clear", "clearing", "set", "commit"},
         edit'[t].step = "delete" => edit[t].replace,
         DoneOK(t)'
  PROVE  ListOK'
<1>2. /\ \A o \in Edits \ {t} : wrote'[o] = wrote[o]
      /\ wrote'[t] = [d \in DOMAIN wrote[t] \cup ds |-> IF d \in ds THEN v ELSE wrote[t][d]]
  BY Zenon DEF Write, DogInv, DogTypeOK
<1>3. /\ Unwanted(t)' = Unwanted(t) /\ \A d : Creates(t, d)' = Creates(t, d)
      /\ Table' = Table /\ edit'[t].replace = edit[t].replace
  BY Zenon DEF SameRequest, Unwanted, Requested, Creates, Table
<1>4. WroteOK(t)
  BY Zenon DEF ListOK, WriterOK
<1>5. WroteOK(t)'
  <2>1. SUFFICES ASSUME NEW d \in DOMAIN wrote'[t]
                 PROVE  /\ d \in Dogs
                        /\ wrote'[t][d] = "none" => edit[t].replace /\ d \in Unwanted(t)
                        /\ wrote'[t][d] # "none" => d \in Table \/ Creates(t, d)
    BY <1>3, Zenon DEF WroteOK
  <2>2. CASE d \in ds
    BY <1>2, <2>2, Zenon
  <2>3. CASE d \notin ds
    BY <1>2, <1>4, <2>3, Zenon DEF WroteOK
  <2>4. QED
    BY <2>2, <2>3, Zenon
<1>6. WriterOK(t)'
  BY <1>3, <1>5, Zenon DEF WriterOK
<1>7. \A o \in Edits \ {t} : DOMAIN wrote'[t] \cap DOMAIN wrote[o] = {}
  <2>1. SUFFICES ASSUME NEW o \in Edits \ {t}, NEW d \in DOMAIN wrote'[t], d \in DOMAIN wrote[o]
                 PROVE  FALSE
    BY Zenon
  <2>2. d \notin DOMAIN wrote[t]
    BY <2>1, Zenon DEF ListOK
  <2>3. d \in ds
    BY <1>2, <2>1, <2>2, Zenon
  <2>4. d \in Held(t)
    BY <2>1, Zenon DEF Held
  <2>5. QED
    BY <2>3, <2>4, Zenon
<1>8. \A s \in Edits : NewDog[s] \in edit'[t].existing => edit[s].step = "committed"
  BY Zenon DEF ListOK
<1>9. QED
  BY <1>2, <1>6, <1>7, <1>8, ListStep, Zenon

(* A dog in the table that a transaction creates was created by one that   *)
(* has committed.                                                          *)
LEMMA CreatedCommitted ==
  ASSUME ListOK, NEW s \in Edits, NewDog[s] \in Table
  PROVE  edit[s].step = "committed"
<1>1. NewDog[s] \in Created
  BY DogAssumption, Zenon DEF ListOK
<1>2. PICK t \in Replaced : NewDog[s] = NewDog[t]
  BY <1>1, Zenon DEF Created
<1>3. s = t
  BY <1>2, DogAssumption, Zenon DEF Replaced
<1>4. QED
  BY <1>2, <1>3, Zenon DEF Replaced, EditAt

(* The ids of the dogs are read before anything is written.                *)
LEMMA ReadExistingList ==
  ASSUME DogInv, ListOK, NEW t \in Edits, ReadExisting(t)
  PROVE  ListOK'
<1> DEFINE e == [edit[t] EXCEPT !.step = "owned", !.existing = Visible(t)]
<1>1. edit[t] \in Requests /\ edit[t].step = "existing" /\ dog' = dog /\ wrote' = wrote
  BY Zenon DEF DogInv, DogTypeOK, ReadExisting, EditAt
<1>2. edit' = [edit EXCEPT ![t] = e]
  BY <1>1, Zenon DEF DogInv, DogTypeOK, Requests, ReadExisting
<1>3. edit'[t] = e /\ \A o \in Edits \ {t} : edit'[o] = edit[o]
  BY <1>2, Zenon DEF DogInv, DogTypeOK
<1>4. edit'[t].step = "owned" /\ edit'[t].existing = Visible(t) /\ edit'[t].replace = edit[t].replace
  BY <1>1, <1>3, Zenon DEF Requests
<1>5. wrote[t] = Nothing /\ edit[t].replace
  BY <1>1, Zenon DEF ListOK, WriterOK
<1>6. Visible(t) = Table
  BY <1>5, Zenon DEF Visible, Table, Sees, Nothing
<1>7. \A s \in Edits : NewDog[s] \in edit'[t].existing => edit[s].step = "committed"
  BY <1>4, <1>6, CreatedCommitted, Zenon
<1>8. WriterOK(t)'
  BY <1>1, <1>4, <1>5, Zenon DEF WriterOK, WroteOK, DoneOK, Nothing
<1>9. \A o \in Edits \ {t} : DOMAIN wrote'[t] \cap DOMAIN wrote[o] = {}
  BY <1>1, <1>5, Zenon DEF Nothing
<1>10. Running(t)
  BY <1>1, Zenon DEF Running
<1>11. QED
  BY <1>1, <1>3, <1>4, <1>7, <1>8, <1>9, <1>10, ListStep, Zenon

(* A check that fails the transaction or moves it on before it has written. *)
LEMMA CheckList ==
  ASSUME DogInv, ListOK, NEW t \in Edits, NEW step \in {"update", "create", "clear"},
         edit[t].step \in {"owned", "update", "find"},
         step = "clear" <=> edit[t].step = "find",
         Fail(t) \/ (EditTo(t, step) /\ wrote' = wrote /\ (step = "create" => edit[t].keep = {})),
         dog' = dog
  PROVE  ListOK'
<1>1. Running(t)
  BY Zenon DEF Running
<1>2. CASE Fail(t)
  BY <1>1, <1>2, ListFails, Zenon
<1>3. CASE EditTo(t, step) /\ wrote' = wrote /\ (step = "create" => edit[t].keep = {})
  <2>1. step \in Steps
    BY Zenon DEF Steps
  <2>2. /\ \A o \in Edits \ {t} : edit'[o] = edit[o]
        /\ edit'[t].step = step
        /\ SameRequest(t)
        /\ edit'[t].existing = edit[t].existing
    BY <1>3, <2>1, EditMoves, Zenon DEF DogInv
  <2>3. /\ wrote'[t] = Nothing
        /\ step = "clear" => ~edit[t].replace
        /\ step # "clear" => edit[t].replace
    BY <1>3, Zenon DEF ListOK, WriterOK
  <2>4. DoneOK(t)'
    BY <2>2, <2>3, Zenon DEF DoneOK, SameRequest, Creates
  <2>5. WriterOK(t)'
    BY <1>3, <2>2, <2>3, <2>4, Zenon DEF WriterOK, WroteOK, Nothing, SameRequest
  <2>6. QED
    BY <1>1, <1>3, <2>2, <2>5, ListMoves, Zenon
<1>4. QED
  BY <1>2, <1>3, Zenon

(* The new dog's row is nobody else's.                                     *)
LEMMA CreateDogsList ==
  ASSUME DogInv, ListOK, NEW t \in Edits, CreateDogs(t)
  PROVE  ListOK'
<1> DEFINE made == Requested(t) \ edit[t].keep
<1>1. edit[t] \in Requests /\ edit[t].step = "create" /\ dog' = dog /\ Running(t)
  BY Zenon DEF DogInv, DogTypeOK, CreateDogs, EditAt, Running
<1>2. "delete" \in Steps /\ EditTo(t, "delete")
  BY Zenon DEF Steps, CreateDogs
<1>3. /\ \A o \in Edits \ {t} : edit'[o] = edit[o]
      /\ edit'[t].step = "delete"
      /\ SameRequest(t)
      /\ edit'[t].existing = edit[t].existing
  BY <1>2, EditMoves, Zenon DEF DogInv
<1>4. made \in SUBSET Dogs /\ Write(t, made, "plain")
  BY <1>1, DogAssumption DEF CreateDogs, Requested, Requests
<1>5. edit[t].replace /\ edit[t].keep = {}
  BY <1>1, Zenon DEF ListOK, WriterOK
<1>6. \A d \in made : Creates(t, d)
  BY <1>5, Zenon DEF Requested, Creates
<1>7. made \cap Held(t) = {}
  <2>1. SUFFICES ASSUME NEW o \in Edits \ {t}, NewDog[t] \in DOMAIN wrote[o] PROVE FALSE
    BY <1>6, Zenon DEF Held, Creates
  <2>2. WroteOK(o)
    BY Zenon DEF ListOK, WriterOK
  <2>3. NewDog[o] # NewDog[t]
    BY DogAssumption, Zenon
  <2>4. NewDog[t] \in Table \/ NewDog[t] \in edit[o].existing
    BY <2>1, <2>2, <2>3, Zenon DEF WroteOK, Creates, Unwanted
  <2>5. edit[t].step = "committed"
    BY <2>4, CreatedCommitted, Zenon DEF ListOK
  <2>6. QED
    BY <1>1, <2>5, Zenon
<1>8. \A d \in Dogs : Sees(t, d)' = IF d \in made THEN "plain" ELSE Sees(t, d)
  BY <1>1, <1>4, WriteSees DEF DogInv, Values
<1>9. DoneOK(t)'
  <2>1. SUFFICES ASSUME NEW d \in Dogs, Creates(t, d)' PROVE d \in Visible(t)'
    BY <1>3, Zenon DEF DoneOK
  <2>2. CASE d \in made
    BY <1>8, <2>2, Zenon DEF Visible
  <2>3. CASE d \notin made
    <3>1. d \in edit[t].keep
      BY <1>3, <2>1, <2>3, Zenon DEF Creates, SameRequest, Requested
    <3>2. QED
      BY <1>5, <3>1, Zenon
  <2>4. QED
    BY <2>2, <2>3, Zenon
<1>10. QED
  BY <1>1, <1>3, <1>4, <1>5, <1>6, <1>7, <1>9, ListWrites, Zenon DEF Values

(* bulk_delete_by_owner_ids deletes what is unwanted and still there.      *)
LEMMA DeleteDogsList ==
  ASSUME DogInv, ListOK, NEW t \in Edits, DeleteDogs(t)
  PROVE  ListOK'
<1> DEFINE gone == (edit[t].existing \ Requested(t)) \cap Visible(t)
           step == IF edit[t].rep = NoDog THEN "commit" ELSE "clear"
<1>1. edit[t] \in Requests /\ edit[t].step = "delete" /\ dog' = dog /\ Running(t)
  BY Zenon DEF DogInv, DogTypeOK, DeleteDogs, EditAt, Running
<1>2. step \in Steps /\ EditTo(t, step)
  BY Zenon DEF Steps, DeleteDogs
<1>3. /\ \A o \in Edits \ {t} : edit'[o] = edit[o]
      /\ edit'[t].step = step
      /\ SameRequest(t)
      /\ edit'[t].existing = edit[t].existing
  BY <1>2, EditMoves, Zenon DEF DogInv
<1>4. gone \in SUBSET Dogs /\ Write(t, gone, "none") /\ gone \cap Held(t) = {}
  BY Zenon DEF DeleteDogs, Visible
<1>5. edit[t].replace /\ DoneOK(t)
  BY <1>1, Zenon DEF ListOK, WriterOK
<1>6. gone \subseteq Unwanted(t)
  BY Zenon DEF Unwanted
<1>7. \A d \in Dogs : Sees(t, d)' = IF d \in gone THEN "none" ELSE Sees(t, d)
  BY <1>1, <1>4, WriteSees DEF DogInv, Values
<1>8. Unwanted(t)' = Unwanted(t) /\ \A d : Creates(t, d)' = Creates(t, d)
  BY <1>3, Zenon DEF SameRequest, Unwanted, Requested, Creates
<1>9. Unwanted(t) \cap Visible(t)' = {}
  BY <1>7, Zenon DEF Visible, Unwanted
<1>10. \A d \in Dogs : Creates(t, d) => d \in Visible(t)'
  BY <1>1, <1>5, <1>7, Zenon DEF DoneOK, Creates, Requested, Visible
<1>11. DoneOK(t)'
  BY <1>8, <1>9, <1>10, Zenon DEF DoneOK
<1>12. step \in {"clear", "commit"}
  OBVIOUS
<1>13. QED
  BY <1>1, <1>3, <1>4, <1>5, <1>6, <1>11, <1>12, ListWrites, Zenon DEF Values

(* get_owned_ids_in, bulk_update_by_owner and the lookup of                *)
(* set_representative_dog.                                                 *)
LEMMA ChecksList ==
  ASSUME DogInv, ListOK, NEW t \in Edits, CheckOwned(t) \/ UpdateDogs(t) \/ FindDog(t)
  PROVE  ListOK'
<1>1. CASE CheckOwned(t)
  <2>1. edit[t].step = "owned" /\ (Fail(t) \/ (EditTo(t, "update") /\ wrote' = wrote)) /\ dog' = dog
    BY <1>1, Zenon DEF CheckOwned, EditAt
  <2>2. QED
    BY <2>1, CheckList, Zenon
<1>2. CASE UpdateDogs(t)
  <2>1. /\ edit[t].step = "update" /\ dog' = dog
        /\ Fail(t) \/ (EditTo(t, "create") /\ wrote' = wrote /\ edit[t].keep = {})
    BY <1>2, Zenon DEF UpdateDogs, EditAt
  <2>2. QED
    BY <2>1, CheckList, Zenon
<1>3. CASE FindDog(t)
  <2>1. edit[t].step = "find" /\ (Fail(t) \/ (EditTo(t, "clear") /\ wrote' = wrote)) /\ dog' = dog
    BY <1>3, Zenon DEF FindDog, EditAt
  <2>2. QED
    BY <2>1, CheckList, Zenon
<1>4. QED
  BY <1>1, <1>2, <1>3, Zenon

(* A row a transaction sees is in the table or is the one it creates.      *)
LEMMA SeesOwn ==
  ASSUME ListOK, NEW t \in Edits, NEW d \in Visible(t)
  PROVE  d \in Dogs /\ (d \in Table \/ Creates(t, d))
<1>1. WroteOK(t) /\ d \in Dogs /\ Sees(t, d) # "none"
  BY Zenon DEF ListOK, WriterOK, Visible
<1>2. CASE d \in DOMAIN wrote[t]
  BY <1>1, <1>2, Zenon DEF WroteOK, Sees
<1>3. CASE d \notin DOMAIN wrote[t]
  BY <1>1, <1>3, Zenon DEF Table, Sees
<1>4. QED
  BY <1>2, <1>3, Zenon

(* A transaction that has deleted what it deletes, and goes on.            *)
LEMMA DoneStays ==
  ASSUME ListOK, NEW t \in Edits, SameRequest(t), edit'[t].existing = edit[t].existing,
         edit[t].step \in {"clear", "clearing", "set", "commit"},
         Visible(t)' = Visible(t)
  PROVE  DoneOK(t)'
<1>1. DoneOK(t)
  BY Zenon DEF ListOK, WriterOK
<1>2. Unwanted(t)' = Unwanted(t) /\ \A d : Creates(t, d)' = Creates(t, d)
  BY Zenon DEF SameRequest, Unwanted, Requested, Creates
<1>3. QED
  BY <1>1, <1>2, Zenon DEF DoneOK, SameRequest

(* One that writes nothing more.                                           *)
LEMMA WroteStays ==
  ASSUME ListOK, NEW t \in Edits, SameRequest(t), edit'[t].existing = edit[t].existing,
         dog' = dog, wrote' = wrote
  PROVE  WroteOK(t)'
<1>1. WroteOK(t)
  BY Zenon DEF ListOK, WriterOK
<1>2. Unwanted(t)' = Unwanted(t) /\ \A d : Creates(t, d)' = Creates(t, d)
  BY Zenon DEF SameRequest, Unwanted, Requested, Creates
<1>3. Table' = Table /\ edit'[t].replace = edit[t].replace
  BY Zenon DEF Table, SameRequest
<1>4. QED
  BY <1>1, <1>2, <1>3, Zenon DEF WroteOK

(* The first UPDATE of set_representative finds its rows.                  *)
LEMMA FindDogsList ==
  ASSUME DogInv, ListOK, NEW t \in Edits, FindDogs(t)
  PROVE  ListOK'
<1>1. edit[t].step = "clear" /\ dog' = dog /\ wrote' = wrote /\ Running(t)
  BY Zenon DEF FindDogs, EditAt, Running
<1>2. "clearing" \in Steps /\ Visible(t) \in SUBSET Dogs /\ TakesRows(t, "clearing", Visible(t))
  BY Zenon DEF Steps, Visible, TakesRows, FindDogs
<1>3. /\ \A o \in Edits \ {t} : edit'[o] = edit[o]
      /\ edit'[t].step = "clearing"
      /\ SameRequest(t)
      /\ edit'[t].existing = edit[t].existing
  BY <1>2, EditTakesRows, Zenon DEF DogInv
<1>4. Visible(t)' = Visible(t) /\ Table' = Table
  BY <1>1, Zenon DEF Visible, Sees, Table
<1>5. DoneOK(t)'
  BY <1>1, <1>3, <1>4, DoneStays, Zenon
<1>6. WroteOK(t)'
  BY <1>1, <1>3, WroteStays, Zenon
<1>7. WriterOK(t)'
  BY <1>3, <1>5, <1>6, Zenon DEF WriterOK
<1>8. QED
  BY <1>1, <1>3, <1>7, ListMoves, Zenon

(* It then clears them.                                                    *)
LEMMA ClearRepresentativeList ==
  ASSUME DogInv, ListOK, NEW t \in Edits, ClearRepresentative(t)
  PROVE  ListOK'
<1> DEFINE cleared == edit[t].rows \cap Visible(t)
<1>1. edit[t].step = "clearing" /\ dog' = dog /\ Running(t)
  BY Zenon DEF ClearRepresentative, EditAt, Running
<1>2. "set" \in Steps /\ EditTo(t, "set")
  BY Zenon DEF Steps, ClearRepresentative
<1>3. /\ \A o \in Edits \ {t} : edit'[o] = edit[o]
      /\ edit'[t].step = "set"
      /\ SameRequest(t)
      /\ edit'[t].existing = edit[t].existing
  BY <1>2, EditMoves, Zenon DEF DogInv
<1>4. /\ cleared \in SUBSET Dogs /\ Write(t, cleared, "plain") /\ cleared \cap Held(t) = {}
      /\ cleared \subseteq Visible(t)
  BY Zenon DEF ClearRepresentative, Visible
<1>5. \A d \in Dogs : Sees(t, d)' = IF d \in cleared THEN "plain" ELSE Sees(t, d)
  BY <1>1, <1>4, WriteSees DEF DogInv, Values
<1>6. Visible(t)' = Visible(t)
  BY <1>5, Zenon DEF Visible
<1>7. DoneOK(t)'
  BY <1>1, <1>3, <1>6, DoneStays, Zenon
<1>8. \A d \in cleared : d \in Table \/ Creates(t, d)
  BY SeesOwn, Zenon
<1>9. "plain" \in Values /\ "plain" # "none"
  BY Zenon DEF Values
<1>10. QED
  BY <1>1, <1>3, <1>4, <1>7, <1>8, <1>9, ListWrites, Zenon

(* The second UPDATE sets the representative.                              *)
LEMMA SetRepresentativeList ==
  ASSUME DogInv, ListOK, NEW t \in Edits, SetRepresentative(t)
  PROVE  ListOK'
<1> DEFINE d == edit[t].rep
<1>1. edit[t].step = "set" /\ dog' = dog /\ d \notin Held(t) /\ Running(t)
  BY Zenon DEF SetRepresentative, EditAt, Running
<1>2. CASE Fail(t)
  BY <1>1, <1>2, ListFails, Zenon
<1>3. ASSUME EditTo(t, "commit")
      PROVE  /\ \A o \in Edits \ {t} : edit'[o] = edit[o]
             /\ edit'[t].step = "commit"
             /\ SameRequest(t)
             /\ edit'[t].existing = edit[t].existing
  <2>1. "commit" \in Steps
    BY Zenon DEF Steps
  <2>2. QED
    BY <1>3, <2>1, EditMoves, Zenon DEF DogInv
<1>4. CASE d \in Visible(t) /\ Write(t, {d}, "rep") /\ EditTo(t, "commit")
  <2>1. d \in Dogs /\ (d \in Table \/ Creates(t, d))
    BY <1>4, SeesOwn, Zenon
  <2>2. "rep" \in Values /\ "rep" # "none" /\ {d} \in SUBSET Dogs
    BY <2>1, Zenon DEF Values
  <2>3. \A e \in Dogs : Sees(t, e)' = IF e \in {d} THEN "rep" ELSE Sees(t, e)
    BY <1>1, <1>4, <2>1, WriteSees DEF DogInv, Values
  <2>4. Visible(t)' = Visible(t)
    BY <1>4, <2>3, Zenon DEF Visible
  <2>5. DoneOK(t)'
    BY <1>1, <1>3, <1>4, <2>4, DoneStays, Zenon
  <2>6. {d} \cap Held(t) = {} /\ \A e \in {d} : e \in Table \/ Creates(t, e)
    BY <1>1, <2>1, Zenon
  <2>7. QED
    BY <1>1, <1>3, <1>4, <2>2, <2>5, <2>6, ListWrites, Zenon
<1>5. CASE EditTo(t, "commit") /\ wrote' = wrote
  <2>1. Visible(t)' = Visible(t) /\ Table' = Table
    BY <1>1, <1>5, Zenon DEF Visible, Sees, Table
  <2>2. DoneOK(t)'
    BY <1>1, <1>3, <1>5, <2>1, DoneStays, Zenon
  <2>3. WroteOK(t)'
    BY <1>1, <1>3, <1>5, WroteStays, Zenon
  <2>4. WriterOK(t)'
    BY <1>3, <1>5, <2>2, <2>3, Zenon DEF WriterOK
  <2>5. QED
    BY <1>1, <1>3, <1>5, <2>4, ListMoves, Zenon
<1>6. QED
  BY <1>2, <1>4, <1>5, Zenon DEF SetRepresentative

(* A commit publishes the transaction's own dog and its deletions; what    *)
(* the others have written stays theirs.                                   *)
LEMMA CommitWriter ==
  ASSUME DogInv, ListOK, NEW t \in Edits, NEW o \in Edits \ {t}, edit[t].step = "commit",
         \A d \in Dogs : dog'[d] = Sees(t, d), edit'[o] = edit[o], wrote'[o] = wrote[o]
  PROVE  WriterOK(o)'
<1>1. WriterOK(o) /\ WroteOK(o) /\ DoneOK(o)
  BY Zenon DEF ListOK, WriterOK
<1>2. Unwanted(o)' = Unwanted(o) /\ \A d : Creates(o, d)' = Creates(o, d)
  BY Zenon DEF Unwanted, Requested, Creates
<1>3. WroteOK(o)'
  <2>1. SUFFICES ASSUME NEW d \in DOMAIN wrote[o], d \in Table PROVE d \in Table'
    BY <1>1, <1>2, Zenon DEF WroteOK
  <2>2. d \notin DOMAIN wrote[t]
    BY <2>1, Zenon DEF ListOK
  <2>3. QED
    BY <2>1, <2>2, Zenon DEF Table, Sees
<1>4. ASSUME NEW d \in Dogs, Creates(o, d), d \in Visible(o), Running(o)
      PROVE  d \in Visible(o)'
  <2>1. d \notin Table
    BY <1>4, CreatedCommitted, Zenon DEF Creates, Running
  <2>2. d \in DOMAIN wrote[o]
    BY <1>4, <2>1, Zenon DEF Visible, Sees, Table
  <2>3. QED
    BY <1>4, <2>2, Zenon DEF Visible, Sees
<1>5. ASSUME NEW d \in Unwanted(o), d \notin Visible(o), d \in Visible(o)'
      PROVE  FALSE
  <2>1. d \in Dogs /\ d \notin DOMAIN wrote[o] /\ d \in Visible(t) /\ d \notin Table
    BY <1>5, Zenon DEF Visible, Sees, Table
  <2>2. d = NewDog[t]
    BY <2>1, SeesOwn, Zenon DEF Creates
  <2>3. edit[t].step = "committed"
    BY <1>5, <2>2, Zenon DEF ListOK, Unwanted
  <2>4. QED
    BY <2>3, Zenon
<1>6. DoneOK(o)'
  <2>1. edit[o].step \in {"delete", "clear", "clearing", "set", "commit"} => Running(o)
    BY Zenon DEF Running
  <2>2. QED
    BY <1>1, <1>2, <1>4, <1>5, <2>1, Zenon DEF DoneOK
<1>7. QED
  BY <1>1, <1>3, <1>6, Zenon DEF WriterOK, Nothing

(* The table after a commit.                                               *)
LEMMA CommitTable ==
  ASSUME DogInv, ListOK, NEW t \in Edits, edit[t].step = "commit",
         \A d \in Dogs : dog'[d] = Sees(t, d),
         edit'[t].step = "committed", SameRequest(t), edit'[t].existing = edit[t].existing,
         \A o \in Edits \ {t} : edit'[o] = edit[o]
  PROVE  Table' = {d \in OldDogs \cup Created' : Kept(d)'}
<1>1. Table' = Visible(t)
  BY Zenon DEF Table, Visible
<1>2. /\ \A o \in Edits \ {t} : o \in Replaced' <=> o \in Replaced
      /\ t \notin Replaced
      /\ t \in Replaced' <=> edit[t].replace
  BY Zenon DEF Replaced, EditAt, SameRequest
<1>3. Unwanted(t)' = Unwanted(t) /\ Requested(t)' = Requested(t) /\ edit'[t].new = edit[t].new
  BY Zenon DEF SameRequest, Unwanted, Requested
<1>4. \A d : d \in Created' <=> d \in Created \/ Creates(t, d)
  BY <1>2, <1>3, Zenon DEF Created, Creates, Replaced
<1>5. \A d : Kept(d)' <=> Kept(d) /\ (edit[t].replace => d \notin Unwanted(t))
  BY <1>2, <1>3, Zenon DEF Kept, Unwanted, Replaced, Requested
<1>6. WroteOK(t) /\ DoneOK(t)
  BY Zenon DEF ListOK, WriterOK
<1>7. ASSUME NEW d \in Visible(t)
      PROVE  d \in OldDogs \cup Created' /\ Kept(d)'
  <2>1. edit[t].replace => d \notin Unwanted(t)
    BY <1>6, Zenon DEF DoneOK
  <2>2. CASE d \in Table
    BY <1>4, <1>5, <2>1, <2>2, Zenon DEF ListOK
  <2>3. CASE Creates(t, d)
    <3>1. Kept(d)
      BY <2>3, Zenon DEF ListOK, Kept, Creates, Replaced
    <3>2. QED
      BY <1>4, <1>5, <2>1, <2>3, <3>1, Zenon
  <2>4. QED
    BY <2>2, <2>3, SeesOwn, Zenon
<1>8. ASSUME NEW d \in OldDogs \cup Created', Kept(d)'
      PROVE  d \in Visible(t)
  <2>1. CASE d \in OldDogs \cup Created
    <3>1. d \in Table /\ d \in Dogs
      BY <1>5, <1>8, <2>1, Zenon DEF ListOK, Table
    <3>2. d \in DOMAIN wrote[t] => wrote[t][d] # "none"
      BY <1>5, <1>6, <1>8, Zenon DEF WroteOK
    <3>3. QED
      BY <3>1, <3>2, Zenon DEF Visible, Sees, Table
  <2>2. CASE Creates(t, d)
    <3>1. d \in Dogs
      BY <2>2, DogAssumption, Zenon DEF Creates
    <3>2. QED
      BY <1>6, <2>2, <3>1, Zenon DEF DoneOK
  <2>3. QED
    BY <1>4, <1>8, <2>1, <2>2, Zenon
<1>9. QED
  BY <1>1, <1>7, <1>8, Zenon

(* A commit.                                                               *)
LEMMA CommitEditList ==
  ASSUME DogInv, ListOK, NEW t \in Edits, CommitEdit(t)
  PROVE  ListOK'
<1>1. edit[t].step = "commit" /\ \A d \in Dogs : dog'[d] = Sees(t, d)
  BY Zenon DEF CommitEdit, EditAt
<1>2. "committed" \in Steps /\ EditTo(t, "committed")
  BY Zenon DEF Steps, CommitEdit
<1>3. /\ \A o \in Edits \ {t} : edit'[o] = edit[o]
      /\ edit'[t].step = "committed"
      /\ SameRequest(t)
      /\ edit'[t].existing = edit[t].existing
  BY <1>2, EditMoves, Zenon DEF DogInv
<1>4. wrote'[t] = Nothing /\ \A o \in Edits \ {t} : wrote'[o] = wrote[o]
  BY Zenon DEF DogInv, DogTypeOK, CommitEdit
<1>5. \A r, s \in Edits : DOMAIN wrote'[r] \cap DOMAIN wrote'[s] # {} => r = s
  BY <1>4, Zenon DEF ListOK, Nothing
<1>6. \A r, s \in Edits : NewDog[r] \in edit'[s].existing => edit'[r].step = "committed"
  BY <1>3, Zenon DEF ListOK
<1>7. WriterOK(t)'
  BY <1>3, <1>4, Zenon DEF WriterOK, WroteOK, DoneOK, Nothing
<1>8. \A o \in Edits \ {t} : WriterOK(o)'
  BY <1>1, <1>3, <1>4, CommitWriter, Zenon
<1>9. Table' = {d \in OldDogs \cup Created' : Kept(d)'}
  BY <1>1, <1>3, CommitTable, Zenon
<1>10. QED
  BY <1>5, <1>6, <1>7, <1>8, <1>9, Zenon DEF ListOK

(* A transaction starts with nothing read and nothing written.             *)
LEMMA StartList ==
  ASSUME DogInv, ListOK, NEW t \in Edits, NEW request, Start(t, request), request.existing = {},
         \/ request.step = "existing" /\ request.replace
         \/ request.step = "find" /\ ~request.replace
  PROVE  ListOK'
<1>1. edit[t].step = "begin" /\ dog' = dog /\ wrote' = wrote
  BY Zenon DEF Start, EditAt
<1>2. edit'[t] = request /\ \A o \in Edits \ {t} : edit'[o] = edit[o]
  BY Zenon DEF Start, DogInv, DogTypeOK
<1>3. wrote[t] = Nothing
  BY <1>1, Zenon DEF DogInv, AloneOK, Running
<1>4. WriterOK(t)'
  BY <1>1, <1>2, <1>3, Zenon DEF WriterOK, WroteOK, DoneOK, Nothing
<1>5. \A o \in Edits \ {t} : DOMAIN wrote'[t] \cap DOMAIN wrote[o] = {}
  BY <1>1, <1>3, Zenon DEF Nothing
<1>6. QED
  BY <1>1, <1>2, <1>4, <1>5, ListStep, Zenon

(* update_user_profile and set_representative_dog start.                   *)
LEMMA StartsList ==
  ASSUME DogInv, ListOK, NEW t \in Edits,
         \/ \E keep, new, rep : Replace(t, keep, new, rep)
         \/ \E d : SetOne(t, d)
  PROVE  ListOK'
<1>1. ASSUME NEW keep, NEW new, NEW rep, Replace(t, keep, new, rep) PROVE ListOK'
  <2> DEFINE request == [Unset EXCEPT !.step = "existing", !.keep = keep, !.new = new, !.rep = rep]
  <2>1. request.step = "existing" /\ request.replace = TRUE /\ request.existing = {}
    BY Zenon DEF Unset
  <2>2. Start(t, request)
    BY <1>1, Zenon DEF Replace
  <2> HIDE DEF request
  <2>3. QED
    BY <2>1, <2>2, StartList, Zenon
<1>2. ASSUME NEW d, SetOne(t, d) PROVE ListOK'
  <2> DEFINE request == [Unset EXCEPT !.step = "find", !.replace = FALSE, !.rep = d]
  <2>1. request.step = "find" /\ request.replace = FALSE /\ request.existing = {}
    BY Zenon DEF Unset
  <2>2. Start(t, request)
    BY <1>2, Zenon DEF SetOne
  <2> HIDE DEF request
  <2>3. QED
    BY <2>1, <2>2, StartList, Zenon
<1>3. QED
  BY <1>1, <1>2, Zenon

(* Initially the list is exact.                                            *)
LEMMA DogInitList == DogInit => ListOK
<1>1. SUFFICES ASSUME DogInit PROVE ListOK
  OBVIOUS
<1>2. \A t \in Edits : wrote[t] = Nothing /\ edit[t] = Unset
  BY <1>1, Zenon DEF DogInit
<1>3. \A t \in Edits : edit[t].step = "begin" /\ edit[t].existing = {}
  BY <1>2 DEF Unset
<1>4. \A t \in Edits : WriterOK(t)
  BY <1>2, <1>3, Zenon DEF WriterOK, WroteOK, DoneOK, Nothing
<1>5. Replaced = {}
  BY <1>3, Zenon DEF Replaced, EditAt
<1>6. Table = {d \in OldDogs \cup Created : Kept(d)}
  <2>1. Created = {} /\ \A d : Kept(d)
    BY <1>5, Zenon DEF Created, Kept
  <2>2. Table = OldDogs
    BY <1>1, DogAssumption, Zenon DEF DogInit, Table
  <2>3. QED
    BY <2>1, <2>2, Zenon
<1>7. QED
  BY <1>2, <1>3, <1>4, <1>6, Zenon DEF ListOK, Nothing

(* Every step keeps the list exact.                                        *)
LEMMA ListOKStep == DogInv /\ ListOK /\ [DogNext]_dogVars => ListOK'
<1>1. SUFFICES ASSUME DogInv, ListOK, [DogNext]_dogVars PROVE ListOK'
  OBVIOUS
<1>2. CASE UNCHANGED dogVars
  <2>1. dog' = dog /\ wrote' = wrote /\ edit' = edit
    BY <1>2, Zenon DEF dogVars
  <2>2. Table' = Table /\ Replaced' = Replaced /\ Created' = Created /\ \A d : Kept(d)' = Kept(d)
    BY <2>1, Zenon DEF Table, Replaced, EditAt, Created, Kept, Requested
  <2>3. ASSUME NEW t \in Edits PROVE WriterOK(t)'
    <3>1. WriterOK(t)
      BY <1>1, Zenon DEF ListOK
    <3>2. /\ Visible(t)' = Visible(t) /\ Unwanted(t)' = Unwanted(t)
          /\ \A d : Creates(t, d)' = Creates(t, d)
      BY <2>1, Zenon DEF Visible, Sees, Unwanted, Requested, Creates
    <3>3. WroteOK(t)' /\ DoneOK(t)'
      BY <2>1, <2>2, <3>1, <3>2, Zenon DEF WriterOK, WroteOK, DoneOK
    <3>4. QED
      BY <2>1, <3>1, <3>3, Zenon DEF WriterOK, Nothing
  <2>4. QED
    BY <1>1, <2>1, <2>2, <2>3, Zenon DEF ListOK
<1>3. CASE DogNext
  <2>1. PICK t \in Edits :
          \/ (\E keep, new, rep : Replace(t, keep, new, rep)) \/ (\E d : SetOne(t, d))
          \/ ReadExisting(t) \/ CheckOwned(t) \/ UpdateDogs(t) \/ CreateDogs(t) \/ DeleteDogs(t)
          \/ FindDog(t) \/ FindDogs(t) \/ ClearRepresentative(t) \/ SetRepresentative(t)
          \/ CommitEdit(t) \/ RollBackEdit(t)
    BY <1>3, Zenon DEF DogNext
  <2>2. CASE (\E keep, new, rep : Replace(t, keep, new, rep)) \/ (\E d : SetOne(t, d))
    BY <1>1, <2>2, StartsList, Zenon
  <2>3. CASE ReadExisting(t) \/ CreateDogs(t) \/ DeleteDogs(t)
    BY <1>1, <2>3, ReadExistingList, CreateDogsList, DeleteDogsList, Zenon
  <2>4. CASE CheckOwned(t) \/ UpdateDogs(t) \/ FindDog(t)
    BY <1>1, <2>4, ChecksList, Zenon
  <2>5. CASE FindDogs(t) \/ ClearRepresentative(t) \/ SetRepresentative(t)
    BY <1>1, <2>5, FindDogsList, ClearRepresentativeList, SetRepresentativeList, Zenon
  <2>6. CASE CommitEdit(t)
    BY <1>1, <2>6, CommitEditList, Zenon
  <2>7. CASE RollBackEdit(t)
    <3>1. Running(t) /\ Fail(t) /\ dog' = dog
      BY <2>7, Zenon DEF RollBackEdit
    <3>2. QED
      BY <1>1, <3>1, ListFails, Zenon
  <2>8. QED
    BY <2>1, <2>2, <2>3, <2>4, <2>5, <2>6, <2>7, Zenon
<1>4. QED
  BY <1>1, <1>2, <1>3, Zenon

(* update_user_profile and set_representative_dog leave at most one        *)
(* representative, and the list is exactly what the committed replacements *)
(* make of it, for any number of dogs and of overlapping transactions.     *)
THEOREM DogListIsReplaced == DogSpec => []ListIsReplaced
<1>1. DogInv /\ ListOK => ListIsReplaced
  <2> DEFINE reps == {d \in Dogs : dog[d] = "rep"}
  <2>1. SUFFICES ASSUME DogInv, ListOK PROVE Cardinality(reps) <= 1
    BY Zenon DEF DogInv, AloneOK, ListOK, Created, Kept, ListIsReplaced
  <2>2. CASE reps = {}
    BY <2>2, FS_EmptySet
  <2>3. ASSUME NEW d \in reps PROVE Cardinality(reps) <= 1
    <3>1. reps = {d}
      BY <2>1, Zenon DEF DogInv, IndexOK
    <3>2. QED
      BY <3>1, FS_Singleton
  <2>4. QED
    BY <2>2, <2>3, Zenon
<1>2. QED
  BY <1>1, DogInitInv, DogInitList, DogInvStep, ListOKStep, PTL DEF DogSpec
=============================================================================
