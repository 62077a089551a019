------------------------- MODULE SnsDeliveryProofs -------------------------
(***************************************************************************)
(* SnsDelivery implements DeliveryPromise for any number of notifications, *)
(* workers, retries and faults.                                            *)
(***************************************************************************)
EXTENDS SnsDelivery, TLAPS

(* Types, and: the inline task of a notification starts once; a runner     *)
(* about to set the key has published; a key implies a published message.  *)
SnsInv ==
  /\ SnsTypeOK
  /\ \A n \in Notifs : n \notin dispatched => run[n].step = "wait"
  /\ \A r \in Runners : run[r].step = "mark" => copies[run[r].notif] > 0
  /\ \A n \in delivered : copies[n] > 0

-----------------------------------------------------------------------------
(* What an action does to `run` and the queue has the right type.          *)
LEMMA RunTypes ==
  ASSUME SnsTypeOK
  PROVE  /\ \A r \in Runners : run[r] \in Runs
         /\ \A n \in Notifs, k \in Tries : Put(n, k) => queued' \in [Notifs -> [Tries -> Nat]]
         /\ Waiting \in Runs
         /\ \A n \in Notifs, k \in Tries, s \in {"load", "check"} :
              [step |-> s, notif |-> n, tries |-> k] \in Runs
         /\ \A r \in Runners : Finish(r) => run' \in [Runners -> Runs]
         /\ \A r \in Runners, s \in {"load", "check", "publish", "mark", "retry"} :
              To(r, s) => run' \in [Runners -> Runs]
<1> USE SnsAssumption DEF SnsTypeOK
<1>1. \A r \in Runners : run[r] \in Runs
  OBVIOUS
<1>2. ASSUME NEW n \in Notifs, NEW k \in Tries, Put(n, k)
      PROVE  queued' \in [Notifs -> [Tries -> Nat]]
  BY <1>2 DEF Put
<1>3. Waiting \in Runs
  BY DEF Waiting, Runs, Tries
<1>4. ASSUME NEW n \in Notifs, NEW k \in Tries, NEW s \in {"load", "check"}
      PROVE  [step |-> s, notif |-> n, tries |-> k] \in Runs
  BY Zenon DEF Runs
<1>5. ASSUME NEW r \in Runners, Finish(r) PROVE run' \in [Runners -> Runs]
  BY <1>3, <1>5, Zenon DEF Finish
<1>6. ASSUME NEW r \in Runners, NEW s \in {"load", "check", "publish", "mark", "retry"}, To(r, s)
      PROVE  run' \in [Runners -> Runs]
  <2>1. [run[r] EXCEPT !.step = s] \in Runs
    BY <1>1, Zenon DEF Runs
  <2> QED
    BY <1>6, <2>1, Zenon DEF To
<1> QED
  BY <1>1, <1>2, <1>3, <1>4, <1>5, <1>6, Zenon

(* One runner moves, the others do not.                                    *)
LEMMA OneMoves ==
  ASSUME SnsTypeOK, NEW r \in Runners
  PROVE  /\ Finish(r) => /\ run'[r] = Waiting
                         /\ \A o \in Runners \ {r} : run'[o] = run[o]
         /\ \A s : To(r, s) => /\ run'[r].step = s
                               /\ run'[r].notif = run[r].notif
                               /\ \A o \in Runners \ {r} : run'[o] = run[o]
BY Zenon DEF SnsTypeOK, Finish, To, Runs

(* Every step keeps SnsInv.                                                *)
LEMMA SnsInvStep == SnsInv /\ [SnsNext]_snsVars => SnsInv'
<1> SUFFICES ASSUME SnsInv, [SnsNext]_snsVars PROVE SnsInv'
  OBVIOUS
<1> USE SnsAssumption
<1>t. SnsTypeOK
  BY Zenon DEF SnsInv
<1>r. Notifs \subseteq Runners /\ Workers \subseteq Runners
  BY Zenon DEF Runners
<1>m. ASSUME NEW r \in Runners, run[r].step # "wait" PROVE run[r].notif \in Notifs
  BY <1>m, <1>t, Zenon DEF SnsTypeOK
<1>f. ASSUME NEW r \in Runners, Finish(r)
      PROVE  /\ run' \in [Runners -> Runs]
             /\ run'[r].step = "wait"
             /\ \A o \in Runners \ {r} : run'[o] = run[o]
  BY <1>f, <1>t, RunTypes, OneMoves DEF Waiting
<1>g. ASSUME NEW r \in Runners, To(r, "retry")
      PROVE  /\ run' \in [Runners -> Runs]
             /\ run'[r].step = "retry" /\ run'[r].notif = run[r].notif
             /\ \A o \in Runners \ {r} : run'[o] = run[o]
  BY <1>g, <1>t, RunTypes, OneMoves, Zenon
<1>q. ASSUME NEW w \in Workers, Retry(w) \/ \E unanswered \in BOOLEAN : RetryFails(w, unanswered)
      PROVE  SnsInv'
  <2>1. run[w].notif \in Notifs /\ run[w].tries \in Tries
    BY <1>q, <1>m, <1>r, <1>t, Zenon DEF Retry, RetryFails, On, SnsTypeOK, Runs
  <2>2. run[w].tries < MaxRetries => run[w].tries + 1 \in Tries
    BY <2>1 DEF Tries
  <2>3. queued' \in [Notifs -> [Tries -> Nat]] /\ dropped' \subseteq Notifs /\ Finish(w)
    BY <1>q, <2>1, <2>2, <1>t, RunTypes, Zenon DEF Retry, RetryFails, SnsTypeOK
  <2>4. UNCHANGED <<celery, stored, dispatched, delivered, copies, unchecked>>
    BY <1>q, Zenon DEF Retry, RetryFails
  <2> QED
    BY <2>3, <2>4, <1>f, <1>m, <1>r, Zenon DEF SnsInv, SnsTypeOK
<1>1. ASSUME NEW n \in Notifs, Dispatch(n) PROVE SnsInv'
  <2>s. StartInline(n) => /\ run' \in [Runners -> Runs]
                          /\ run'[n].step = "check" /\ run'[n].notif = n
                          /\ \A o \in Runners \ {n} : run'[o] = run[o]
    BY <1>t, <1>r DEF SnsTypeOK, StartInline, Runs, Tries
  <2>1. CASE DispatchInline(n)
    BY <2>1, <2>s, <1>r, Zenon DEF DispatchInline, SnsInv, SnsTypeOK
  <2>2. CASE Enqueue(n)
    <3>1. queued' \in [Notifs -> [Tries -> Nat]]
      BY <2>2, <1>t, RunTypes DEF Enqueue, Tries
    <3> QED
      BY <2>2, <3>1, <1>r, Zenon DEF Enqueue, SnsInv, SnsTypeOK
  <2>3. ASSUME NEW unanswered \in BOOLEAN, EnqueueFails(n, unanswered) PROVE SnsInv'
    <3>1. queued' \in [Notifs -> [Tries -> Nat]]
      <4>1. 0 \in Tries
        BY DEF Tries
      <4>2. CASE unanswered
        BY <2>3, <4>1, <4>2, <1>t, RunTypes, Zenon DEF EnqueueFails
      <4>3. CASE ~unanswered
        BY <2>3, <4>3, <1>t, Zenon DEF EnqueueFails, SnsTypeOK
      <4> QED
        BY <4>2, <4>3, Zenon
    <3> QED
      BY <2>3, <3>1, <2>s, <1>r, Zenon DEF EnqueueFails, SnsInv, SnsTypeOK
  <2> QED
    BY <1>1, <2>1, <2>2, <2>3, Zenon DEF Dispatch
<1>2. ASSUME NEW n \in Notifs, RowGone(n) PROVE SnsInv'
  BY <1>2, Zenon DEF RowGone, SnsInv, SnsTypeOK
<1>3. ASSUME NEW w \in Workers, NEW n \in Notifs, NEW k \in Tries, TakeTask(w, n, k) PROVE SnsInv'
  <2>1. queued' \in [Notifs -> [Tries -> Nat]]
    BY <1>3, <1>t DEF TakeTask, SnsTypeOK
  <2>2. /\ run' \in [Runners -> Runs]
        /\ run'[w].step = "load" /\ run'[w].notif = n
        /\ \A o \in Runners \ {w} : run'[o] = run[o]
    BY <1>3, <1>t, <1>r, Zenon DEF TakeTask, SnsTypeOK, Runs
  <2> QED
    BY <1>3, <2>1, <2>2, <1>r DEF TakeTask, SnsInv, SnsTypeOK
<1>4. ASSUME NEW r \in Runners, Progress(r) PROVE SnsInv'
  <2>1. CASE Check(r)
    <3>1. run' \in [Runners -> Runs]
      BY <2>1, <1>t, RunTypes, Zenon DEF Check
    <3>2. run[r].notif \in Notifs
      BY <2>1, <1>m, Zenon DEF Check, On
    <3>3. /\ run'[r].step \in {"publish", "wait"}
          /\ run'[r].step # "wait" => run'[r].notif = run[r].notif
          /\ \A o \in Runners \ {r} : run'[o] = run[o]
      BY <2>1, <1>t, OneMoves DEF Check, Waiting
    <3>4. SnsTypeOK'
      BY <2>1, <3>1, <3>2, <3>3, <1>t, Zenon DEF Check, SnsTypeOK
    <3> QED
      BY <2>1, <3>3, <3>4, <1>r, Zenon DEF Check, On, SnsInv
  <2>2. CASE PublishSns(r)
    <3>1. run' \in [Runners -> Runs]
      BY <2>2, <1>t, RunTypes, Zenon DEF PublishSns
    <3>2. run[r].notif \in Notifs
      BY <2>2, <1>m, Zenon DEF PublishSns, On
    <3>3. /\ copies' \in [Notifs -> Nat]
          /\ copies'[run[r].notif] > 0
          /\ \A n \in Notifs : copies[n] > 0 => copies'[n] > 0
      BY <2>2, <3>2, <1>t DEF PublishSns, SnsTypeOK
    <3>4. /\ run'[r].step = "mark" /\ run'[r].notif = run[r].notif
          /\ \A o \in Runners \ {r} : run'[o] = run[o]
      BY <2>2, <1>t, OneMoves, Zenon DEF PublishSns
    <3>5. SnsTypeOK'
      BY <2>2, <3>1, <3>2, <3>3, <3>4, <1>t, Zenon DEF PublishSns, SnsTypeOK
    <3>6. \A n \in Notifs : n \notin dispatched' => run'[n].step = "wait"
      BY <2>2, <3>4, <1>r, Zenon DEF PublishSns, On, SnsInv
    <3>7. \A o \in Runners : run'[o].step = "mark" => copies'[run'[o].notif] > 0
      BY <3>3, <3>4, <1>m, Zenon DEF SnsInv
    <3>8. \A n \in delivered' : copies'[n] > 0
      BY <2>2, <3>3, <1>t, Zenon DEF PublishSns, SnsInv, SnsTypeOK
    <3> QED
      BY <3>5, <3>6, <3>7, <3>8, Zenon DEF SnsInv
  <2>3. CASE Mark(r)
    <3>1. run' \in [Runners -> Runs]
      BY <2>3, <1>t, RunTypes, Zenon DEF Mark
    <3>2. run[r].notif \in Notifs /\ copies[run[r].notif] > 0
      BY <2>3, <1>m, Zenon DEF Mark, On, SnsInv
    <3>3. /\ run'[r].step = "wait"
          /\ \A o \in Runners \ {r} : run'[o] = run[o]
      BY <2>3, <1>t, OneMoves DEF Mark, Waiting
    <3>4. SnsTypeOK'
      BY <2>3, <3>1, <3>2, <3>3, <1>t, Zenon DEF Mark, SnsTypeOK
    <3> QED
      BY <2>3, <3>2, <3>3, <3>4, <1>r, Zenon DEF Mark, On, SnsInv
  <2>4. CASE r \in Workers /\ LoadRow(r)
    <3>1. run' \in [Runners -> Runs]
      BY <2>4, <1>t, RunTypes, Zenon DEF LoadRow
    <3>2. run[r].notif \in Notifs
      BY <2>4, <1>m, Zenon DEF LoadRow, On
    <3>3. /\ run'[r].step \in {"check", "wait"}
          /\ run'[r].step # "wait" => run'[r].notif = run[r].notif
          /\ \A o \in Runners \ {r} : run'[o] = run[o]
      BY <2>4, <1>t, OneMoves DEF LoadRow, Waiting
    <3>4. SnsTypeOK'
      BY <2>4, <3>1, <3>2, <3>3, <1>t, Zenon DEF LoadRow, SnsTypeOK
    <3> QED
      BY <2>4, <3>3, <3>4, <1>r, Zenon DEF LoadRow, On, SnsInv
  <2> QED
    BY <1>4, <2>1, <2>2, <2>3, <2>4, <1>q, Zenon DEF Progress
<1>5. CASE SnsFault
  <2>1. ASSUME NEW r \in Runners, CheckFails(r) PROVE SnsInv'
    <3>1. run' \in [Runners -> Runs]
      BY <2>1, <1>t, RunTypes, Zenon DEF CheckFails
    <3>2. run[r].notif \in Notifs
      BY <2>1, <1>m, Zenon DEF CheckFails, On
    <3>3. unchecked' \in [Notifs -> Nat]
      BY <2>1, <3>2, <1>t DEF CheckFails, SnsTypeOK
    <3>4. /\ run'[r].step = "publish" /\ run'[r].notif = run[r].notif
          /\ \A o \in Runners \ {r} : run'[o] = run[o]
      BY <2>1, <1>t, OneMoves, Zenon DEF CheckFails
    <3>5. SnsTypeOK'
      BY <2>1, <3>1, <3>2, <3>3, <3>4, <1>t, Zenon DEF CheckFails, SnsTypeOK
    <3> QED
      BY <2>1, <3>4, <3>5, <1>r, Zenon DEF CheckFails, On, SnsInv
  <2>2. ASSUME NEW r \in Runners, MarkFails(r) PROVE SnsInv'
    BY <2>2, <1>f, <1>m, <1>r DEF MarkFails, On, SnsInv, SnsTypeOK
  <2>3. ASSUME NEW r \in Runners, NEW unanswered \in BOOLEAN, PublishSnsFails(r, unanswered)
        PROVE  SnsInv'
    <3>1. run[r].notif \in Notifs /\ run[r].step # "wait"
      BY <2>3, <1>m, Zenon DEF PublishSnsFails, On
    <3>2. /\ run' \in [Runners -> Runs]
          /\ run'[r].step = "wait" \/ (run'[r].step = "retry" /\ run'[r].notif = run[r].notif)
          /\ \A o \in Runners \ {r} : run'[o] = run[o]
      BY <2>3, <1>f, <1>g, Zenon DEF PublishSnsFails
    <3>3. dropped' \subseteq Notifs
      BY <2>3, <1>t, Zenon DEF PublishSnsFails, SnsTypeOK, Runners
    <3>4. copies' \in [Notifs -> Nat] /\ \A n \in Notifs : copies[n] > 0 => copies'[n] > 0
      BY <2>3, <3>1, <1>t DEF PublishSnsFails, SnsTypeOK
    <3>5. SnsTypeOK'
      BY <2>3, <3>1, <3>2, <3>3, <3>4, <1>t, Zenon DEF PublishSnsFails, SnsTypeOK
    <3>6. \A n \in Notifs : n \notin dispatched' => run'[n].step = "wait"
      BY <2>3, <3>1, <3>2, <1>r, Zenon DEF PublishSnsFails, SnsInv
    <3>7. \A o \in Runners : run'[o].step = "mark" => copies'[run'[o].notif] > 0
      BY <3>2, <3>4, <1>m, Zenon DEF SnsInv
    <3>8. \A n \in delivered' : copies'[n] > 0
      BY <2>3, <3>4, <1>t, Zenon DEF PublishSnsFails, SnsInv, SnsTypeOK
    <3> QED
      BY <3>5, <3>6, <3>7, <3>8, Zenon DEF SnsInv
  <2>4. ASSUME NEW w \in Workers, LoadFails(w) PROVE SnsInv'
    <3>1. run[w].notif \in Notifs /\ run[w].step = "load"
      BY <2>4, <1>m, <1>r, Zenon DEF LoadFails, On
    <3>2. /\ run' \in [Runners -> Runs]
          /\ run'[w].step = "retry" /\ run'[w].notif = run[w].notif
          /\ \A o \in Runners \ {w} : run'[o] = run[o]
      BY <2>4, <1>g, <1>r, Zenon DEF LoadFails
    <3>3. SnsTypeOK'
      BY <2>4, <3>1, <3>2, <1>t, Zenon DEF LoadFails, SnsTypeOK
    <3> QED
      BY <2>4, <3>1, <3>2, <3>3, <1>r, Zenon DEF LoadFails, SnsInv
  <2>5. ASSUME NEW w \in Workers, Redeliver(w) PROVE SnsInv'
    <3>1. run[w].notif \in Notifs /\ run[w].tries \in Tries
      BY <2>5, <1>m, <1>r, <1>t, Zenon DEF Redeliver, On, SnsTypeOK, Runs
    <3>2. queued' \in [Notifs -> [Tries -> Nat]]
      BY <2>5, <3>1, <1>t, RunTypes, Zenon DEF Redeliver
    <3> QED
      BY <2>5, <3>2, Zenon DEF Redeliver, SnsInv, SnsTypeOK
  <2>6. ASSUME NEW w \in Workers, NEW acknowledged \in BOOLEAN, CrashWorker(w, acknowledged)
        PROVE  SnsInv'
    <3>1. run[w].notif \in Notifs /\ run[w].tries \in Tries
      BY <2>6, <1>m, <1>r, <1>t, Zenon DEF CrashWorker, On, SnsTypeOK, Runs
    <3>2. queued' \in [Notifs -> [Tries -> Nat]] /\ dropped' \subseteq Notifs
      BY <2>6, <3>1, <1>t, RunTypes, Zenon DEF CrashWorker, SnsTypeOK
    <3> QED
      BY <2>6, <3>2, <1>f, <1>m, <1>r DEF CrashWorker, SnsInv, SnsTypeOK
  <2>7. ASSUME NEW n \in Notifs, CancelInline(n) PROVE SnsInv'
    <3>1. /\ run' \in [Runners -> Runs]
          /\ run'[n].step = "wait"
          /\ \A o \in Runners \ {n} : run'[o] = run[o]
      BY <2>7, <1>f, <1>r, Zenon DEF CancelInline
    <3> QED
      BY <2>7, <3>1, <1>m, <1>r, Zenon DEF CancelInline, SnsInv, SnsTypeOK
  <2>8. ASSUME NEW n \in Notifs, ExpireMark(n) PROVE SnsInv'
    BY <2>8, Zenon DEF ExpireMark, SnsInv, SnsTypeOK
  <2> QED
    BY <1>5, <2>1, <2>2, <2>3, <2>4, <2>5, <2>6, <2>7, <2>8, <1>q, Zenon DEF SnsFault
<1>6. CASE UNCHANGED snsVars
  BY <1>6, Zenon DEF snsVars, snsState, SnsInv, SnsTypeOK
<1> QED
  BY <1>1, <1>2, <1>3, <1>4, <1>5, <1>6, Zenon DEF SnsNext, TakeAny

-----------------------------------------------------------------------------
(* A runner that moves changes the attempts only by entering or leaving    *)
(* the step "publish".                                                     *)
LEMMA TryingStep ==
  ASSUME SnsTypeOK, SnsTypeOK', NEW r \in Runners,
         \A o \in Runners \ {r} : run'[o] = run[o]
  PROVE  /\ (run[r].step # "publish" /\ run'[r].step # "publish") => Trying' = Trying
         /\ \A n \in Notifs :
              /\ (run[r].step # "publish" /\ run'[r].step = "publish" /\ run'[r].notif = n)
                   => Trying' = [Trying EXCEPT ![n] = @ \cup {r}]
              /\ (run[r].step = "publish" /\ run'[r].step # "publish" /\ run[r].notif = n)
                   => Trying' = [Trying EXCEPT ![n] = @ \ {r}] /\ r \in Trying[n]
<1>1. ASSUME run[r].step # "publish", run'[r].step # "publish" PROVE Trying' = Trying
  BY <1>1, Zenon DEF Trying
<1>2. ASSUME NEW n \in Notifs, run[r].step # "publish", run'[r].step = "publish", run'[r].notif = n
      PROVE  Trying' = [Trying EXCEPT ![n] = @ \cup {r}]
  <2>1. \A m \in Notifs : Trying'[m] = IF m = n THEN Trying[m] \cup {r} ELSE Trying[m]
    <3> SUFFICES ASSUME NEW m \in Notifs, NEW o
                 PROVE  o \in Trying'[m] <=> o \in IF m = n THEN Trying[m] \cup {r} ELSE Trying[m]
      BY Zenon
    <3>1. CASE o \in Runners \ {r}
      BY <3>1, Zenon DEF Trying
    <3>2. CASE o = r
      BY <3>2, <1>2, Zenon DEF Trying
    <3>3. CASE o \notin Runners
      BY <3>3, Zenon DEF Trying
    <3> QED
      BY <3>1, <3>2, <3>3, Zenon
  <2>2. Trying = [m \in Notifs |-> Trying[m]] /\ Trying' = [m \in Notifs |-> Trying'[m]]
    BY Zenon DEF Trying
  <2> QED
    BY <2>1, <2>2, Zenon
<1>3. ASSUME NEW n \in Notifs, run[r].step = "publish", run'[r].step # "publish", run[r].notif = n
      PROVE  Trying' = [Trying EXCEPT ![n] = @ \ {r}] /\ r \in Trying[n]
  <2>1. \A m \in Notifs : Trying'[m] = IF m = n THEN Trying[m] \ {r} ELSE Trying[m]
    <3> SUFFICES ASSUME NEW m \in Notifs, NEW o
                 PROVE  o \in Trying'[m] <=> o \in IF m = n THEN Trying[m] \ {r} ELSE Trying[m]
      OBVIOUS
    <3>1. CASE o \in Runners \ {r}
      BY <3>1, Zenon DEF Trying
    <3>2. CASE o = r
      BY <3>2, <1>3, Zenon DEF Trying
    <3>3. CASE o \notin Runners
      BY <3>3, Zenon DEF Trying
    <3> QED
      BY <3>1, <3>2, <3>3, Zenon
  <2>2. r \in Trying[n]
    BY <1>3, Zenon DEF Trying
  <2>3. Trying = [m \in Notifs |-> Trying[m]] /\ Trying' = [m \in Notifs |-> Trying'[m]]
    BY Zenon DEF Trying
  <2> QED
    BY <2>1, <2>2, <2>3, Zenon
<1> QED
  BY <1>1, <1>2, <1>3, Zenon

(* Every step of SnsDelivery is a step of the promise or changes nothing   *)
(* it speaks of.                                                           *)
LEMMA PromiseStep ==
  SnsInv /\ SnsInv' /\ [SnsNext]_snsVars => [Promise!PromiseNext]_(Promise!promiseVars)
<1> SUFFICES ASSUME SnsInv, SnsInv', [SnsNext]_snsVars
             PROVE  Promise!PromiseNext \/ UNCHANGED Promise!promiseVars
  OBVIOUS
<1> USE SnsAssumption
<1>t. SnsTypeOK /\ SnsTypeOK'
  BY Zenon DEF SnsInv
<1>r. Notifs \subseteq Runners /\ Workers \subseteq Runners
  BY Zenon DEF Runners
<1>m. ASSUME NEW r \in Runners, run[r].step # "wait" PROVE run[r].notif \in Notifs
  BY <1>m, <1>t, Zenon DEF SnsTypeOK
<1>u. ASSUME Trying' = Trying, UNCHANGED <<delivered, copies, unchecked>>
      PROVE  UNCHANGED Promise!promiseVars
  BY <1>u, Zenon DEF Promise!promiseVars
<1>f. ASSUME NEW r \in Runners, Finish(r)
      PROVE  run'[r].step = "wait" /\ \A o \in Runners \ {r} : run'[o] = run[o]
  BY <1>f, <1>t, OneMoves DEF Waiting
<1>g. ASSUME NEW r \in Runners, NEW s, To(r, s)
      PROVE  /\ run'[r].step = s /\ run'[r].notif = run[r].notif
             /\ \A o \in Runners \ {r} : run'[o] = run[o]
  BY <1>g, <1>t, OneMoves, Zenon
<1>e. ASSUME NEW r \in Runners, Finish(r), run[r].step # "publish" PROVE Trying' = Trying
  BY <1>e, <1>f, <1>t, TryingStep, Zenon
<1>1. ASSUME NEW n \in Notifs, Dispatch(n) PROVE UNCHANGED Promise!promiseVars
  <2>1. n \notin dispatched => run[n].step = "wait"
    BY Zenon DEF SnsInv
  <2>2. ASSUME StartInline(n), n \notin dispatched PROVE Trying' = Trying
    <3>1. run'[n].step = "check" /\ \A o \in Runners \ {n} : run'[o] = run[o]
      BY <2>2, <1>t, <1>r, Zenon DEF StartInline, SnsTypeOK
    <3> QED
      BY <2>1, <2>2, <3>1, <1>r, <1>t, TryingStep, Zenon
  <2>3. CASE DispatchInline(n)
    BY <2>3, <2>2, <1>u, Zenon DEF DispatchInline
  <2>4. CASE Enqueue(n)
    BY <2>4, <1>u, Zenon DEF Enqueue, Trying
  <2>5. ASSUME NEW unanswered \in BOOLEAN, EnqueueFails(n, unanswered)
        PROVE  UNCHANGED Promise!promiseVars
    BY <2>5, <2>2, <1>u, Zenon DEF EnqueueFails
  <2> QED
    BY <1>1, <2>3, <2>4, <2>5, Zenon DEF Dispatch
<1>2. ASSUME NEW n \in Notifs, RowGone(n) PROVE UNCHANGED Promise!promiseVars
  BY <1>2, <1>u, Zenon DEF RowGone, Trying
<1>3. ASSUME NEW w \in Workers, NEW n \in Notifs, NEW k \in Tries, TakeTask(w, n, k)
      PROVE  UNCHANGED Promise!promiseVars
  <2>1. /\ run[w].step # "publish" /\ run'[w].step # "publish"
        /\ \A o \in Runners \ {w} : run'[o] = run[o]
    BY <1>3, <1>t, <1>r, Zenon DEF TakeTask, On, SnsTypeOK
  <2>2. Trying' = Trying
    BY <2>1, <1>r, <1>t, TryingStep, Zenon
  <2> QED
    BY <1>3, <2>2, <1>u, Zenon DEF TakeTask
<1>4. ASSUME NEW r \in Runners, Progress(r) PROVE Promise!PromiseNext \/ UNCHANGED Promise!promiseVars
  <2>1. CASE Check(r)
    <3> DEFINE n == run[r].notif
    <3>1. n \in Notifs /\ run[r].step # "publish"
      BY <2>1, <1>m, Zenon DEF Check, On
    <3>2. CASE n \in delivered
      BY <2>1, <3>1, <3>2, <1>e, <1>u, Zenon DEF Check
    <3>3. CASE n \notin delivered
      <4>1. Trying' = [Trying EXCEPT ![n] = @ \cup {r}]
        BY <2>1, <3>1, <3>3, <1>g, <1>t, TryingStep, Zenon DEF Check
      <4>2. Promise!Try(n, r)
        BY <2>1, <3>3, <4>1, Zenon DEF Promise!Try, Check
      <4> QED
        BY <3>1, <4>2, Zenon DEF Promise!PromiseNext
    <3> QED
      BY <3>2, <3>3, Zenon
  <2>2. CASE PublishSns(r)
    <3> DEFINE n == run[r].notif
    <3>1. n \in Notifs /\ run[r].step = "publish"
      BY <2>2, <1>m, Zenon DEF PublishSns, On
    <3>2. Trying' = [Trying EXCEPT ![n] = @ \ {r}] /\ r \in Trying[n]
      BY <2>2, <3>1, <1>g, <1>t, TryingStep DEF PublishSns
    <3>3. Promise!Send(n, r)
      BY <2>2, <3>2, Zenon DEF Promise!Send, PublishSns
    <3> QED
      BY <3>1, <3>3, Zenon DEF Promise!PromiseNext
  <2>3. CASE Mark(r)
    <3> DEFINE n == run[r].notif
    <3>1. n \in Notifs /\ run[r].step # "publish" /\ copies[n] > 0
      BY <2>3, <1>m, Zenon DEF Mark, On, SnsInv
    <3>2. Trying' = Trying
      BY <2>3, <3>1, <1>e, Zenon DEF Mark
    <3>3. Promise!Confirm(n)
      BY <2>3, <3>1, <3>2, Zenon DEF Promise!Confirm, Mark
    <3> QED
      BY <3>1, <3>3, Zenon DEF Promise!PromiseNext
  <2>4. CASE r \in Workers /\ LoadRow(r)
    <3>1. run[r].step # "publish"
      BY <2>4, Zenon DEF LoadRow, On
    <3>2. Trying' = Trying
      BY <2>4, <3>1, <1>e, <1>g, <1>t, TryingStep DEF LoadRow
    <3> QED
      BY <2>4, <3>2, <1>u, Zenon DEF LoadRow
  <2>5. CASE r \in Workers /\ Retry(r)
    BY <2>5, <1>e, <1>u, Zenon DEF Retry, On
  <2> QED
    BY <1>4, <2>1, <2>2, <2>3, <2>4, <2>5, Zenon DEF Progress
<1>5. CASE SnsFault
  <2>1. ASSUME NEW r \in Runners, CheckFails(r) PROVE Promise!PromiseNext
    <3> DEFINE n == run[r].notif
    <3>1. n \in Notifs /\ run[r].step # "publish"
      BY <2>1, <1>m, Zenon DEF CheckFails, On
    <3>2. Trying' = [Trying EXCEPT ![n] = @ \cup {r}]
      BY <2>1, <3>1, <1>g, <1>t, TryingStep, Zenon DEF CheckFails
    <3>3. Promise!TryBlindly(n, r)
      BY <2>1, <3>2, Zenon DEF Promise!TryBlindly, CheckFails
    <3> QED
      BY <3>1, <3>3, Zenon DEF Promise!PromiseNext
  <2>2. ASSUME NEW r \in Runners, MarkFails(r) PROVE UNCHANGED Promise!promiseVars
    BY <2>2, <1>e, <1>u, Zenon DEF MarkFails, On
  <2>3. ASSUME NEW r \in Runners, NEW unanswered \in BOOLEAN, PublishSnsFails(r, unanswered)
        PROVE  Promise!PromiseNext
    <3> DEFINE n == run[r].notif
    <3>1. n \in Notifs /\ run[r].step = "publish"
      BY <2>3, <1>m, Zenon DEF PublishSnsFails, On
    <3>2. run'[r].step # "publish" /\ \A o \in Runners \ {r} : run'[o] = run[o]
      BY <2>3, <1>f, <1>g DEF PublishSnsFails
    <3>3. Trying' = [Trying EXCEPT ![n] = @ \ {r}] /\ r \in Trying[n]
      BY <3>1, <3>2, <1>t, TryingStep, Zenon
    <3>4. CASE unanswered
      <4>1. Promise!Send(n, r)
        BY <2>3, <3>3, <3>4, Zenon DEF Promise!Send, PublishSnsFails
      <4> QED
        BY <3>1, <4>1, Zenon DEF Promise!PromiseNext
    <3>5. CASE ~unanswered
      <4>1. Promise!GiveUp(n, r)
        BY <2>3, <3>3, <3>5, Zenon DEF Promise!GiveUp, PublishSnsFails
      <4> QED
        BY <3>1, <4>1, Zenon DEF Promise!PromiseNext
    <3> QED
      BY <3>4, <3>5, Zenon
  <2>4. ASSUME NEW w \in Workers, LoadFails(w) PROVE UNCHANGED Promise!promiseVars
    <3>1. /\ run[w].step # "publish" /\ run'[w].step # "publish"
          /\ \A o \in Runners \ {w} : run'[o] = run[o]
      BY <2>4, <1>g, <1>r DEF LoadFails, On
    <3>2. Trying' = Trying
      BY <3>1, <1>r, <1>t, TryingStep, Zenon
    <3> QED
      BY <2>4, <3>2, <1>u, Zenon DEF LoadFails
  <2>5. ASSUME NEW w \in Workers, Redeliver(w) PROVE UNCHANGED Promise!promiseVars
    BY <2>5, <1>u, Zenon DEF Redeliver, Trying
  <2>6. ASSUME NEW w \in Runners, Finish(w), UNCHANGED <<delivered, copies, unchecked>>,
               run[w].step # "wait"
        PROVE  Promise!PromiseNext \/ UNCHANGED Promise!promiseVars
    <3> DEFINE n == run[w].notif
    <3>1. n \in Notifs
      BY <2>6, <1>m, Zenon
    <3>2. CASE run[w].step # "publish"
      BY <2>6, <3>2, <1>e, <1>u, Zenon
    <3>3. CASE run[w].step = "publish"
      <4>1. Trying' = [Trying EXCEPT ![n] = @ \ {w}] /\ w \in Trying[n]
        BY <2>6, <3>1, <3>3, <1>f, <1>t, TryingStep, Zenon
      <4>2. Promise!GiveUp(n, w)
        BY <2>6, <4>1, Zenon DEF Promise!GiveUp
      <4> QED
        BY <3>1, <4>2, Zenon DEF Promise!PromiseNext
    <3> QED
      BY <3>2, <3>3, Zenon
  <2>7. ASSUME NEW w \in Workers, NEW acknowledged \in BOOLEAN, CrashWorker(w, acknowledged)
        PROVE  Promise!PromiseNext \/ UNCHANGED Promise!promiseVars
    BY <2>7, <2>6, <1>r, Zenon DEF CrashWorker, On
  <2>8. ASSUME NEW n \in Notifs, CancelInline(n)
        PROVE  Promise!PromiseNext \/ UNCHANGED Promise!promiseVars
    BY <2>8, <2>6, <1>r, Zenon DEF CancelInline, On
  <2>9. ASSUME NEW n \in Notifs, ExpireMark(n) PROVE Promise!PromiseNext
    <3>1. Promise!Forget(n)
      BY <2>9, Zenon DEF Promise!Forget, ExpireMark, Trying
    <3> QED
      BY <3>1, Zenon DEF Promise!PromiseNext
  <2>10. ASSUME NEW w \in Workers, NEW unanswered \in BOOLEAN, RetryFails(w, unanswered)
         PROVE  UNCHANGED Promise!promiseVars
    BY <2>10, <1>e, <1>r, <1>u, Zenon DEF RetryFails, On
  <2> QED
    BY <1>5, <2>1, <2>2, <2>3, <2>4, <2>5, <2>7, <2>8, <2>9, <2>10, Zenon DEF SnsFault
<1>6. CASE UNCHANGED snsVars
  BY <1>6, <1>u, Zenon DEF snsVars, snsState, Trying
<1> QED
  BY <1>1, <1>2, <1>3, <1>4, <1>5, <1>6, Zenon DEF SnsNext, TakeAny

-----------------------------------------------------------------------------
(* Initially nothing is dispatched or marked, and no try is under way.     *)
LEMMA SnsInitInv == SnsInit => SnsInv /\ Promise!PromiseInit
<1> SUFFICES ASSUME SnsInit PROVE SnsInv /\ Promise!PromiseInit
  OBVIOUS
<1> USE SnsAssumption DEF SnsInit
<1>1. Waiting \in Runs /\ Waiting.step = "wait"
  BY DEF Waiting, Runs, Tries
<1>2. SnsInv
  BY <1>1, Zenon DEF SnsInv, SnsTypeOK, Runners
<1>3. Trying = [n \in Notifs |-> {}]
  BY <1>1, Zenon DEF Trying
<1> QED
  BY <1>2, <1>3, Zenon DEF Promise!PromiseInit

(* Whatever fails and whoever runs, a key in Redis means that SNS has      *)
(* accepted the message: the order fixed by deliver_once loses nothing to  *)
(* its own idempotency check.                                              *)
THEOREM KeyImpliesCopy == SnsSpec => [](\A n \in delivered : copies[n] > 0)
<1>1. SnsInv => \A n \in delivered : copies[n] > 0
  BY Zenon DEF SnsInv
<1> QED
  BY <1>1, SnsInitInv, SnsInvStep, PTL DEF SnsSpec

(* The delivery of notifications by workers and inline tasks implements    *)
(* the promise of deliver_once.                                            *)
THEOREM SnsImplementsPromise == SnsSpec => DeliveryRefines
<1>1. SnsSpec => []SnsInv
  BY SnsInitInv, SnsInvStep, PTL DEF SnsSpec
<1> QED
  BY <1>1, SnsInitInv, PromiseStep, PTL DEF SnsSpec, DeliveryRefines, Promise!PromiseSpec
=============================================================================
