--------------------------- MODULE SessionProofs ---------------------------
(***************************************************************************)
(* Proofs about Session for any number of handlers, tokens, status changes *)
(* and faults.                                                             *)
(***************************************************************************)
EXTENDS Session, FiniteSetTheorems, SequenceTheorems, TLAPS

(* Where a handler holds a token it has created and not handed out yet. *)
Sequential == {"seqGet", "seqSet"}
Refreshing == {"refreshStatus", "refreshDb", "refreshFill", "refreshRotate"} \cup Sequential
Creating == {"loginStore", "loginCache"} \cup Refreshing

(* Where a handler is in get_current_user, before and after the look-up of the
   jti, and where it has a token that a client presented. *)
Passed == {"authCache", "authDb", "authFill", "served"}
Checking == {"authJti"} \cup Passed
Presenting == Refreshing \cup Checking

Steps == {"idle", "withdrawDb", "invalidate"} \cup Creating \cup Presenting \cup Revoking

Locals == [pc : Steps, tok : 0..MaxTokens, new : 0..MaxTokens, seen : Live,
           miss : BOOLEAN, active : BOOLEAN, barred : BOOLEAN]

(* Types of the row, the status cache and the counters. *)
RowOK ==
  /\ status \in Statuses /\ replica \in Statuses /\ wal \in Seq(Statuses)
  /\ cache \in Live \cup {None}
  /\ changes \in 0..MaxChanges
  /\ faults \in 0..MaxFaults
  /\ evalFaults \in Nat

(* Types of user_refresh, with the history of its families, and of the tokens. *)
StoredOK ==
  /\ refresh \in 0..MaxTokens
  /\ family \in [Tokens -> Tokens]
  /\ ended \subseteq Tokens

TokensOK ==
  /\ issued \subseteq Tokens
  /\ last \in 0..MaxTokens
  /\ uses \in [Tokens -> Nat]

(* Types of the handlers, and what their position says about their tokens. *)
ProcOK ==
  /\ proc \in [Handlers -> Locals]
  /\ \A h \in Handlers : /\ proc[h].pc \in Creating => proc[h].new # NoToken
                         /\ proc[h].pc \in Presenting => proc[h].tok # NoToken

TypeOK == RowOK /\ StoredOK /\ TokensOK /\ ProcOK

----------------------------------------------------------------------------
(* What the writes of the handlers' local variables do.                     *)

(* The values the constants stand for. *)
LEMMA Values ==
  /\ Tokens \subseteq 0..MaxTokens /\ NoToken \in 0..MaxTokens /\ NoToken \notin Tokens
  /\ 0..MaxTokens = Tokens \cup {NoToken}
  /\ Live \subseteq Statuses /\ Statuses = Live \cup {"WITHDRAWN"}
  /\ "ACTIVE" \in Live /\ "SUSPENDED" \in Live /\ "WITHDRAWN" \notin Live
BY SessionAssumption DEF Live, Statuses, Tokens, NoToken

(* The local variables of a handler between two requests. *)
LEMMA IdleFields ==
  /\ Idle.pc = "idle" /\ Idle.tok = NoToken /\ Idle.new = NoToken /\ Idle.seen = "ACTIVE"
  /\ Idle.miss = FALSE /\ Idle.active = FALSE /\ Idle.barred = FALSE
  /\ Idle \in Locals
<1>1. "idle" \in Steps
  BY Zenon DEF Steps
<1> QED
  BY <1>1, Values, Zenon DEF Idle, Locals

(* Going to another step leaves the other local variables alone. *)
LEMMA GotoLocals ==
  ASSUME NEW r \in Locals, NEW pc \in Steps
  PROVE  LET next == [r EXCEPT !.pc = pc]
         IN /\ next \in Locals
            /\ next.pc = pc /\ next.tok = r.tok /\ next.new = r.new /\ next.seen = r.seen
            /\ next.miss = r.miss /\ next.active = r.active /\ next.barred = r.barred
BY Zenon DEF Locals

(* A handler has new local variables, the others keep theirs. *)
Becomes(h, r) ==
  /\ proc' \in [Handlers -> Locals]
  /\ proc'[h] = r
  /\ \A g \in Handlers \ {h} : proc'[g] = proc[g]

(* One handler is given new local variables. *)
LEMMA BecomesIntro ==
  ASSUME ProcOK, NEW h \in Handlers, NEW r \in Locals, proc' = [proc EXCEPT ![h] = r]
  PROVE  Becomes(h, r)
BY Zenon DEF ProcOK, Becomes

(* A request ends. *)
LEMMA EndEffect ==
  ASSUME ProcOK, NEW h \in Handlers, End(h)
  PROVE  Becomes(h, Idle)
BY IdleFields, BecomesIntro, Zenon DEF End

(* A handler goes to another step. *)
LEMMA GotoEffect ==
  ASSUME ProcOK, NEW h \in Handlers, NEW pc \in Steps, Goto(h, pc)
  PROVE  /\ Becomes(h, [proc[h] EXCEPT !.pc = pc])
         /\ proc'[h].pc = pc /\ proc'[h].tok = proc[h].tok /\ proc'[h].new = proc[h].new
         /\ proc'[h].seen = proc[h].seen /\ proc'[h].active = proc[h].active
         /\ proc'[h].barred = proc[h].barred
BY GotoLocals DEF Goto, ProcOK, Becomes

(* A request that has been let through goes on to revoke the session. *)
LEMMA RevokeNextEffect ==
  ASSUME ProcOK, NEW h \in Handlers, NEW pc \in Steps, RevokeNext(h, pc)
  PROVE  /\ Becomes(h, [Idle EXCEPT !.pc = pc])
         /\ proc'[h].pc = pc /\ proc'[h].tok = NoToken /\ proc'[h].new = NoToken
<1>1. [Idle EXCEPT !.pc = pc] \in Locals
  BY IdleFields, GotoLocals, Zenon
<1>2. [Idle EXCEPT !.pc = pc].pc = pc /\ [Idle EXCEPT !.pc = pc].tok = NoToken
      /\ [Idle EXCEPT !.pc = pc].new = NoToken
  BY IdleFields, GotoLocals, Zenon
<1>3. Becomes(h, [Idle EXCEPT !.pc = pc])
  BY <1>1, BecomesIntro, Zenon DEF RevokeNext
<1> QED
  BY <1>2, <1>3, Zenon DEF Becomes

(* An authenticated request begins. *)
LEMMA AuthenticateEffect ==
  ASSUME ProcOK, NEW h \in Handlers, NEW t \in Tokens, Authenticate(h, t)
  PROVE  /\ \E r : Becomes(h, r)
         /\ proc'[h].pc = "authJti" /\ proc'[h].tok = t /\ proc'[h].new = NoToken
         /\ proc'[h].active = (replica = "ACTIVE") /\ proc'[h].barred = (t \in loggedOut)
<1> DEFINE r == [Idle EXCEPT !.pc = "authJti", !.tok = t,
                             !.active = (replica = "ACTIVE"), !.barred = (t \in loggedOut)]
<1>1. /\ "authJti" \in Steps /\ t \in 0..MaxTokens
      /\ (replica = "ACTIVE") \in BOOLEAN /\ (t \in loggedOut) \in BOOLEAN
  BY Values DEF Steps, Presenting, Checking
<1>2. /\ r \in Locals /\ r.pc = "authJti" /\ r.tok = t /\ r.new = Idle.new
      /\ r.active = (replica = "ACTIVE") /\ r.barred = (t \in loggedOut)
  BY <1>1, IdleFields, Zenon DEF Locals
<1>3. Becomes(h, r)
  BY <1>2, BecomesIntro, Zenon DEF Authenticate
<1> QED
  BY <1>2, <1>3, IdleFields, Zenon DEF Becomes

(* A handler that goes on from local variables r to s creates no token and *)
(* takes none up: it keeps the tokens it has or drops them, and it does    *)
(* not enter the part of a login or of a refresh that needs them.          *)
Continues(r, s) ==
  /\ s.new \in {r.new, NoToken}
  /\ s.tok \in {r.tok, NoToken}
  /\ s.pc \in Creating => r.pc \in Creating /\ s.new = r.new
  /\ s.pc \in Presenting => r.pc \in Presenting /\ s.tok = r.tok
  /\ s.pc \in Sequential => r.pc \in Sequential
  /\ s.pc = "loginStore" => r.pc = "loginStore"

Advance == /\ proc' \in [Handlers -> Locals]
           /\ \A g \in Handlers : Continues(proc[g], proc'[g])

(* When nothing is created or taken up, every handler with a token to hand *)
(* out or to present still has it.                                         *)
LEMMA AdvanceKeepsProcOK ==
  ASSUME ProcOK, Advance
  PROVE  ProcOK'
BY Zenon DEF ProcOK, Advance, Continues

(* One handler goes on, the others do nothing. *)
LEMMA AdvanceIntro ==
  ASSUME ProcOK, NEW h \in Handlers, NEW r, Becomes(h, r), Continues(proc[h], r)
  PROVE  Advance
BY Zenon DEF Becomes, Advance, Continues

(* A request ends, whatever it was doing. *)
LEMMA EndAdvances ==
  ASSUME ProcOK, NEW h \in Handlers, End(h)
  PROVE  Advance
<1>1. Continues(proc[h], Idle)
  BY IdleFields, Zenon DEF Continues, Creating, Presenting, Refreshing, Checking, Sequential,
     Passed
<1> QED
  BY <1>1, EndEffect, AdvanceIntro, Zenon

(* A handler goes to a step that needs no token it does not have. *)
LEMMA GotoAdvances ==
  ASSUME ProcOK, NEW h \in Handlers, NEW pc \in Steps, Goto(h, pc),
         pc \in Creating => proc[h].pc \in Creating,
         pc \in Presenting => proc[h].pc \in Presenting,
         pc \in Sequential => proc[h].pc \in Sequential,
         pc # "loginStore"
  PROVE  Advance
<1> DEFINE r == [proc[h] EXCEPT !.pc = pc]
<1>1. Becomes(h, r)
  BY GotoEffect, Zenon
<1>2. r.pc = pc /\ r.tok = proc[h].tok /\ r.new = proc[h].new
  BY GotoLocals, Zenon DEF ProcOK
<1>3. Continues(proc[h], r)
  BY <1>2, Zenon DEF Continues
<1> QED
  BY <1>1, <1>3, AdvanceIntro, Zenon

(* A request goes on to revoke the session. *)
LEMMA RevokeNextAdvances ==
  ASSUME ProcOK, NEW h \in Handlers, NEW pc \in Revoking, RevokeNext(h, pc)
  PROVE  Advance
<1>1. /\ pc \in Steps
      /\ pc \notin Creating /\ pc \notin Presenting /\ pc \notin Sequential /\ pc # "loginStore"
  BY Zenon DEF Revoking, Steps, Creating, Presenting, Refreshing, Checking, Sequential, Passed
<1>2. /\ Becomes(h, proc'[h])
      /\ proc'[h].pc = pc /\ proc'[h].tok = NoToken /\ proc'[h].new = NoToken
  BY <1>1, RevokeNextEffect, Zenon DEF Becomes
<1>3. Continues(proc[h], proc'[h])
  BY <1>1, <1>2, Zenon DEF Continues
<1> QED
  BY <1>2, <1>3, AdvanceIntro, Zenon

(* Where the handlers can be. *)
LEMMA Places ==
  /\ {"refreshStatus", "refreshDb", "refreshFill", "refreshRotate", "seqGet", "seqSet"} \subseteq
       (Steps \cap Creating \cap Presenting)
  /\ {"loginStore", "loginCache"} \subseteq ((Steps \cap Creating) \ Presenting)
  /\ {"authJti", "authCache", "authDb", "authFill", "served"} \subseteq
       ((Steps \cap Presenting) \ Creating)
  /\ {"idle", "withdrawDb", "invalidate", "revokeEnd", "revokeWithdraw", "revokeInvalidate"}
       \subseteq ((Steps \ Creating) \ Presenting)
  /\ Revoking \subseteq ((Steps \ Creating) \ Presenting)
  /\ Sequential = {"seqGet", "seqSet"}
BY Zenon DEF Revoking, Steps, Creating, Presenting, Refreshing, Checking, Sequential, Passed

(* A handler goes on and notes what it has read. *)
LEMMA NoteAdvances ==
  ASSUME ProcOK, NEW h \in Handlers, NEW r \in Locals, proc' = [proc EXCEPT ![h] = r],
         r.tok = proc[h].tok, r.new = proc[h].new,
         \/ r.pc = "refreshFill" /\ At(h, "refreshDb")
         \/ r.pc = "authCache" /\ At(h, "authJti")
         \/ r.pc = "authDb" /\ At(h, "authCache")
         \/ r.pc = "authFill" /\ At(h, "authDb")
  PROVE  Advance /\ Becomes(h, r)
<1>1. Becomes(h, r)
  BY BecomesIntro, Zenon
<1>2. Continues(proc[h], r)
  BY Places, Zenon DEF Continues, At
<1> QED
  BY <1>1, <1>2, AdvanceIntro, Zenon

(* refresh_tokens reads the row. *)
LEMMA RefreshDbAdvances ==
  ASSUME TypeOK, NEW h \in Handlers, RefreshDb(h)
  PROVE  Advance /\ Becomes(h, proc'[h]) /\ proc'[h].pc \in {"idle", "refreshFill"}
<1>1. CASE status = "WITHDRAWN"
  <2>1. End(h)
    BY <1>1, Zenon DEF RefreshDb
  <2> QED
    BY <2>1, EndAdvances, EndEffect, IdleFields, Zenon DEF TypeOK, Becomes
<1>2. CASE status # "WITHDRAWN"
  <2> DEFINE r == [proc[h] EXCEPT !.pc = "refreshFill", !.seen = status]
  <2>1. status \in Live /\ "refreshFill" \in Steps
    BY <1>2, Values, Places, Zenon DEF TypeOK, RowOK
  <2>2. proc[h] \in Locals
    BY Zenon DEF TypeOK, ProcOK
  <2>3. r \in Locals /\ r.pc = "refreshFill" /\ r.tok = proc[h].tok /\ r.new = proc[h].new
    BY <2>1, <2>2, Zenon DEF Locals
  <2>4. proc' = [proc EXCEPT ![h] = r]
    BY <1>2, Zenon DEF RefreshDb
  <2> QED
    BY <2>3, <2>4, NoteAdvances, Zenon DEF RefreshDb, TypeOK, Becomes
<1> QED
  BY <1>1, <1>2, Zenon

(* The look-up of the jti fails open. *)
LEMMA AuthJtiFailsEffect ==
  ASSUME TypeOK, NEW h \in Handlers, AuthJtiFails(h)
  PROVE  /\ Advance /\ Becomes(h, proc'[h])
         /\ proc'[h].pc = "authCache" /\ proc'[h].tok = proc[h].tok
         /\ proc'[h].active = proc[h].active /\ proc'[h].barred = FALSE
<1> DEFINE r == [proc[h] EXCEPT !.pc = "authCache", !.barred = FALSE]
<1>1. proc[h] \in Locals /\ "authCache" \in Steps
  BY Places, Zenon DEF TypeOK, ProcOK
<1>2. /\ r \in Locals /\ r.pc = "authCache" /\ r.tok = proc[h].tok /\ r.new = proc[h].new
      /\ r.active = proc[h].active /\ r.barred = FALSE
  BY <1>1, Zenon DEF Locals
<1>3. proc' = [proc EXCEPT ![h] = r]
  BY Zenon DEF AuthJtiFails
<1>4. Advance /\ Becomes(h, r)
  BY <1>2, <1>3, NoteAdvances, Zenon DEF AuthJtiFails, TypeOK
<1> QED
  BY <1>2, <1>4, Zenon DEF Becomes

(* get_current_user goes on to read the row, whether the status cache had  *)
(* an entry or not.                                                        *)
LEMMA MissEffect ==
  ASSUME TypeOK, NEW h \in Handlers, NEW m \in BOOLEAN, At(h, "authCache"),
         proc' = [proc EXCEPT ![h].pc = "authDb", ![h].miss = m]
  PROVE  /\ Advance /\ Becomes(h, proc'[h])
         /\ proc'[h].pc = "authDb" /\ proc'[h].tok = proc[h].tok
         /\ proc'[h].active = proc[h].active /\ proc'[h].barred = proc[h].barred
<1> DEFINE r == [proc[h] EXCEPT !.pc = "authDb", !.miss = m]
<1>1. proc[h] \in Locals /\ "authDb" \in Steps
  BY Places, Zenon DEF TypeOK, ProcOK
<1>2. /\ r \in Locals /\ r.pc = "authDb" /\ r.tok = proc[h].tok /\ r.new = proc[h].new
      /\ r.active = proc[h].active /\ r.barred = proc[h].barred
  BY <1>1, Zenon DEF Locals
<1>3. proc' = [proc EXCEPT ![h] = r]
  BY Zenon
<1>4. Advance /\ Becomes(h, r)
  BY <1>2, <1>3, NoteAdvances, Zenon DEF TypeOK
<1> QED
  BY <1>2, <1>4, Zenon DEF Becomes

(* get_current_user has read the row and fills the status cache first. *)
LEMMA SeenEffect ==
  ASSUME TypeOK, NEW h \in Handlers, NEW s \in Live, At(h, "authDb"),
         proc' = [proc EXCEPT ![h].pc = "authFill", ![h].seen = s]
  PROVE  /\ Advance /\ Becomes(h, proc'[h])
         /\ proc'[h].pc = "authFill" /\ proc'[h].tok = proc[h].tok /\ proc'[h].seen = s
         /\ proc'[h].active = proc[h].active /\ proc'[h].barred = proc[h].barred
<1> DEFINE r == [proc[h] EXCEPT !.pc = "authFill", !.seen = s]
<1>1. proc[h] \in Locals /\ "authFill" \in Steps
  BY Places, Zenon DEF TypeOK, ProcOK
<1>2. /\ r \in Locals /\ r.pc = "authFill" /\ r.tok = proc[h].tok /\ r.new = proc[h].new
      /\ r.seen = s /\ r.active = proc[h].active /\ r.barred = proc[h].barred
  BY <1>1, Zenon DEF Locals
<1>3. proc' = [proc EXCEPT ![h] = r]
  BY Zenon
<1>4. Advance /\ Becomes(h, r)
  BY <1>2, <1>3, NoteAdvances, Zenon DEF TypeOK
<1> QED
  BY <1>2, <1>4, Zenon DEF Becomes

(* The replica applies a change: the requests in flight note it. *)
LEMMA ReplicateEffect ==
  ASSUME TypeOK, Replicate
  PROVE  /\ Advance
         /\ replica' \in Statuses /\ wal' \in Seq(Statuses)
         /\ \A h \in Handlers :
              /\ proc'[h].pc = proc[h].pc /\ proc'[h].tok = proc[h].tok
              /\ proc'[h].seen = proc[h].seen /\ proc'[h].barred = proc[h].barred
              /\ proc'[h].active = (proc[h].active \/ (proc[h].tok # NoToken /\ replica' = "ACTIVE"))
<1>1. replica' \in Statuses /\ wal' \in Seq(Statuses)
  BY DEF Replicate, TypeOK, RowOK
<1>2. ASSUME NEW h \in Handlers
      PROVE  /\ proc'[h] \in Locals
             /\ proc'[h].pc = proc[h].pc /\ proc'[h].tok = proc[h].tok
             /\ proc'[h].new = proc[h].new
             /\ proc'[h].seen = proc[h].seen /\ proc'[h].barred = proc[h].barred
             /\ proc'[h].active = (proc[h].active \/ (proc[h].tok # NoToken /\ replica' = "ACTIVE"))
  <2>1. proc[h] \in Locals
    BY Zenon DEF TypeOK, ProcOK
  <2>2. proc'[h] = [proc[h] EXCEPT !.active =
                       @ \/ (proc[h].tok # NoToken /\ replica' = "ACTIVE")]
    BY Zenon DEF Replicate
  <2> QED
    BY <2>1, <2>2, Zenon DEF Locals
<1>3. proc' \in [Handlers -> Locals]
  BY <1>2, Zenon DEF Replicate
<1>4. Advance
  BY <1>2, <1>3, Zenon DEF Advance, Continues
<1> QED
  BY <1>1, <1>2, <1>4, Zenon

----------------------------------------------------------------------------
(* Steps that only let go of tokens.                                        *)

Quiet ==
  /\ Advance
  /\ UNCHANGED <<issued, last, uses, evalFaults>>
  /\ UNCHANGED stored \/ RevokeRefresh

(* The steps of a handler that neither create, store nor hand out a token. *)
QuietStep(h) ==
  \/ SuspendUser(h) \/ ActivateUser(h)
  \/ RefreshStatus(h) \/ RefreshDb(h) \/ RefreshFill(h) \/ SeqGet(h)
  \/ AuthJti(h) \/ AuthCache(h) \/ AuthDb(h) \/ AuthFill(h)
  \/ Read(h) \/ LogoutBlacklist(h) \/ LogoutExpired(h) \/ UpdatePassword(h)
  \/ DeleteMe(h) \/ DeleteUser(h) \/ Revoke(h) \/ Invalidate(h)
  \/ RefreshStatusFails(h) \/ AuthJtiFails(h) \/ AuthCacheFails(h) \/ Crash(h)
  \/ \E lost \in BOOLEAN : LogoutBlacklistFails(h, lost) \/ RevokeFails(h, lost)

(* They let go of tokens at most. *)
LEMMA QuietStepIsQuiet ==
  ASSUME TypeOK, NEW h \in Handlers, QuietStep(h)
  PROVE  Quiet
<1> USE DEF At
<1>0. ProcOK
  BY Zenon DEF TypeOK
<1>1. CASE SuspendUser(h) \/ ActivateUser(h)
  BY <1>0, <1>1, GotoAdvances, Places, Zenon DEF SuspendUser, ActivateUser, Quiet, noted
<1>2. CASE RefreshStatus(h)
  BY <1>0, <1>2, GotoAdvances, EndAdvances, Places, Zenon DEF RefreshStatus, Quiet, noted
<1>3. CASE RefreshDb(h)
  BY <1>3, RefreshDbAdvances, Zenon DEF RefreshDb, Quiet, noted
<1>4. CASE RefreshFill(h)
  BY <1>0, <1>4, GotoAdvances, EndAdvances, Places, Zenon
     DEF RefreshFill, CacheBestEffort, RedisRaises, Quiet, noted
<1>5. CASE SeqGet(h)
  BY <1>0, <1>5, GotoAdvances, EndAdvances, Places, Zenon DEF SeqGet, Quiet, noted
<1>6. CASE AuthJti(h)
  BY <1>0, <1>6, GotoAdvances, EndAdvances, Places, Zenon DEF AuthJti, Quiet, noted
<1>7. CASE AuthCache(h)
  BY <1>0, <1>7, EndAdvances, MissEffect, Zenon DEF AuthCache, Quiet, noted
<1>8. CASE AuthDb(h)
  <2>1. Advance
    BY <1>0, <1>8, GotoAdvances, EndAdvances, SeenEffect, Places, Values, Zenon
       DEF AuthDb, TypeOK, RowOK
  <2> QED
    BY <1>8, <2>1, Zenon DEF AuthDb, Quiet, noted
<1>9. CASE AuthFill(h)
  BY <1>0, <1>9, GotoAdvances, EndAdvances, Places, Zenon
     DEF AuthFill, CacheBestEffort, RedisRaises, Quiet, noted
<1>10. CASE Read(h) \/ LogoutExpired(h)
  BY <1>0, <1>10, EndAdvances, Zenon DEF Read, LogoutExpired, Quiet, noted
<1>11. CASE LogoutBlacklist(h)
  BY <1>0, <1>11, RevokeNextAdvances, Zenon DEF LogoutBlacklist, Revoking, Quiet, noted
<1>12. CASE UpdatePassword(h)
  BY <1>0, <1>12, RevokeNextAdvances, EndAdvances, Zenon
     DEF UpdatePassword, Revoking, Quiet, noted
<1>13. CASE DeleteMe(h)
  BY <1>0, <1>13, RevokeNextAdvances, Zenon DEF DeleteMe, Revoking, Quiet, noted
<1>14. CASE DeleteUser(h)
  BY <1>0, <1>14, GotoAdvances, EndAdvances, Places, Zenon DEF DeleteUser, Quiet, noted
<1>15. CASE Revoke(h)
  BY <1>0, <1>15, GotoAdvances, EndAdvances, Places, Zenon
     DEF Revoke, AfterRevoke, Revoking, Quiet, noted
<1>16. CASE Invalidate(h)
  BY <1>0, <1>16, EndAdvances, Zenon DEF Invalidate, CacheBestEffort, RedisRaises, Quiet, noted
<1>17. CASE RefreshStatusFails(h)
  BY <1>0, <1>17, GotoAdvances, Places, Zenon DEF RefreshStatusFails, RedisRaises, Quiet
<1>18. CASE AuthJtiFails(h)
  BY <1>18, AuthJtiFailsEffect, Zenon DEF AuthJtiFails, RedisRaises, Quiet
<1>19. CASE AuthCacheFails(h)
  BY <1>19, MissEffect, Zenon DEF AuthCacheFails, RedisRaises, Quiet
<1>20. CASE Crash(h)
  BY <1>0, <1>20, EndAdvances, Zenon DEF Crash, Quiet
<1>21. ASSUME NEW lost \in BOOLEAN, LogoutBlacklistFails(h, lost) PROVE Quiet
  BY <1>0, <1>21, EndAdvances, Zenon DEF LogoutBlacklistFails, RedisRaises, Quiet
<1>22. ASSUME NEW lost \in BOOLEAN, RevokeFails(h, lost) PROVE Quiet
  BY <1>0, <1>22, EndAdvances, Zenon DEF RevokeFails, RedisRaises, Quiet
<1> QED
  BY <1>1, <1>2, <1>3, <1>4, <1>5, <1>6, <1>7, <1>8, <1>9, <1>10, <1>11, <1>12, <1>13,
     <1>14, <1>15, <1>16, <1>17, <1>18, <1>19, <1>20, <1>21, <1>22, Zenon DEF QuietStep

(* The environment lets go of tokens at most. *)
LEMMA EnvironmentIsQuiet ==
  ASSUME TypeOK, \/ Replicate \/ CacheExpires \/ RefreshExpires \/ UNCHANGED vars
                 \/ \E t \in Tokens : LastSecond(t) \/ KeyExpires(t)
  PROVE  Quiet
<1>1. CASE Replicate
  BY <1>1, ReplicateEffect, Zenon DEF Replicate, Quiet, noted
<1>2. ASSUME proc' = proc PROVE Advance
  BY <1>2, Zenon DEF TypeOK, ProcOK, Advance, Continues
<1>3. CASE CacheExpires \/ RefreshExpires
  BY <1>2, <1>3, Zenon DEF CacheExpires, RefreshExpires, Quiet, noted
<1>4. CASE UNCHANGED vars
  BY <1>2, <1>4, Zenon DEF vars, Quiet, noted
<1>5. ASSUME NEW t \in Tokens, LastSecond(t) \/ KeyExpires(t) PROVE Quiet
  BY <1>2, <1>5, Zenon DEF LastSecond, KeyExpires, Quiet, noted
<1> QED
  BY <1>1, <1>3, <1>4, <1>5, Zenon

(* The steps that create, store or hand out a token. *)
TokenStep(h) ==
  \/ Login(h) \/ LoginStore(h) \/ LoginCache(h)
  \/ RefreshRotate(h) \/ SeqSet(h)
  \/ \E t \in Tokens : Refresh(h, t) \/ Authenticate(h, t)
  \/ \E lost \in BOOLEAN : \/ LoginStoreFails(h, lost) \/ RefreshRotateFails(h, lost)
                           \/ SeqFails(h, lost)

(* There are no other steps. *)
LEMMA NextCases ==
  ASSUME TypeOK, [Next]_vars
  PROVE  Quiet \/ \E h \in Handlers : TokenStep(h)
<1>1. ASSUME NEW h \in Handlers, Begin(h) PROVE QuietStep(h) \/ TokenStep(h)
  BY <1>1, Zenon DEF Begin, QuietStep, TokenStep
<1>2. ASSUME NEW h \in Handlers, Step(h) PROVE QuietStep(h) \/ TokenStep(h)
  BY <1>2, Zenon DEF Step, QuietStep, TokenStep
<1>3. ASSUME NEW h \in Handlers, StepFails(h) PROVE QuietStep(h) \/ TokenStep(h)
  BY <1>3, Zenon DEF StepFails, QuietStep, TokenStep
<1> QED
  BY <1>1, <1>2, <1>3, QuietStepIsQuiet, EnvironmentIsQuiet, Zenon DEF Next

----------------------------------------------------------------------------
(* The other steps, and types.                                              *)

(* login creates a token. *)
LEMMA LoginEffect ==
  ASSUME TypeOK, NEW h \in Handlers, Login(h)
  PROVE  /\ Becomes(h, proc'[h])
         /\ proc'[h].pc = "loginStore" /\ proc'[h].tok = NoToken /\ proc'[h].new = last + 1
         /\ last' = last + 1 /\ last' \in Tokens
<1>1. last' = last + 1 /\ last' \in Tokens
  BY SessionAssumption DEF Login, TypeOK, TokensOK, Tokens
<1> DEFINE r == [Idle EXCEPT !.pc = "loginStore", !.new = last + 1]
<1>2. "loginStore" \in Steps /\ last + 1 \in 0..MaxTokens
  BY <1>1, Places, Values, Zenon
<1>3. r \in Locals /\ r.pc = "loginStore" /\ r.tok = Idle.tok /\ r.new = last + 1
  BY <1>2, IdleFields, Zenon DEF Locals
<1>4. Becomes(h, r)
  BY <1>3, BecomesIntro, Zenon DEF Login, TypeOK
<1> QED
  BY <1>1, <1>3, <1>4, IdleFields, Zenon DEF Becomes

(* refresh_tokens creates a token. *)
LEMMA RefreshEffect ==
  ASSUME TypeOK, NEW h \in Handlers, NEW t \in Tokens, Refresh(h, t)
  PROVE  /\ Becomes(h, proc'[h])
         /\ proc'[h].pc = "refreshStatus" /\ proc'[h].tok = t /\ proc'[h].new = last + 1
         /\ last' = last + 1 /\ last' \in Tokens
<1>1. last' = last + 1 /\ last' \in Tokens
  BY SessionAssumption DEF Refresh, TypeOK, TokensOK, Tokens
<1> DEFINE r == [Idle EXCEPT !.pc = "refreshStatus", !.tok = t, !.new = last + 1]
<1>2. "refreshStatus" \in Steps /\ t \in 0..MaxTokens /\ last + 1 \in 0..MaxTokens
  BY <1>1, Places, Values, Zenon
<1>3. r \in Locals /\ r.pc = "refreshStatus" /\ r.tok = t /\ r.new = last + 1
  BY <1>2, IdleFields, Zenon DEF Locals
<1>4. Becomes(h, r)
  BY <1>3, BecomesIntro, Zenon DEF Refresh, TypeOK
<1> QED
  BY <1>1, <1>3, <1>4, Zenon DEF Becomes

(* The script fails. *)
LEMMA RotateFailsEffect ==
  ASSUME TypeOK, NEW h \in Handlers, NEW lost \in BOOLEAN, RefreshRotateFails(h, lost)
  PROVE  /\ Becomes(h, proc'[h])
         /\ proc'[h].pc = "seqGet" /\ proc'[h].tok = proc[h].tok /\ proc'[h].new = proc[h].new
<1>1. Goto(h, "seqGet") /\ "seqGet" \in Steps
  BY Places, Zenon DEF RefreshRotateFails
<1> QED
  BY <1>1, GotoEffect, Zenon DEF TypeOK, Becomes

(* Where login and refresh_tokens end, the tokens are let go of. *)
LEMMA TokenStepAdvances ==
  ASSUME TypeOK, NEW h \in Handlers,
         \/ LoginStore(h) \/ LoginCache(h) \/ RefreshRotate(h) \/ SeqSet(h)
         \/ \E lost \in BOOLEAN : LoginStoreFails(h, lost) \/ SeqFails(h, lost)
  PROVE  Advance
<1>1. CASE LoginStore(h)
  BY <1>1, GotoAdvances, Places, Zenon DEF LoginStore, TypeOK, At
<1> QED
  BY <1>1, EndAdvances, Zenon DEF LoginCache, RefreshRotate, SeqSet, LoginStoreFails,
     SeqFails, TypeOK

(* The types of the local variables, and the tokens of each step. *)
LEMMA LocalFacts ==
  ASSUME ProcOK, NEW h \in Handlers
  PROVE  /\ proc[h] \in Locals /\ proc[h].seen \in Live
         /\ proc[h].pc \in Creating => proc[h].new \in Tokens
         /\ proc[h].pc \in Presenting => proc[h].tok \in Tokens
<1>1. proc[h] \in Locals
  BY Zenon DEF ProcOK
<1>2. /\ proc[h].seen \in Live
      /\ proc[h].new \in 0..MaxTokens /\ proc[h].tok \in 0..MaxTokens
  BY <1>1, Zenon DEF Locals
<1> QED
  BY <1>1, <1>2, Values, Zenon DEF ProcOK

(* Each step preserves the handlers' types. *)
LEMMA ProcOKStep ==
  ASSUME TypeOK, [Next]_vars
  PROVE  ProcOK'
<1>0. ProcOK
  BY Zenon DEF TypeOK
<1>1. CASE Quiet
  BY <1>0, <1>1, AdvanceKeepsProcOK, Zenon DEF Quiet
<1>2. ASSUME NEW h \in Handlers, NEW t \in 0..MaxTokens, NEW n \in 0..MaxTokens,
             Becomes(h, proc'[h]), proc'[h].tok = t, proc'[h].new = n,
             proc'[h].pc \in Creating => n # NoToken,
             proc'[h].pc \in Presenting => t # NoToken
      PROVE  ProcOK'
  BY <1>0, <1>2, Zenon DEF ProcOK, Becomes
<1>3. ASSUME NEW h \in Handlers, TokenStep(h) PROVE ProcOK'
  <2>1. CASE Login(h)
    <3>1. /\ Becomes(h, proc'[h]) /\ proc'[h].pc \notin Presenting
          /\ proc'[h].tok = NoToken /\ proc'[h].new \in Tokens
      BY <2>1, LoginEffect, Zenon DEF Presenting, Refreshing, Sequential, Checking, Passed
    <3> QED
      BY <1>2, <3>1, Values, Zenon
  <2>2. ASSUME NEW t \in Tokens, Refresh(h, t) PROVE ProcOK'
    BY <1>2, <2>2, RefreshEffect, Values
  <2>3. ASSUME NEW t \in Tokens, Authenticate(h, t) PROVE ProcOK'
    <3>1. /\ Becomes(h, proc'[h])
          /\ proc'[h].pc = "authJti" /\ proc'[h].tok = t /\ proc'[h].new = NoToken
      BY <1>0, <2>3, AuthenticateEffect, Zenon DEF Becomes
    <3> QED
      BY <1>2, <3>1, Places, Values, Zenon
  <2>4. ASSUME NEW lost \in BOOLEAN, RefreshRotateFails(h, lost) PROVE ProcOK'
    <3>1. proc[h].tok \in Tokens /\ proc[h].new \in Tokens
      BY <1>0, <2>4, LocalFacts, Places, Zenon DEF RefreshRotateFails, At
    <3> QED
      BY <1>2, <2>4, <3>1, RotateFailsEffect, Values, Zenon
  <2> QED
    BY <1>0, <1>3, <2>1, <2>2, <2>3, <2>4, TokenStepAdvances, AdvanceKeepsProcOK, Zenon
       DEF TokenStep
<1> QED
  BY <1>1, <1>3, NextCases, Zenon

(* The family in user_refresh is one of a login. *)
LEMMA StoredType ==
  ASSUME StoredOK
  PROVE  Stored \subseteq Tokens
BY Values, Zenon DEF StoredOK, Stored

(* SET of user_refresh keeps the types. *)
LEMMA StoreTokenType ==
  ASSUME StoredOK, NEW t \in Tokens, NEW f \in Tokens, StoreToken(t, f)
  PROVE  StoredOK'
BY StoredType, Values, Zenon DEF StoredOK, StoreToken

(* So does DEL. *)
LEMMA RevokeType ==
  ASSUME StoredOK, RevokeRefresh
  PROVE  StoredOK'
BY StoredType, Values, Zenon DEF StoredOK, RevokeRefresh

(* A rotation keeps the types. *)
LEMMA RotateType ==
  ASSUME TypeOK, NEW h \in Handlers, proc[h].pc \in Refreshing, Rotate(h)
  PROVE  StoredOK' /\ uses' \in [Tokens -> Nat]
<1>1. proc[h].tok \in Tokens /\ proc[h].new \in Tokens
  BY LocalFacts, Zenon DEF TypeOK, Creating, Presenting
<1>2. family[proc[h].tok] \in Tokens
  BY <1>1, Zenon DEF TypeOK, StoredOK
<1>3. StoredOK'
  BY <1>1, <1>2, StoreTokenType, Zenon DEF TypeOK, Rotate
<1> QED
  BY <1>1, <1>3 DEF TypeOK, TokensOK, Rotate

(* A fault is counted. *)
LEMMA FaultType ==
  ASSUME RowOK, NEW kind, Fault(kind)
  PROVE  faults' \in 0..MaxFaults
BY SessionAssumption DEF RowOK, Fault

(* The status cache is written with a status or emptied. *)
LEMMA CacheType ==
  ASSUME RowOK, NEW v \in Live \cup {None}, CacheBestEffort(v)
  PROVE  cache' \in Live \cup {None} /\ faults' \in 0..MaxFaults /\ evalFaults' = evalFaults
BY FaultType, Zenon DEF RowOK, CacheBestEffort, RedisRaises, noted

(* A commit keeps the row's types. *)
LEMMA CommitType ==
  ASSUME RowOK, NEW s \in Statuses, CommitStatus(s)
  PROVE  status' \in Statuses /\ replica' \in Statuses /\ wal' \in Seq(Statuses)
BY DEF RowOK, CommitStatus

(* Each step preserves the types of the row, the cache and the counters. *)
LEMMA RowOKStep ==
  ASSUME TypeOK, [Next]_vars
  PROVE  RowOK'
<1>0. RowOK /\ ProcOK /\ "ACTIVE" \in Live /\ "SUSPENDED" \in Live /\ Statuses = Live \cup {"WITHDRAWN"}
  BY Values, Zenon DEF TypeOK
<1> USE DEF RowOK, account, noted
<1>1. ASSUME NEW h \in Handlers, Begin(h) PROVE RowOK'
  <2>1. CASE Login(h)
    BY <1>0, <2>1, Zenon DEF Login
  <2>2. ASSUME NEW t \in Tokens, Refresh(h, t) PROVE RowOK'
    BY <1>0, <2>2, Zenon DEF Refresh
  <2>3. ASSUME NEW t \in Tokens, Authenticate(h, t) PROVE RowOK'
    BY <1>0, <2>3, Zenon DEF Authenticate
  <2>4. CASE SuspendUser(h)
    BY <1>0, <2>4, CommitType, SessionAssumption DEF SuspendUser
  <2>5. CASE ActivateUser(h)
    BY <1>0, <2>5, CommitType, SessionAssumption DEF ActivateUser
  <2> QED
    BY <1>1, <2>1, <2>2, <2>3, <2>4, <2>5, Zenon DEF Begin
<1>2. ASSUME NEW h \in Handlers, Step(h) PROVE RowOK'
  <2>1. CASE LoginStore(h)
    BY <1>0, <2>1, Zenon DEF LoginStore
  <2>2. CASE LoginCache(h)
    BY <1>0, <2>2, CacheType, LocalFacts, Zenon DEF LoginCache
  <2>3. CASE RefreshStatus(h)
    BY <1>0, <2>3, Zenon DEF RefreshStatus
  <2>4. CASE RefreshDb(h)
    BY <1>0, <2>4, Zenon DEF RefreshDb
  <2>5. CASE RefreshFill(h)
    BY <1>0, <2>5, CacheType, LocalFacts, Zenon DEF RefreshFill
  <2>6. CASE RefreshRotate(h)
    BY <1>0, <2>6, Zenon DEF RefreshRotate
  <2>7. CASE SeqGet(h)
    BY <1>0, <2>7, Zenon DEF SeqGet
  <2>8. CASE SeqSet(h)
    BY <1>0, <2>8, Zenon DEF SeqSet
  <2>9. CASE AuthJti(h)
    BY <1>0, <2>9, Zenon DEF AuthJti
  <2>10. CASE AuthCache(h)
    BY <1>0, <2>10, Zenon DEF AuthCache
  <2>11. CASE AuthDb(h)
    BY <1>0, <2>11, Zenon DEF AuthDb
  <2>12. CASE AuthFill(h)
    BY <1>0, <2>12, CacheType, LocalFacts, Zenon DEF AuthFill
  <2>13. CASE Read(h) \/ LogoutExpired(h)
    BY <1>0, <2>13, Zenon DEF Read, LogoutExpired
  <2>14. CASE LogoutBlacklist(h)
    BY <1>0, <2>14, Zenon DEF LogoutBlacklist
  <2>15. CASE UpdatePassword(h)
    BY <1>0, <2>15, Zenon DEF UpdatePassword
  <2>16. CASE DeleteMe(h)
    BY <1>0, <2>16, Zenon DEF DeleteMe
  <2>17. CASE DeleteUser(h)
    BY <1>0, <2>17, CommitType, Zenon DEF DeleteUser
  <2>18. CASE Revoke(h)
    BY <1>0, <2>18, Zenon DEF Revoke
  <2>19. CASE Invalidate(h)
    BY <1>0, <2>19, CacheType, LocalFacts, Zenon DEF Invalidate
  <2> QED
    BY <1>2, <2>1, <2>2, <2>3, <2>4, <2>5, <2>6, <2>7, <2>8, <2>9, <2>10, <2>11, <2>12,
       <2>13, <2>14, <2>15, <2>16, <2>17, <2>18, <2>19, Zenon
       DEF Step
<1>3. ASSUME NEW h \in Handlers, StepFails(h) PROVE RowOK'
  <2>1. CASE RefreshStatusFails(h)
    BY <1>0, <2>1, FaultType, Zenon DEF RefreshStatusFails, RedisRaises
  <2>2. CASE AuthJtiFails(h)
    BY <1>0, <2>2, FaultType, Zenon DEF AuthJtiFails, RedisRaises
  <2>3. CASE AuthCacheFails(h)
    BY <1>0, <2>3, FaultType, Zenon DEF AuthCacheFails, RedisRaises
  <2>4. ASSUME NEW lost \in BOOLEAN, LoginStoreFails(h, lost) PROVE RowOK'
    BY <1>0, <2>4, FaultType, Zenon DEF LoginStoreFails, RedisRaises
  <2>5. ASSUME NEW lost \in BOOLEAN, RefreshRotateFails(h, lost) PROVE RowOK'
    BY <1>0, <2>5, FaultType DEF RefreshRotateFails
  <2>6. ASSUME NEW lost \in BOOLEAN, SeqFails(h, lost) PROVE RowOK'
    BY <1>0, <2>6, FaultType, Zenon DEF SeqFails, RedisRaises
  <2>7. ASSUME NEW lost \in BOOLEAN, LogoutBlacklistFails(h, lost) PROVE RowOK'
    BY <1>0, <2>7, FaultType, Zenon DEF LogoutBlacklistFails, RedisRaises
  <2>8. ASSUME NEW lost \in BOOLEAN, RevokeFails(h, lost) PROVE RowOK'
    BY <1>0, <2>8, FaultType, Zenon DEF RevokeFails, RedisRaises
  <2>9. CASE Crash(h)
    BY <1>0, <2>9, FaultType, Zenon DEF Crash
  <2> QED
    BY <1>3, <2>1, <2>2, <2>3, <2>4, <2>5, <2>6, <2>7, <2>8, <2>9, Zenon DEF StepFails
<1>4. CASE Replicate
  BY <1>0, <1>4, ReplicateEffect, Zenon DEF Replicate, TypeOK
<1>5. CASE CacheExpires
  BY <1>0, <1>5, Zenon DEF CacheExpires
<1>6. CASE RefreshExpires
  BY <1>0, <1>6, Zenon DEF RefreshExpires
<1>7. CASE UNCHANGED vars
  BY <1>0, <1>7, Zenon DEF vars
<1>8. ASSUME NEW t \in Tokens, LastSecond(t) \/ KeyExpires(t) PROVE RowOK'
  BY <1>0, <1>8, Zenon DEF LastSecond, KeyExpires
<1> QED
  BY <1>1, <1>2, <1>3, <1>4, <1>5, <1>6, <1>7, <1>8, Zenon DEF Next

(* Each step preserves the types of user_refresh and of the tokens. *)
LEMMA TokensOKStep ==
  ASSUME TypeOK, [Next]_vars
  PROVE  StoredOK' /\ TokensOK'
<1>0. StoredOK /\ TokensOK /\ ProcOK
  BY Zenon DEF TypeOK
<1> DEFINE Goal == StoredOK' /\ TokensOK'
<1>1. CASE Quiet
  BY <1>0, <1>1, RevokeType, Zenon DEF Quiet, StoredOK, TokensOK, stored
<1>2. ASSUME NEW h \in Handlers, TokenStep(h) PROVE Goal
  <2>1. proc[h].pc \in Creating => proc[h].new \in Tokens
    BY <1>0, LocalFacts, Zenon
  <2>2. CASE Login(h) \/ \E t \in Tokens : Refresh(h, t)
    BY <1>0, <2>2, LoginEffect, RefreshEffect, Values, Zenon
       DEF Login, Refresh, StoredOK, TokensOK, stored
  <2>3. ASSUME NEW t \in Tokens, Authenticate(h, t) PROVE Goal
    BY <1>0, <2>3, Zenon DEF Authenticate, StoredOK, TokensOK, stored
  <2>4. CASE LoginStore(h)
    BY <1>0, <2>1, <2>4, StoreTokenType, Places, Zenon DEF LoginStore, At, TokensOK
  <2>5. ASSUME NEW lost \in BOOLEAN, LoginStoreFails(h, lost) PROVE Goal
    BY <1>0, <2>1, <2>5, StoreTokenType, Places, Zenon
       DEF LoginStoreFails, At, TokensOK, StoredOK, stored
  <2>6. CASE LoginCache(h)
    BY <1>0, <2>1, <2>6, Places, Zenon DEF LoginCache, At, TokensOK, StoredOK, stored
  <2>7. CASE RefreshRotate(h)
    BY <1>0, <2>1, <2>7, RotateType, Places, Zenon
       DEF RefreshRotate, At, Refreshing, TokensOK, StoredOK, stored
  <2>8. CASE SeqSet(h)
    BY <1>0, <2>1, <2>8, RotateType, Places, Zenon
       DEF SeqSet, At, Refreshing, Sequential, TokensOK
  <2>9. ASSUME NEW lost \in BOOLEAN, RefreshRotateFails(h, lost) PROVE Goal
    BY <1>0, <2>9, RotateType, Zenon DEF RefreshRotateFails, At, Refreshing, TokensOK,
       StoredOK, stored
  <2>10. ASSUME NEW lost \in BOOLEAN, SeqFails(h, lost) PROVE Goal
    BY <1>0, <2>10, RotateType, Zenon DEF SeqFails, At, Refreshing, Sequential, TokensOK,
       StoredOK, stored
  <2> QED
    BY <1>2, <2>2, <2>3, <2>4, <2>5, <2>6, <2>7, <2>8, <2>9, <2>10, Zenon DEF TokenStep
<1> QED
  BY <1>1, <1>2, NextCases, Zenon

(* TypeOK is inductive. *)
LEMMA TypeStep ==
  ASSUME TypeOK, [Next]_vars
  PROVE  TypeOK'
BY RowOKStep, TokensOKStep, ProcOKStep, Zenon DEF TypeOK

----------------------------------------------------------------------------
(* Tokens are new.                                                          *)

(* A token that a handler has created and not handed out is held by no     *)
(* client and by no other handler; a token that is presented was handed    *)
(* out.                                                                    *)
Fresh ==
  /\ \A t \in issued : t <= last
  /\ \A h \in Handlers :
       /\ proc[h].new <= last
       /\ proc[h].new \notin issued
       /\ proc[h].tok # NoToken => proc[h].tok \in issued
       /\ \A g \in Handlers \ {h} : proc[h].new # NoToken => proc[g].new # proc[h].new

(* Letting go of tokens keeps them apart. *)
LEMMA FreshQuiet ==
  ASSUME TypeOK, Fresh, Advance, UNCHANGED <<issued, last>>
  PROVE  Fresh'
<1>1. NoToken \notin issued /\ NoToken <= last
  BY Values DEF TypeOK, TokensOK, NoToken
<1> QED
  BY <1>1 DEF Fresh, Advance, Continues

(* A handler that hands its token out ends. *)
LEMMA FreshIssue ==
  ASSUME TypeOK, Fresh, NEW h \in Handlers, proc[h].pc \in Creating,
         End(h), issued' = issued \cup {proc[h].new}, last' = last
  PROVE  Fresh'
<1>1. /\ proc'[h].new = NoToken /\ proc'[h].tok = NoToken
      /\ \A g \in Handlers \ {h} : proc'[g] = proc[g]
  BY EndEffect, IdleFields, Zenon DEF TypeOK, Becomes
<1>2. NoToken \notin issued' /\ NoToken <= last /\ proc[h].new \in Tokens
  BY LocalFacts, Values DEF TypeOK, TokensOK, NoToken
<1> QED
  BY <1>1, <1>2 DEF Fresh

(* A handler that creates a token takes one that was never used. *)
LEMMA FreshCreate ==
  ASSUME TypeOK, Fresh, NEW h \in Handlers, Becomes(h, proc'[h]),
         proc'[h].new = last + 1, proc'[h].tok # NoToken => proc'[h].tok \in issued,
         last' = last + 1, issued' = issued
  PROVE  Fresh'
<1>1. last \in Nat /\ NoToken = 0 /\ issued \subseteq Nat
  BY SessionAssumption DEF TypeOK, TokensOK, NoToken, Tokens
<1>2. \A g \in Handlers : proc[g].new \in Nat
  BY LocalFacts, SessionAssumption DEF TypeOK, Locals
<1>3. \A g \in Handlers \ {h} : proc'[g] = proc[g]
  BY Zenon DEF Becomes
<1>4. \A t \in issued' : t <= last'
  BY <1>1 DEF Fresh
<1>5. ASSUME NEW g \in Handlers \ {h}
      PROVE  /\ proc'[g].new <= last' /\ proc'[g].new # proc'[h].new
             /\ proc'[g].new \notin issued'
             /\ proc'[g].tok # NoToken => proc'[g].tok \in issued'
  BY <1>1, <1>2, <1>3 DEF Fresh
<1>6. proc'[h].new <= last' /\ proc'[h].new \notin issued'
  BY <1>1 DEF Fresh
<1> QED
  BY <1>3, <1>4, <1>5, <1>6 DEF Fresh

(* Fresh is inductive. *)
LEMMA FreshStep ==
  ASSUME TypeOK, Fresh, [Next]_vars
  PROVE  Fresh'
<1>1. CASE Quiet
  BY <1>1, FreshQuiet, Zenon DEF Quiet
<1>2. ASSUME NEW h \in Handlers, TokenStep(h) PROVE Fresh'
  <2>1. CASE Login(h)
    BY <2>1, LoginEffect, FreshCreate, Zenon DEF Login
  <2>2. ASSUME NEW t \in Tokens, Refresh(h, t) PROVE Fresh'
    BY <2>2, RefreshEffect, FreshCreate, Zenon DEF Refresh
  <2>3. ASSUME NEW t \in Tokens, Authenticate(h, t) PROVE Fresh'
    <3>1. /\ \A g \in Handlers \ {h} : proc'[g] = proc[g]
          /\ proc'[h].tok = t /\ proc'[h].new = NoToken
      BY <2>3, AuthenticateEffect, Zenon DEF TypeOK, Becomes
    <3>2. NoToken \notin issued /\ NoToken <= last
      BY Values DEF TypeOK, TokensOK, NoToken
    <3> QED
      BY <2>3, <3>1, <3>2 DEF Authenticate, Fresh
  <2>4. ASSUME NEW lost \in BOOLEAN, RefreshRotateFails(h, lost) PROVE Fresh'
    <3>1. \A g \in Handlers : proc'[g].tok = proc[g].tok /\ proc'[g].new = proc[g].new
      BY <2>4, RotateFailsEffect, Zenon DEF Becomes
    <3> QED
      BY <2>4, <3>1 DEF RefreshRotateFails, Fresh
  <2>5. CASE LoginStore(h) \/ \E lost \in BOOLEAN : LoginStoreFails(h, lost) \/ SeqFails(h, lost)
    BY <2>5, TokenStepAdvances, FreshQuiet, Zenon DEF LoginStore, LoginStoreFails, SeqFails
  <2>6. CASE LoginCache(h)
    BY <2>6, FreshIssue, Places, Zenon DEF LoginCache, At
  <2>7. CASE SeqSet(h)
    BY <2>7, FreshIssue, Places, Zenon DEF SeqSet, At
  <2>8. CASE RefreshRotate(h)
    <3>1. CASE refresh = proc[h].tok
      BY <2>8, <3>1, FreshIssue, Places, Zenon DEF RefreshRotate, At
    <3>2. CASE refresh # proc[h].tok
      BY <2>8, <3>2, TokenStepAdvances, FreshQuiet, Zenon DEF RefreshRotate
    <3> QED
      BY <3>1, <3>2, Zenon
  <2> QED
    BY <1>2, <2>1, <2>2, <2>3, <2>4, <2>5, <2>6, <2>7, <2>8, Zenon DEF TokenStep
<1> QED
  BY <1>1, <1>2, NextCases, Zenon

----------------------------------------------------------------------------
(* Rotations.                                                               *)

(* The requests that may still rotate t without comparing at the same time. *)
Seqs(t) == {h \in Handlers : proc[h].pc \in Sequential /\ proc[h].tok = t}

(* A token not handed out yet, or still in user_refresh, may be rotated. *)
Open(t) == IF t \notin issued \/ refresh = t THEN 1 ELSE 0

(* Each failure of the script pays for one rotation beyond the first: what *)
(* was rotated and what may still be stays within that budget.             *)
Budget(t) ==
  /\ IsFiniteSet(Seqs(t))
  /\ uses[t] + Cardinality(Seqs(t)) + Open(t) <= 1 + evalFaults

(* The numbers of the budget. *)
LEMMA BudgetNumbers ==
  ASSUME TypeOK, NEW t \in Tokens, Budget(t)
  PROVE  uses[t] \in Nat /\ Cardinality(Seqs(t)) \in Nat /\ Open(t) \in {0, 1} /\ evalFaults \in Nat
BY FS_CardinalityType, Zenon DEF TypeOK, TokensOK, RowOK, Budget, Open

(* Where fewer requests may rotate t and none does, the budget is kept. *)
LEMMA BudgetShrinks ==
  ASSUME TypeOK, NEW t \in Tokens, Budget(t), Seqs(t)' \subseteq Seqs(t), uses'[t] = uses[t],
         evalFaults' = evalFaults, t \notin issued' => t \notin issued,
         refresh' = t => refresh = t \/ t \notin issued
  PROVE  Budget(t)'
<1>1. IsFiniteSet(Seqs(t)') /\ Cardinality(Seqs(t)') <= Cardinality(Seqs(t))
  BY FS_Subset, Zenon DEF Budget
<1>2. Cardinality(Seqs(t)') \in Nat
  BY <1>1, FS_CardinalityType, Zenon
<1>3. Open(t)' <= Open(t) /\ Open(t)' \in {0, 1}
  BY DEF Open
<1> QED
  BY <1>1, <1>2, <1>3, BudgetNumbers DEF Budget

(* When handlers let go of tokens, fewer may rotate. *)
LEMMA SeqsAdvance ==
  ASSUME ProcOK, NEW t, Advance
  PROVE  Seqs(t)' \subseteq Seqs(t)
BY Places DEF Advance, Continues, Seqs, ProcOK

(* One request rotates, and uses up its place or the token's. *)
LEMMA BudgetRotates ==
  ASSUME TypeOK, Fresh, NEW h \in Handlers, proc[h].pc \in Refreshing, Rotate(h), End(h),
         issued' \in {issued, issued \cup {proc[h].new}}, evalFaults' = evalFaults,
         proc[h].pc \in Sequential \/ refresh = proc[h].tok,
         NEW t \in Tokens, Budget(t)
  PROVE  Budget(t)'
<1>1. /\ proc[h].tok \in Tokens /\ proc[h].new \in Tokens
      /\ proc[h].tok \in issued /\ proc[h].new \notin issued
  BY LocalFacts, Values DEF TypeOK, Creating, Presenting, Fresh
<1>2. refresh' = proc[h].new /\ uses' = [uses EXCEPT ![proc[h].tok] = @ + 1]
  BY Zenon DEF Rotate, StoreToken
<1>3. Seqs(t)' \subseteq Seqs(t)
  BY EndAdvances, SeqsAdvance, Zenon DEF TypeOK
<1>4. CASE t # proc[h].tok
  <2>1. uses'[t] = uses[t]
    BY <1>1, <1>2, <1>4, Zenon DEF TypeOK, TokensOK
  <2> QED
    BY <1>1, <1>2, <1>3, <2>1, BudgetShrinks, Zenon
<1>5. CASE t = proc[h].tok /\ proc[h].pc \in Sequential
  <2>1. Seqs(t)' \subseteq Seqs(t) \ {h} /\ h \in Seqs(t)
    <3>1. proc'[h].pc = "idle"
      BY EndEffect, IdleFields, Zenon DEF TypeOK, Becomes
    <3> QED
      BY <1>3, <1>5, <3>1, Zenon DEF Seqs, Sequential
  <2>2. IsFiniteSet(Seqs(t) \ {h}) /\ Cardinality(Seqs(t) \ {h}) = Cardinality(Seqs(t)) - 1
    BY <2>1, FS_RemoveElement, Zenon DEF Budget
  <2>3. IsFiniteSet(Seqs(t)') /\ Cardinality(Seqs(t)') <= Cardinality(Seqs(t) \ {h})
    BY <2>1, <2>2, FS_Subset, Zenon
  <2>4. Cardinality(Seqs(t)') \in Nat
    BY <2>3, FS_CardinalityType, Zenon
  <2>5. Open(t)' = 0
    BY <1>1, <1>2, <1>5, Zenon DEF Open
  <2>6. uses'[t] = uses[t] + 1
    BY <1>1, <1>2, <1>5, Zenon DEF TypeOK, TokensOK
  <2> QED
    BY <2>2, <2>3, <2>4, <2>5, <2>6, BudgetNumbers DEF Budget
<1>6. CASE t = proc[h].tok /\ refresh = proc[h].tok
  <2>1. IsFiniteSet(Seqs(t)') /\ Cardinality(Seqs(t)') <= Cardinality(Seqs(t))
    BY <1>3, FS_Subset, Zenon DEF Budget
  <2>2. Cardinality(Seqs(t)') \in Nat
    BY <2>1, FS_CardinalityType, Zenon
  <2>3. Open(t) = 1 /\ Open(t)' = 0
    BY <1>1, <1>2, <1>6, Zenon DEF Open
  <2>4. uses'[t] = uses[t] + 1
    BY <1>1, <1>2, <1>6, Zenon DEF TypeOK, TokensOK
  <2> QED
    BY <2>1, <2>2, <2>3, <2>4, BudgetNumbers DEF Budget
<1> QED
  BY <1>4, <1>5, <1>6, Zenon

(* The script fails: one more request may rotate the token it presents. *)
LEMMA BudgetRotateFails ==
  ASSUME TypeOK, Fresh, NEW h \in Handlers, NEW lost \in BOOLEAN, RefreshRotateFails(h, lost),
         NEW t \in Tokens, Budget(t)
  PROVE  Budget(t)'
<1>1. /\ proc[h].tok \in Tokens /\ proc[h].new \in Tokens
      /\ proc[h].tok \in issued /\ proc[h].new \notin issued
  BY LocalFacts, Places, Values DEF TypeOK, Fresh, RefreshRotateFails, At
<1>2. /\ proc'[h].pc = "seqGet" /\ proc'[h].tok = proc[h].tok /\ proc[h].pc = "refreshRotate"
      /\ \A g \in Handlers \ {h} : proc'[g] = proc[g]
  BY RotateFailsEffect, Zenon DEF Becomes, RefreshRotateFails, At
<1>3. issued' = issued /\ evalFaults' = evalFaults + 1
  BY Zenon DEF RefreshRotateFails
<1>4. \/ refresh' = refresh /\ uses' = uses
      \/ /\ refresh = proc[h].tok /\ refresh' = proc[h].new
         /\ uses' = [uses EXCEPT ![proc[h].tok] = @ + 1]
  BY Zenon DEF RefreshRotateFails, Rotate, StoreToken, stored
<1>5. Seqs(t)' \subseteq Seqs(t) \cup {h}
  BY <1>2, Zenon DEF Seqs
<1>6. t # proc[h].tok => Seqs(t)' \subseteq Seqs(t)
  BY <1>2, Zenon DEF Seqs
<1>7. CASE t # proc[h].tok
  <2>1. IsFiniteSet(Seqs(t)') /\ Cardinality(Seqs(t)') <= Cardinality(Seqs(t))
    BY <1>6, <1>7, FS_Subset, Zenon DEF Budget
  <2>2. Cardinality(Seqs(t)') \in Nat
    BY <2>1, FS_CardinalityType, Zenon
  <2>3. uses'[t] = uses[t]
    BY <1>1, <1>4, <1>7, Zenon DEF TypeOK, TokensOK
  <2>4. Open(t)' <= Open(t) /\ Open(t)' \in {0, 1}
    BY <1>1, <1>3, <1>4 DEF Open
  <2> QED
    BY <1>3, <2>1, <2>2, <2>3, <2>4, BudgetNumbers DEF Budget
<1>8. CASE t = proc[h].tok
  <2>1. /\ IsFiniteSet(Seqs(t) \cup {h})
        /\ Cardinality(Seqs(t) \cup {h}) <= Cardinality(Seqs(t)) + 1
        /\ Cardinality(Seqs(t) \cup {h}) \in Nat
    <3>1. IsFiniteSet(Seqs(t)) /\ Cardinality(Seqs(t)) \in Nat
      BY BudgetNumbers, Zenon DEF Budget
    <3>2. /\ IsFiniteSet(Seqs(t) \cup {h})
          /\ Cardinality(Seqs(t) \cup {h}) \in {Cardinality(Seqs(t)), Cardinality(Seqs(t)) + 1}
      BY <3>1, FS_AddElement, Zenon
    <3> QED
      BY <3>1, <3>2
  <2>2. IsFiniteSet(Seqs(t)') /\ Cardinality(Seqs(t)') <= Cardinality(Seqs(t) \cup {h})
    BY <1>5, <2>1, FS_Subset, Zenon
  <2>3. Cardinality(Seqs(t)') \in Nat
    BY <2>2, FS_CardinalityType, Zenon
  <2>4. \/ uses'[t] = uses[t] /\ Open(t)' = Open(t)
        \/ uses'[t] = uses[t] + 1 /\ Open(t) = 1 /\ Open(t)' = 0
    BY <1>1, <1>3, <1>4, <1>8, Zenon DEF Open, TypeOK, TokensOK
  <2> QED
    BY <1>3, <2>1, <2>2, <2>3, <2>4, BudgetNumbers DEF Budget
<1> QED
  BY <1>7, <1>8, Zenon

(* The budget is inductive. *)
LEMMA BudgetStep ==
  ASSUME TypeOK, Fresh, [Next]_vars, NEW t \in Tokens, Budget(t)
  PROVE  Budget(t)'
<1>0. ProcOK
  BY Zenon DEF TypeOK
<1>1. CASE Quiet
  <2>1. refresh' \in {refresh, NoToken} /\ t # NoToken
    BY <1>1, Values, Zenon DEF Quiet, stored, RevokeRefresh
  <2> QED
    BY <1>0, <1>1, <2>1, SeqsAdvance, BudgetShrinks, Zenon DEF Quiet
<1>2. ASSUME NEW h \in Handlers, TokenStep(h) PROVE Budget(t)'
  <2>1. ASSUME Becomes(h, proc'[h]), proc'[h].pc \notin Sequential PROVE Seqs(t)' \subseteq Seqs(t)
    BY <2>1, Zenon DEF Becomes, Seqs
  <2>2. CASE Login(h)
    <3>1. Seqs(t)' \subseteq Seqs(t)
      BY <2>1, <2>2, LoginEffect, Places, Zenon
    <3> QED
      BY <2>2, <3>1, BudgetShrinks, Zenon DEF Login, stored, noted
  <2>3. ASSUME NEW u \in Tokens, Refresh(h, u) PROVE Budget(t)'
    <3>1. Seqs(t)' \subseteq Seqs(t)
      BY <2>1, <2>3, RefreshEffect, Places, Zenon
    <3> QED
      BY <2>3, <3>1, BudgetShrinks, Zenon DEF Refresh, stored, noted
  <2>4. ASSUME NEW u \in Tokens, Authenticate(h, u) PROVE Budget(t)'
    <3>1. Seqs(t)' \subseteq Seqs(t)
      BY <1>0, <2>1, <2>4, AuthenticateEffect, Places, Zenon DEF Becomes
    <3> QED
      BY <2>4, <3>1, BudgetShrinks, Zenon DEF Authenticate, stored, noted
  <2>5. ASSUME NEW lost \in BOOLEAN, RefreshRotateFails(h, lost) PROVE Budget(t)'
    BY <2>5, BudgetRotateFails, Zenon
  <2>6. CASE LoginStore(h) \/ \E lost \in BOOLEAN : LoginStoreFails(h, lost)
    <3>1. refresh' = refresh \/ (refresh' = proc[h].new /\ proc[h].new \notin issued)
      BY <2>6, Zenon DEF LoginStore, LoginStoreFails, StoreToken, stored, Fresh
    <3>2. Seqs(t)' \subseteq Seqs(t)
      BY <1>0, <2>6, TokenStepAdvances, SeqsAdvance, Zenon
    <3> QED
      BY <2>6, <3>1, <3>2, BudgetShrinks, Zenon
         DEF LoginStore, LoginStoreFails, RedisRaises, noted
  <2>7. CASE LoginCache(h)
    <3>1. Seqs(t)' \subseteq Seqs(t)
      BY <1>0, <2>7, TokenStepAdvances, SeqsAdvance, Zenon
    <3> QED
      BY <2>7, <3>1, BudgetShrinks, Zenon
         DEF LoginCache, CacheBestEffort, RedisRaises, noted, stored
  <2>8. CASE SeqSet(h)
    BY <2>8, BudgetRotates, Zenon DEF SeqSet, At, Refreshing, Sequential, noted
  <2>9. CASE RefreshRotate(h)
    <3>1. CASE refresh = proc[h].tok
      BY <2>9, <3>1, BudgetRotates, Zenon DEF RefreshRotate, At, Refreshing, noted
    <3>2. CASE refresh # proc[h].tok
      BY <1>0, <2>9, <3>2, TokenStepAdvances, SeqsAdvance, BudgetShrinks, Zenon
         DEF RefreshRotate, stored, noted
    <3> QED
      BY <3>1, <3>2, Zenon
  <2>10. ASSUME NEW lost \in BOOLEAN, SeqFails(h, lost) PROVE Budget(t)'
    <3>1. CASE lost /\ At(h, "seqSet")
      BY <2>10, <3>1, BudgetRotates, Zenon DEF SeqFails, RedisRaises, At, Refreshing, Sequential
    <3>2. CASE ~(lost /\ At(h, "seqSet"))
      BY <1>0, <2>10, <3>2, TokenStepAdvances, SeqsAdvance, BudgetShrinks, Zenon
         DEF SeqFails, RedisRaises, stored
    <3> QED
      BY <3>1, <3>2, Zenon
  <2> QED
    BY <1>2, <2>2, <2>3, <2>4, <2>5, <2>6, <2>7, <2>8, <2>9, <2>10, Zenon DEF TokenStep
<1> QED
  BY <1>1, <1>2, NextCases, Zenon

----------------------------------------------------------------------------
(* Families.                                                                *)

(* While the script has not failed, the family in user_refresh has not     *)
(* ended, families are named by tokens created, and a login about to store *)
(* its token starts a family that is neither stored nor ended.             *)
Families ==
  evalFaults = 0 =>
    /\ Stored \cap ended = {}
    /\ \A f \in Stored \cup ended : f <= last
    /\ \A h \in Handlers : proc[h].pc \notin Sequential
    /\ \A h \in Handlers : proc[h].pc = "loginStore" => proc[h].new \notin (Stored \cup ended)

(* After a SET of user_refresh, its family is the one given. *)
LEMMA StoreTokenFamily ==
  ASSUME StoredOK, NEW t \in Tokens, NEW f \in Tokens, StoreToken(t, f)
  PROVE  Stored' = {f} /\ ended' = ended \cup (Stored \ {f})
<1>1. refresh' = t /\ t # NoToken /\ family'[t] = f
  BY Values, Zenon DEF StoredOK, StoreToken
<1> QED
  BY <1>1, Zenon DEF Stored, StoreToken

(* After a DEL there is none. *)
LEMMA RevokeFamily ==
  ASSUME RevokeRefresh
  PROVE  Stored' = {} /\ ended' = ended \cup Stored
BY Zenon DEF Stored, RevokeRefresh

(* Steps that let go of tokens, or end a family. *)
LEMMA FamiliesQuiet ==
  ASSUME TypeOK, Families, Advance, evalFaults' = evalFaults, last' = last,
         \/ Stored' = Stored /\ ended' = ended
         \/ Stored' = {} /\ ended' = ended \cup Stored
  PROVE  Families'
<1> SUFFICES ASSUME evalFaults = 0
             PROVE  /\ Stored' \cap ended' = {}
                    /\ \A f \in Stored' \cup ended' : f <= last'
                    /\ \A h \in Handlers : proc'[h].pc \notin Sequential
                    /\ \A h \in Handlers : proc'[h].pc = "loginStore" =>
                         proc'[h].new \notin (Stored' \cup ended')
  BY Zenon DEF Families
<1>1. Stored' \cap ended' = {} /\ Stored' \cup ended' = Stored \cup ended
  BY Zenon DEF Families
<1>2. \A h \in Handlers : proc'[h].pc \notin Sequential
  BY Zenon DEF Families, Advance, Continues
<1>3. ASSUME NEW h \in Handlers, proc'[h].pc = "loginStore"
      PROVE  proc[h].pc = "loginStore" /\ proc'[h].new = proc[h].new
  BY <1>3, Places, Zenon DEF Advance, Continues
<1> QED
  BY <1>1, <1>2, <1>3, Zenon DEF Families

(* A login stores its token: the family in user_refresh ends, a new one begins. *)
LEMMA FamiliesLogin ==
  ASSUME TypeOK, Fresh, Families, NEW h \in Handlers, At(h, "loginStore"),
         StoreToken(proc[h].new, proc[h].new), Advance, proc'[h].pc # "loginStore",
         evalFaults' = evalFaults, last' = last
  PROVE  Families'
<1> SUFFICES ASSUME evalFaults = 0
             PROVE  /\ Stored' \cap ended' = {}
                    /\ \A f \in Stored' \cup ended' : f <= last'
                    /\ \A g \in Handlers : proc'[g].pc \notin Sequential
                    /\ \A g \in Handlers : proc'[g].pc = "loginStore" =>
                         proc'[g].new \notin (Stored' \cup ended')
  BY Zenon DEF Families
<1> DEFINE n == proc[h].new
<1>1. n \in Tokens /\ n # NoToken
  BY LocalFacts, Places, Values, Zenon DEF TypeOK, At
<1>2. Stored' = {n} /\ ended' = ended \cup (Stored \ {n})
  BY <1>1, StoreTokenFamily, Zenon DEF TypeOK
<1>3. n \notin Stored /\ n \notin ended /\ n <= last
  BY Zenon DEF Families, Fresh, At
<1>4. Stored' \cap ended' = {} /\ \A f \in Stored' \cup ended' : f = n \/ f \in Stored \cup ended
  BY <1>2, <1>3, Zenon
<1>5. \A g \in Handlers : proc'[g].pc \notin Sequential
  BY Zenon DEF Families, Advance, Continues
<1>6. ASSUME NEW g \in Handlers, proc'[g].pc = "loginStore"
      PROVE  proc'[g].new \notin (Stored' \cup ended')
  <2>1. g # h /\ proc[g].pc = "loginStore" /\ proc'[g].new = proc[g].new
    BY <1>6, Places DEF Advance, Continues
  <2>2. proc[g].new # n /\ proc[g].new \notin (Stored \cup ended)
    BY <1>1, <2>1, Zenon DEF Fresh, Families
  <2> QED
    BY <1>4, <2>1, <2>2, Zenon
<1> QED
  BY <1>3, <1>4, <1>5, <1>6, Zenon DEF Families

(* A rotation by the script keeps the family in user_refresh. *)
LEMMA RotateFamily ==
  ASSUME TypeOK, NEW h \in Handlers, At(h, "refreshRotate"), refresh = proc[h].tok, Rotate(h)
  PROVE  Stored' = Stored /\ ended' = ended
<1>1. proc[h].new \in Tokens /\ proc[h].tok \in Tokens /\ proc[h].tok # NoToken
  BY LocalFacts, Places, Values, Zenon DEF TypeOK, At
<1>2. family[proc[h].tok] \in Tokens /\ Stored = {family[proc[h].tok]}
  BY <1>1, Zenon DEF TypeOK, StoredOK, Stored
<1> QED
  BY <1>1, <1>2, StoreTokenFamily, Zenon DEF TypeOK, Rotate

(* A request begins: a login will start a family that never was. *)
LEMMA FamiliesBegin ==
  ASSUME TypeOK, Families, NEW h \in Handlers, Becomes(h, proc'[h]),
         proc'[h].pc \notin Sequential,
         proc'[h].pc = "loginStore" => proc'[h].new = last + 1,
         last' \in {last, last + 1}, UNCHANGED <<refresh, family, ended, evalFaults>>
  PROVE  Families'
<1> SUFFICES ASSUME evalFaults = 0
             PROVE  /\ Stored' \cap ended' = {}
                    /\ \A f \in Stored' \cup ended' : f <= last'
                    /\ \A g \in Handlers : proc'[g].pc \notin Sequential
                    /\ \A g \in Handlers : proc'[g].pc = "loginStore" =>
                         proc'[g].new \notin (Stored' \cup ended')
  BY Zenon DEF Families
<1>1. Stored' = Stored /\ ended' = ended
  BY Zenon DEF Stored
<1>2. \A g \in Handlers \ {h} : proc'[g] = proc[g]
  BY Zenon DEF Becomes
<1>3. last \in Nat /\ Stored \subseteq Nat /\ ended \subseteq Nat
  <2>1. 0..MaxTokens \subseteq Nat /\ Tokens \subseteq Nat
    BY SessionAssumption DEF Tokens
  <2> QED
    BY <2>1, StoredType, Zenon DEF TypeOK, StoredOK, TokensOK
<1>4. \A f \in Stored \cup ended : f <= last
  BY Zenon DEF Families
<1>5. \A f \in Stored \cup ended : f <= last' /\ f # last + 1
  BY <1>3, <1>4
<1> QED
  BY <1>1, <1>2, <1>5, Zenon DEF Families

(* Families is inductive. *)
LEMMA FamiliesStep ==
  ASSUME TypeOK, Fresh, Families, [Next]_vars
  PROVE  Families'
<1>0. ASSUME UNCHANGED stored PROVE Stored' = Stored /\ ended' = ended
  BY <1>0, Zenon DEF stored, Stored
<1>1. CASE Quiet
  BY <1>0, <1>1, RevokeFamily, FamiliesQuiet, Zenon DEF Quiet
<1>2. ASSUME NEW h \in Handlers, TokenStep(h) PROVE Families'
  <2>1. CASE Login(h)
    <3>1. /\ Becomes(h, proc'[h]) /\ proc'[h].pc = "loginStore"
          /\ proc'[h].new = last + 1 /\ last' = last + 1
      BY <2>1, LoginEffect, Zenon
    <3> QED
      BY <2>1, <3>1, Places, FamiliesBegin DEF Login, stored, noted
  <2>2. ASSUME NEW t \in Tokens, Refresh(h, t) PROVE Families'
    <3>1. /\ Becomes(h, proc'[h]) /\ proc'[h].pc = "refreshStatus" /\ last' = last + 1
      BY <2>2, RefreshEffect, Zenon
    <3> QED
      BY <2>2, <3>1, Places, FamiliesBegin DEF Refresh, stored, noted
  <2>3. ASSUME NEW t \in Tokens, Authenticate(h, t) PROVE Families'
    <3>1. Becomes(h, proc'[h]) /\ proc'[h].pc = "authJti"
      BY <2>3, AuthenticateEffect, Zenon DEF Becomes, TypeOK
    <3> QED
      BY <2>3, <3>1, Places, FamiliesBegin DEF Authenticate, stored, noted
  <2>4. CASE LoginStore(h)
    <3>1. Advance /\ proc'[h].pc = "loginCache"
      BY <2>4, TokenStepAdvances, GotoEffect, Places, Zenon DEF LoginStore, TypeOK
    <3> QED
      BY <2>4, <3>1, FamiliesLogin, Zenon DEF LoginStore, noted
  <2>5. ASSUME NEW lost \in BOOLEAN, LoginStoreFails(h, lost) PROVE Families'
    <3>1. Advance /\ proc'[h].pc = "idle"
      BY <2>5, TokenStepAdvances, EndEffect, IdleFields, Zenon
         DEF LoginStoreFails, TypeOK, Becomes
    <3> QED
      BY <1>0, <2>5, <3>1, FamiliesLogin, FamiliesQuiet, Zenon DEF LoginStoreFails, RedisRaises
  <2>6. CASE LoginCache(h)
    BY <1>0, <2>6, TokenStepAdvances, FamiliesQuiet, Zenon
       DEF LoginCache, CacheBestEffort, RedisRaises, noted
  <2>7. CASE RefreshRotate(h)
    BY <1>0, <2>7, TokenStepAdvances, RotateFamily, FamiliesQuiet, Zenon
       DEF RefreshRotate, noted
  <2>8. ASSUME NEW lost \in BOOLEAN, RefreshRotateFails(h, lost) PROVE Families'
    BY <2>8 DEF RefreshRotateFails, Families, TypeOK, RowOK
  <2>9. CASE proc[h].pc \in Sequential /\ evalFaults' = evalFaults
    BY <2>9, Zenon DEF Families
  <2> QED
    BY <1>2, <2>1, <2>2, <2>3, <2>4, <2>5, <2>6, <2>7, <2>8, <2>9, Zenon
       DEF TokenStep, SeqSet, SeqFails, At, Sequential, RedisRaises, noted
<1> QED
  BY <1>1, <1>2, NextCases, Zenon

----------------------------------------------------------------------------
(* The blacklist.                                                           *)

(* A token that was logged out has its key, or is in its last second. *)
Keys == loggedOut \subseteq blacklist \cup late

(* A token that has its key or is in its last second goes on so. *)
Kept ==
  /\ late \subseteq late'
  /\ blacklist \cup late \subseteq blacklist' \cup late'

(* What a step does to the access tokens. *)
AccessMoves ==
  \/ UNCHANGED access
  \/ \E t : SetKey(t)
  \/ \E t \in late : loggedOut' = loggedOut \cup {t} /\ UNCHANGED <<blacklist, late>>
  \/ \E t : LastSecond(t) \/ KeyExpires(t)

(* There is nothing else a step does to them. *)
LEMMA AccessCases ==
  ASSUME [Next]_vars
  PROVE  AccessMoves
<1>1. ASSUME NEW h \in Handlers, Begin(h) PROVE UNCHANGED access
  BY <1>1, Zenon DEF Begin, Login, Refresh, Authenticate, SuspendUser, ActivateUser
<1>2. ASSUME NEW h \in Handlers, Step(h) PROVE AccessMoves
  <2>1. CASE LoginStore(h) \/ LoginCache(h) \/ RefreshStatus(h) \/ RefreshDb(h)
    BY <2>1, Zenon DEF LoginStore, LoginCache, RefreshStatus, RefreshDb, AccessMoves
  <2>2. CASE RefreshFill(h) \/ RefreshRotate(h) \/ SeqGet(h) \/ SeqSet(h)
    BY <2>2, Zenon DEF RefreshFill, RefreshRotate, SeqGet, SeqSet, AccessMoves
  <2>3. CASE AuthJti(h) \/ AuthCache(h) \/ AuthDb(h) \/ AuthFill(h)
    BY <2>3, Zenon DEF AuthJti, AuthCache, AuthDb, AuthFill, AccessMoves
  <2>4. CASE Read(h) \/ LogoutExpired(h) \/ UpdatePassword(h) \/ DeleteMe(h)
    BY <2>4, Zenon DEF Read, LogoutExpired, UpdatePassword, DeleteMe, AccessMoves
  <2>5. CASE DeleteUser(h) \/ Revoke(h) \/ Invalidate(h)
    BY <2>5, Zenon DEF DeleteUser, Revoke, Invalidate, AccessMoves
  <2>6. CASE LogoutBlacklist(h)
    BY <2>6, Zenon DEF LogoutBlacklist, AccessMoves
  <2> QED
    BY <1>2, <2>1, <2>2, <2>3, <2>4, <2>5, <2>6, Zenon DEF Step
<1>3. ASSUME NEW h \in Handlers, StepFails(h) PROVE AccessMoves
  <2>1. CASE RefreshStatusFails(h) \/ AuthJtiFails(h) \/ AuthCacheFails(h) \/ Crash(h)
    BY <2>1, Zenon DEF RefreshStatusFails, AuthJtiFails, AuthCacheFails, Crash, AccessMoves
  <2>2. ASSUME NEW lost \in BOOLEAN, \/ LoginStoreFails(h, lost) \/ RefreshRotateFails(h, lost)
                                     \/ SeqFails(h, lost) \/ RevokeFails(h, lost)
        PROVE  AccessMoves
    BY <2>2, Zenon DEF LoginStoreFails, RefreshRotateFails, SeqFails, RevokeFails, AccessMoves
  <2>3. ASSUME NEW lost \in BOOLEAN, LogoutBlacklistFails(h, lost) PROVE AccessMoves
    BY <2>3, Zenon DEF LogoutBlacklistFails, AccessMoves
  <2> QED
    BY <1>3, <2>1, <2>2, <2>3, Zenon DEF StepFails
<1>4. CASE Replicate \/ CacheExpires \/ RefreshExpires \/ UNCHANGED vars
  BY <1>4, Zenon DEF Replicate, CacheExpires, RefreshExpires, vars, AccessMoves
<1>5. ASSUME NEW t \in Tokens, LastSecond(t) \/ KeyExpires(t) PROVE AccessMoves
  BY <1>5, Zenon DEF AccessMoves
<1> QED
  BY <1>1, <1>2, <1>3, <1>4, <1>5, Zenon DEF Next, AccessMoves

(* Keys is inductive: a key ends only in its token's last second. *)
LEMMA KeysStep ==
  ASSUME [Next]_vars
  PROVE  Kept /\ (Keys => Keys')
BY AccessCases, Zenon DEF AccessMoves, SetKey, LastSecond, KeyExpires, access, Kept, Keys

----------------------------------------------------------------------------
(* get_current_user.                                                        *)

(* What the steps of the check know: a request has its token, the account  *)
(* active in the replica now has been seen active, a row read as active    *)
(* was, and a barred request let past the blacklist has its token in its   *)
(* last second.                                                            *)
Admits(r) ==
  /\ r.pc \in Checking => r.tok # NoToken /\ (replica = "ACTIVE" => r.active)
  /\ r.pc = "authFill" /\ r.seen = "ACTIVE" => r.active
  /\ r.pc = "served" => r.active
  /\ r.pc = "authJti" /\ r.barred => r.tok \in blacklist \cup late
  /\ r.pc \in Passed /\ r.barred => r.tok \in late

Admission == \A h \in Handlers : Admits(proc[h])

(* A handler moves, the replica does not, and refused tokens stay so. *)
LEMMA AdmissionFrame ==
  ASSUME Admission, NEW h \in Handlers, Becomes(h, proc'[h]), replica' = replica,
         Kept, Admits(proc[h])'
  PROVE  Admission'
BY Zenon DEF Admission, Admits, Becomes, Kept

(* The same, for a handler that is not, or no longer, in the check. *)
LEMMA AdmissionLeave ==
  ASSUME Admission, NEW h \in Handlers, Becomes(h, proc'[h]), replica' = replica,
         Kept, proc'[h].pc \notin Checking
  PROVE  Admission'
<1>1. Admits(proc[h])'
  BY Zenon DEF Admits, Checking, Passed
<1> QED
  BY <1>1, AdmissionFrame, Zenon

(* A request ends. *)
LEMMA AdmissionEnd ==
  ASSUME TypeOK, Admission, NEW h \in Handlers, End(h), replica' = replica,
         Kept
  PROVE  Admission'
<1>1. Becomes(h, proc'[h]) /\ proc'[h].pc = "idle"
  BY EndEffect, IdleFields, Zenon DEF TypeOK, Becomes
<1> QED
  BY <1>1, AdmissionLeave, Zenon DEF Checking, Passed

(* A handler goes to a step outside the check. *)
LEMMA AdmissionGoto ==
  ASSUME TypeOK, Admission, NEW h \in Handlers, NEW pc \in Steps \ Checking, Goto(h, pc),
         replica' = replica, Kept
  PROVE  Admission'
<1>1. Becomes(h, proc'[h]) /\ proc'[h].pc = pc
  BY GotoEffect, Zenon DEF TypeOK, Becomes
<1> QED
  BY <1>1, AdmissionLeave, Zenon

(* A served request goes on to revoke the session. *)
LEMMA AdmissionRevokeNext ==
  ASSUME TypeOK, Admission, NEW h \in Handlers, NEW pc \in Revoking, RevokeNext(h, pc),
         replica' = replica, Kept
  PROVE  Admission'
<1>1. pc \in Steps \ Checking
  BY Places, Zenon DEF Presenting
<1>2. Becomes(h, proc'[h]) /\ proc'[h].pc = pc
  BY <1>1, RevokeNextEffect, Zenon DEF TypeOK, Becomes
<1> QED
  BY <1>1, <1>2, AdmissionLeave, Zenon

(* The steps of get_current_user. *)
LEMMA AdmissionCheck ==
  ASSUME TypeOK, Admission, Keys, Kept, NEW h \in Handlers,
         \/ AuthJti(h) \/ AuthJtiFails(h) \/ AuthCache(h) \/ AuthCacheFails(h)
         \/ AuthDb(h) \/ AuthFill(h) \/ \E t \in Tokens : Authenticate(h, t)
  PROVE  Admission'
<1>0. /\ ProcOK /\ replica \in Statuses /\ Admits(proc[h]) /\ Checking \subseteq Steps
      /\ Checking = {"authJti", "authCache", "authDb", "authFill", "served"}
      /\ Passed = {"authCache", "authDb", "authFill", "served"}
  BY Zenon DEF TypeOK, RowOK, Admission, Steps, Presenting, Checking, Passed
<1>1. ASSUME NEW t \in Tokens, Authenticate(h, t) PROVE Admission'
  <2>1. /\ Becomes(h, proc'[h]) /\ proc'[h].pc = "authJti" /\ proc'[h].tok = t
        /\ proc'[h].active = (replica = "ACTIVE") /\ proc'[h].barred = (t \in loggedOut)
    BY <1>0, <1>1, AuthenticateEffect, Zenon DEF Becomes
  <2>2. replica' = replica /\ t # NoToken
    BY <1>1, Values, Zenon DEF Authenticate, account
  <2>3. /\ replica = "ACTIVE" => proc'[h].active
        /\ proc'[h].barred => t \in blacklist' \cup late'
    BY <2>1, Zenon DEF Keys, Kept
  <2>4. Admits(proc[h])'
    BY <1>0, <2>1, <2>2, <2>3, Zenon DEF Admits
  <2> QED
    BY <2>1, <2>2, <2>4, AdmissionFrame, Zenon
<1>2. CASE AuthJti(h)
  <2>1. CASE proc[h].tok \in blacklist
    BY <1>2, <2>1, AdmissionEnd, Zenon DEF AuthJti, account
  <2>2. CASE proc[h].tok \notin blacklist
    <3>1. /\ Becomes(h, proc'[h]) /\ proc'[h].pc = "authCache" /\ proc'[h].tok = proc[h].tok
          /\ proc'[h].active = proc[h].active /\ proc'[h].barred = proc[h].barred
      BY <1>0, <1>2, <2>2, GotoEffect, Zenon DEF AuthJti, Becomes
    <3>2. Admits(proc[h])'
      BY <1>0, <1>2, <2>2, <3>1, Zenon DEF Admits, AuthJti, At, account, Kept
    <3> QED
      BY <1>2, <3>1, <3>2, AdmissionFrame, Zenon DEF AuthJti, account
  <2> QED
    BY <2>1, <2>2, Zenon
<1>3. CASE AuthJtiFails(h)
  <2>1. Admits(proc[h])'
    BY <1>0, <1>3, AuthJtiFailsEffect, Zenon DEF Admits, AuthJtiFails, At, account
  <2> QED
    BY <1>3, <2>1, AuthJtiFailsEffect, AdmissionFrame, Zenon DEF AuthJtiFails, account
<1>4. ASSUME NEW m \in BOOLEAN, At(h, "authCache"), UNCHANGED replica,
             proc' = [proc EXCEPT ![h].pc = "authDb", ![h].miss = m]
      PROVE  Admission'
  <2>1. Admits(proc[h])'
    BY <1>0, <1>4, MissEffect, Zenon DEF Admits, At, Kept
  <2> QED
    BY <1>4, <2>1, MissEffect, AdmissionFrame, Zenon
<1>5. CASE AuthCache(h)
  BY <1>4, <1>5, AdmissionEnd, Zenon DEF AuthCache, account
<1>6. CASE AuthCacheFails(h)
  BY <1>4, <1>6, Zenon DEF AuthCacheFails, account
<1>7. ASSUME proc[h].pc \in Passed, proc[h].active, Goto(h, "served"),
             replica' = replica
      PROVE  Admission'
  <2>1. /\ Becomes(h, proc'[h]) /\ proc'[h].pc = "served" /\ proc'[h].tok = proc[h].tok
        /\ proc'[h].active = proc[h].active /\ proc'[h].barred = proc[h].barred
    BY <1>0, <1>7, GotoEffect, Zenon DEF Becomes
  <2>2. Admits(proc[h])'
    BY <1>0, <1>7, <2>1, Zenon DEF Admits, At, Kept
  <2> QED
    BY <1>7, <2>1, <2>2, AdmissionFrame, Zenon
<1>8. CASE AuthFill(h)
  <2>1. proc[h].pc \in Passed /\ (proc[h].seen = "ACTIVE" => proc[h].active)
    BY <1>0, <1>8, Zenon DEF AuthFill, Admits, At
  <2> QED
    BY <1>7, <1>8, <2>1, AdmissionEnd, Zenon DEF AuthFill, account
<1>9. CASE AuthDb(h)
  <2>1. CASE replica \in Live /\ proc[h].miss
    <3>1. proc' = [proc EXCEPT ![h].pc = "authFill", ![h].seen = replica] /\ At(h, "authDb")
      BY <1>9, <2>1, Values, Zenon DEF AuthDb
    <3>2. replica' = replica
      BY <1>9, Zenon DEF AuthDb, account
    <3>3. /\ Becomes(h, proc'[h]) /\ proc'[h].pc = "authFill" /\ proc'[h].tok = proc[h].tok
          /\ proc'[h].seen = replica
          /\ proc'[h].active = proc[h].active /\ proc'[h].barred = proc[h].barred
      BY <2>1, <3>1, SeenEffect, Zenon
    <3>4. Admits(proc[h])'
      BY <1>0, <3>1, <3>2, <3>3, Zenon DEF Admits, At, Kept
    <3> QED
      BY <3>2, <3>3, <3>4, AdmissionFrame, Zenon
  <2>2. CASE ~(replica \in Live /\ proc[h].miss)
    <3>1. /\ replica' = replica
          /\ proc[h].pc \in Passed /\ (replica = "ACTIVE" => proc[h].active)
      BY <1>0, <1>9, Zenon DEF AuthDb, Admits, At, account
    <3>2. CASE replica = "WITHDRAWN"
      BY <1>9, <3>1, <3>2, Values, AdmissionEnd, Zenon DEF AuthDb
    <3>3. CASE replica \in Live /\ ~proc[h].miss
      <4>1. IF replica = "ACTIVE" THEN Goto(h, "served") ELSE End(h)
        BY <1>9, <3>3, Values, Zenon DEF AuthDb
      <4>2. CASE replica = "ACTIVE"
        BY <1>7, <3>1, <4>1, <4>2, Zenon
      <4>3. CASE replica # "ACTIVE"
        BY <3>1, <4>1, <4>3, AdmissionEnd, Zenon
      <4> QED
        BY <4>2, <4>3, Zenon
    <3> QED
      BY <1>0, <2>2, <3>2, <3>3, Values, Zenon
  <2> QED
    BY <2>1, <2>2, Zenon
<1> QED
  BY <1>1, <1>2, <1>3, <1>5, <1>6, <1>8, <1>9, Zenon

(* Admission is inductive. *)
LEMMA AdmissionStep ==
  ASSUME TypeOK, Admission, Keys, [Next]_vars
  PROVE  Admission'
<1>k. Kept
  BY KeysStep, Zenon
<1>0. /\ {"idle", "withdrawDb", "invalidate", "refreshDb", "refreshFill", "refreshRotate",
          "seqGet", "seqSet", "loginCache", "loginStore", "refreshStatus",
          "revokeInvalidate"} \subseteq (Steps \ Checking)
      /\ {"revokeEnd", "revokeWithdraw"} \subseteq Revoking
  BY Zenon DEF Steps, Creating, Presenting, Refreshing, Sequential, Checking, Passed, Revoking
<1>1. ASSUME NEW h \in Handlers, Begin(h) PROVE Admission'
  <2>1. CASE Login(h)
    BY <1>k, <1>0, <2>1, LoginEffect, AdmissionLeave, Zenon DEF Login, account
  <2>2. ASSUME NEW t \in Tokens, Refresh(h, t) PROVE Admission'
    BY <1>k, <1>0, <2>2, RefreshEffect, AdmissionLeave, Zenon DEF Refresh, account
  <2>3. CASE SuspendUser(h) \/ ActivateUser(h)
    BY <1>k, <1>0, <2>3, AdmissionGoto, Zenon DEF SuspendUser, ActivateUser, CommitStatus
  <2> QED
    BY <1>k, <1>1, <2>1, <2>2, <2>3, AdmissionCheck, Zenon DEF Begin
<1>2. ASSUME NEW h \in Handlers, Step(h) PROVE Admission'
  <2>1. CASE LoginStore(h) \/ LoginCache(h)
    BY <1>k, <1>0, <2>1, AdmissionGoto, AdmissionEnd, ZenonT(30) DEF LoginStore, LoginCache, account
  <2>2. CASE RefreshStatus(h)
    BY <1>k, <1>0, <2>2, AdmissionGoto, AdmissionEnd, Zenon DEF RefreshStatus, account
  <2>3. CASE RefreshDb(h)
    <3>1. Becomes(h, proc'[h]) /\ proc'[h].pc \notin Checking
      BY <1>0, <2>3, RefreshDbAdvances, Zenon
    <3> QED
      BY <1>k, <2>3, <3>1, AdmissionLeave, Zenon DEF RefreshDb, account
  <2>4. CASE RefreshFill(h)
    BY <1>k, <1>0, <2>4, AdmissionGoto, AdmissionEnd, Zenon DEF RefreshFill, account
  <2>5. CASE RefreshRotate(h) \/ SeqSet(h)
    BY <1>k, <2>5, AdmissionEnd, Zenon DEF RefreshRotate, SeqSet, account
  <2>6. CASE SeqGet(h)
    BY <1>k, <1>0, <2>6, AdmissionGoto, AdmissionEnd, Zenon DEF SeqGet, account
  <2>7. CASE Read(h) \/ LogoutExpired(h) \/ Invalidate(h)
    BY <1>k, <2>7, AdmissionEnd, Zenon DEF Read, LogoutExpired, Invalidate, account
  <2>8. CASE LogoutBlacklist(h)
    BY <1>k, <1>0, <2>8, AdmissionRevokeNext, Zenon DEF LogoutBlacklist, account
  <2>9. CASE UpdatePassword(h)
    BY <1>k, <1>0, <2>9, AdmissionRevokeNext, AdmissionEnd, Zenon DEF UpdatePassword, account
  <2>10. CASE DeleteMe(h)
    BY <1>k, <1>0, <2>10, AdmissionRevokeNext, Zenon DEF DeleteMe, account
  <2>11. CASE DeleteUser(h)
    BY <1>k, <1>0, <2>11, AdmissionGoto, AdmissionEnd, Zenon DEF DeleteUser, CommitStatus, account
  <2>12. CASE Revoke(h)
    BY <1>k, <1>0, <2>12, AdmissionGoto, AdmissionEnd, Zenon
       DEF Revoke, AfterRevoke, Revoking, At, account
  <2> QED
    BY <1>2, <2>1, <2>2, <2>3, <2>4, <2>5, <2>6, <2>7, <2>8, <2>9, <2>10, <2>11, <2>12,
       <1>k, AdmissionCheck, Zenon DEF Step
<1>3. ASSUME NEW h \in Handlers, StepFails(h) PROVE Admission'
  <2>1. CASE RefreshStatusFails(h)
    BY <1>k, <1>0, <2>1, AdmissionGoto, Zenon DEF RefreshStatusFails, account
  <2>2. ASSUME NEW lost \in BOOLEAN,
               LoginStoreFails(h, lost) \/ SeqFails(h, lost) \/ RevokeFails(h, lost)
        PROVE  Admission'
    BY <1>k, <2>2, AdmissionEnd, Zenon DEF LoginStoreFails, SeqFails, RevokeFails, account
  <2>3. ASSUME NEW lost \in BOOLEAN, RefreshRotateFails(h, lost) PROVE Admission'
    BY <1>k, <1>0, <2>3, AdmissionGoto, Zenon DEF RefreshRotateFails, account
  <2>4. ASSUME NEW lost \in BOOLEAN, LogoutBlacklistFails(h, lost) PROVE Admission'
    <3>1. replica' = replica /\ End(h)
      BY <2>4, Zenon DEF LogoutBlacklistFails, account
    <3> QED
      BY <1>k, <3>1, AdmissionEnd, Zenon
  <2>5. CASE Crash(h)
    BY <1>k, <2>5, AdmissionEnd, Zenon DEF Crash, account
  <2> QED
    BY <1>k, <1>3, <2>1, <2>2, <2>3, <2>4, <2>5, AdmissionCheck, Zenon DEF StepFails
<1>4. CASE Replicate
  <2>2. ASSUME NEW h \in Handlers PROVE Admits(proc[h])'
    <3>1. /\ proc'[h].pc = proc[h].pc /\ proc'[h].tok = proc[h].tok
          /\ proc'[h].seen = proc[h].seen /\ proc'[h].barred = proc[h].barred
          /\ proc[h].active => proc'[h].active
          /\ proc[h].tok # NoToken /\ replica' = "ACTIVE" => proc'[h].active
      BY <1>4, ReplicateEffect, Zenon
    <3>2. Admits(proc[h])
      BY Zenon DEF Admission
    <3> QED
      BY <1>k, <3>1, <3>2, Zenon DEF Admits, Kept
  <2> QED
    BY <2>2, Zenon DEF Admission
<1>5. CASE UNCHANGED <<proc, replica>>
  BY <1>k, <1>5, Zenon DEF Admission, Admits, Kept
<1> QED
  BY <1>1, <1>2, <1>3, <1>4, <1>5, Zenon
     DEF Next, CacheExpires, RefreshExpires, LastSecond, KeyExpires, vars, account

----------------------------------------------------------------------------
(* The theorems.                                                            *)

Inv == /\ TypeOK
       /\ Fresh
       /\ \A t \in Tokens : Budget(t)
       /\ Families
       /\ Keys
       /\ Admission

(* At first there is no token and no request. *)
LEMMA InitInv == Init => Inv
<1> SUFFICES ASSUME Init PROVE Inv
  OBVIOUS
<1>0. \A h \in Handlers : proc[h] = Idle
  BY Zenon DEF Init
<1>1. RowOK /\ StoredOK /\ TokensOK
  BY SessionAssumption, Values DEF Init, RowOK, StoredOK, TokensOK
<1>2. ProcOK
  BY <1>0, IdleFields, Places, Zenon DEF Init, ProcOK
<1>3. Fresh
  BY <1>0, IdleFields DEF Init, Fresh, NoToken
<1>4. ASSUME NEW t \in Tokens PROVE Budget(t)
  <2>1. Seqs(t) = {}
    BY <1>0, IdleFields, Zenon DEF Seqs, Sequential
  <2>2. IsFiniteSet(Seqs(t)) /\ Cardinality(Seqs(t)) = 0
    BY <2>1, FS_EmptySet, Zenon
  <2>3. uses[t] = 0 /\ evalFaults = 0 /\ Open(t) = 1
    BY Zenon DEF Init, Open
  <2> QED
    BY <2>2, <2>3 DEF Budget
<1>5. Families
  BY <1>0, IdleFields, Zenon DEF Init, Families, Stored, Sequential
<1>6. Admission
  BY <1>0, IdleFields, Zenon DEF Admission, Admits, Checking, Passed
<1>7. Keys
  BY Zenon DEF Init, Keys
<1> QED
  BY <1>1, <1>2, <1>3, <1>4, <1>5, <1>6, <1>7, Zenon DEF Inv, TypeOK

(* Inv is an invariant. *)
LEMMA InvInvariant == Spec => []Inv
<1>1. Inv /\ [Next]_vars => Inv'
  <2> SUFFICES ASSUME Inv, [Next]_vars PROVE Inv'
    OBVIOUS
  <2>1. TypeOK' /\ Fresh' /\ Families' /\ Keys' /\ Admission'
    BY TypeStep, FreshStep, FamiliesStep, KeysStep, AdmissionStep, Zenon DEF Inv
  <2>2. ASSUME NEW t \in Tokens PROVE Budget(t)'
    BY BudgetStep, Zenon DEF Inv
  <2> QED
    BY <2>1, <2>2, Zenon DEF Inv
<1> QED
  BY <1>1, InitInv, PTL DEF Spec

(* However many requests present a refresh token at once, it is rotated at *)
(* most once, and at most once more for every failure of the CAS script    *)
(* (refresh_tokens).                                                       *)
THEOREM RotatedOnceHolds == Spec => []RotatedOnce
<1>1. Inv => RotatedOnce
  <2> SUFFICES ASSUME Inv, NEW t \in Tokens PROVE uses[t] <= 1 + evalFaults
    BY Zenon DEF RotatedOnce
  <2> QED
    BY BudgetNumbers DEF Inv, Budget
<1> QED
  BY <1>1, InvInvariant, PTL

(* A family that has left user_refresh, revoked, replaced or expired, is   *)
(* never stored again while the CAS script has not failed, whatever        *)
(* rotations and logins were in flight.                                    *)
THEOREM EndedSessionStaysEndedHolds == Spec => []EndedSessionStaysEnded
<1>1. Inv => EndedSessionStaysEnded
  BY Zenon DEF Inv, Families, EndedSessionStaysEnded
<1> QED
  BY <1>1, InvInvariant, PTL

(* get_current_user serves a request only if the replica had the account   *)
(* active at some moment since the request began.                          *)
THEOREM ServedWhileActiveHolds == Spec => []ServedWhileActive
<1>1. Inv => ServedWhileActive
  BY Zenon DEF Inv, Admission, Admits, ServedWhileActive, At
<1> QED
  BY <1>1, InvInvariant, PTL

(* get_current_user serves no request that begins after the logout of its  *)
(* access token, unless its own look-up failed or the token is in its last *)
(* second.                                                                 *)
THEOREM LoggedOutIsRefusedHolds == Spec => []LoggedOutIsRefused
<1>1. Inv => LoggedOutIsRefused
  BY Zenon DEF Inv, Admission, Admits, Passed, LoggedOutIsRefused, At
<1> QED
  BY <1>1, InvInvariant, PTL
=============================================================================
