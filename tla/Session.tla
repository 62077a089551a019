------------------------------ MODULE Session ------------------------------
(***************************************************************************)
(* The sessions of one account: login, refresh token rotation, logout, the *)
(* bearer check of every authenticated request, the user status cache and  *)
(* the handlers that change the status or revoke the session               *)
(* (app/domain/auth, app/api/dependencies/auth.py, app/domain/users,       *)
(* app/domain/admin).  All their Redis keys carry the user id, so accounts *)
(* do not interact.                                                        *)
(*                                                                         *)
(* A token stands for the refresh token and the access token issued with   *)
(* it.  A family is a login and everything rotated from it.                *)
(***************************************************************************)
EXTENDS Naturals, FiniteSets, Sequences

CONSTANTS Handlers,    \* requests being handled, on any instance
          Requests,    \* the kinds of request clients and administrators send
          MaxTokens,   \* bound on the tokens issued
          MaxLate,     \* bound on the access tokens followed to their end
          MaxChanges,  \* bound on the changes of users.status
          Faults,      \* the kinds of fault that may happen
          MaxFaults    \* bound on their number

FaultKinds == {"redisError",      \* a Redis call raises and had no effect
               "redisReplyLost",  \* a Redis call raises after taking effect
               "crash"}           \* a handler ends between two of its steps

(* What a request that has passed get_current_user goes on to do. *)
Operations == {"read", "logout", "password", "withdraw"}
RequestKinds == Operations \cup {"login", "refresh", "suspend", "activate"}

ASSUME SessionAssumption ==
  /\ Requests \subseteq RequestKinds
  /\ MaxTokens \in Nat /\ MaxLate \in Nat /\ MaxChanges \in Nat /\ MaxFaults \in Nat
  /\ Faults \subseteq FaultKinds

Live == {"ACTIVE", "SUSPENDED"}           \* users.status of a row not deleted
Statuses == Live \cup {"WITHDRAWN"}
Tokens == 1..MaxTokens
None == "none"     \* the status cache has no entry
NoToken == 0       \* user_refresh:{id} does not exist

VARIABLES
  status,    \* users.status in the primary
  wal,       \* the changes of it the replica has not applied yet
  replica,   \* users.status in the read replica
  refresh,   \* user_refresh:{id}: the token whose digest is stored
  cache,     \* user:status:{id}
  blacklist, \* blacklist:jti: the access tokens with a key
  late,      \* access tokens in their last second
  issued,    \* tokens a client holds
  last,      \* the last token created
  family,    \* the login each token descends from
  proc,      \* the handlers: control state and local variables
  changes,   \* status changes made by administrators
  faults, evalFaults,  \* history: faults so far, and those of the CAS script
  loggedOut, \* history: access tokens whose blacklisting is over
  uses,      \* history: how often each refresh token was rotated
  ended      \* history: families once removed from user_refresh

stored == <<refresh, family, ended>>
account == <<status, wal, replica, changes>>
access == <<blacklist, late, loggedOut>>
noted == <<faults, evalFaults>>
vars == <<stored, issued, last, uses, account, cache, access, proc, noted>>

(* A handler between two requests. *)
Idle == [pc |-> "idle",
         tok |-> NoToken,      \* the token presented
         new |-> NoToken,      \* the token created
         seen |-> "ACTIVE",    \* the status read from the database
         miss |-> FALSE,       \* get_current_user: cached_status is None
         active |-> FALSE,     \* history: the replica had the account active
         barred |-> FALSE]     \* history: the token was logged out from the start

Init ==
  /\ status = "ACTIVE" /\ replica = "ACTIVE"
  /\ wal = <<>>
  /\ refresh = NoToken
  /\ cache = None
  /\ blacklist = {} /\ late = {} /\ loggedOut = {}
  /\ issued = {}
  /\ last = NoToken
  /\ family = [t \in Tokens |-> t]
  /\ proc = [h \in Handlers |-> Idle]
  /\ changes = 0
  /\ faults = 0
  /\ evalFaults = 0
  /\ uses = [t \in Tokens |-> 0]
  /\ ended = {}

Fault(kind) ==
  /\ kind \in Faults
  /\ faults < MaxFaults
  /\ faults' = faults + 1

RedisRaises(lost) ==
  /\ Fault(IF lost THEN "redisReplyLost" ELSE "redisError")
  /\ UNCHANGED evalFaults

(* A status cache write: done, or raised and only logged. *)
CacheBestEffort(value) ==
  \/ cache' = value /\ UNCHANGED noted
  \/ UNCHANGED cache /\ RedisRaises(FALSE)

At(h, pc) == proc[h].pc = pc
Goto(h, pc) == proc' = [proc EXCEPT ![h].pc = pc]
End(h) == proc' = [proc EXCEPT ![h] = Idle]

(* The family in user_refresh, none if the key does not exist. *)
Stored == IF refresh = NoToken THEN {} ELSE {family[refresh]}

(* SET user_refresh to token t of family f. *)
StoreToken(t, f) ==
  /\ refresh' = t
  /\ family' = [family EXCEPT ![t] = f]
  /\ ended' = ended \cup (Stored \ {f})

(* DEL user_refresh (revoke_refresh_for_user). *)
RevokeRefresh ==
  /\ refresh' = NoToken
  /\ ended' = ended \cup Stored
  /\ UNCHANGED family

(* Every commit reaches the replica later. *)
CommitStatus(s) ==
  /\ status' = s
  /\ wal' = Append(wal, s)
  /\ UNCHANGED replica

----------------------------------------------------------------------------
(* AuthService.login *)

(* The transaction: only an active account gets a token. *)
Login(h) ==
  /\ At(h, "idle")
  /\ status = "ACTIVE"
  /\ last < MaxTokens
  /\ last' = last + 1
  /\ proc' = [proc EXCEPT ![h] = [Idle EXCEPT !.pc = "loginStore", !.new = last + 1]]
  /\ UNCHANGED <<stored, issued, uses, account, cache, access, noted>>

LoginStore(h) ==
  /\ At(h, "loginStore")
  /\ StoreToken(proc[h].new, proc[h].new)
  /\ Goto(h, "loginCache")
  /\ UNCHANGED <<issued, last, uses, account, cache, access, noted>>

(* The SET raises and the login with it; the token may be stored anyway. *)
LoginStoreFails(h, lost) ==
  /\ At(h, "loginStore")
  /\ RedisRaises(lost)
  /\ IF lost THEN StoreToken(proc[h].new, proc[h].new) ELSE UNCHANGED stored
  /\ End(h)
  /\ UNCHANGED <<issued, last, uses, account, cache, access>>

LoginCache(h) ==
  /\ At(h, "loginCache")
  /\ CacheBestEffort("ACTIVE")
  /\ issued' = issued \cup {proc[h].new}
  /\ End(h)
  /\ UNCHANGED <<stored, last, uses, account, access>>

----------------------------------------------------------------------------
(* AuthService.refresh_tokens *)

(* The new token is created here rather than just before the rotation: it  *)
(* is not visible until then.                                              *)
Refresh(h, t) ==
  /\ At(h, "idle")
  /\ t \in issued
  /\ last < MaxTokens
  /\ last' = last + 1
  /\ proc' = [proc EXCEPT ![h] = [Idle EXCEPT !.pc = "refreshStatus", !.tok = t, !.new = last + 1]]
  /\ UNCHANGED <<stored, issued, uses, account, cache, access, noted>>

(* _ensure_user_may_refresh: the cached status decides, a miss asks the    *)
(* primary.                                                                *)
RefreshStatus(h) ==
  /\ At(h, "refreshStatus")
  /\ CASE cache = None -> Goto(h, "refreshDb")
       [] cache = "ACTIVE" -> Goto(h, "refreshRotate")
       [] OTHER -> End(h)
  /\ UNCHANGED <<stored, issued, last, uses, account, cache, access, noted>>

RefreshStatusFails(h) ==
  /\ At(h, "refreshStatus")
  /\ RedisRaises(FALSE)
  /\ Goto(h, "refreshDb")
  /\ UNCHANGED <<stored, issued, last, uses, account, cache, access>>

(* A withdrawn account is not found. *)
RefreshDb(h) ==
  /\ At(h, "refreshDb")
  /\ IF status = "WITHDRAWN"
     THEN End(h)
     ELSE proc' = [proc EXCEPT ![h].pc = "refreshFill", ![h].seen = status]
  /\ UNCHANGED <<stored, issued, last, uses, account, cache, access, noted>>

RefreshFill(h) ==
  /\ At(h, "refreshFill")
  /\ CacheBestEffort(proc[h].seen)
  /\ IF proc[h].seen = "ACTIVE" THEN Goto(h, "refreshRotate") ELSE End(h)
  /\ UNCHANGED <<stored, issued, last, uses, account, access>>

(* The token presented gives way to the new one, in the same family. *)
Rotate(h) ==
  /\ StoreToken(proc[h].new, family[proc[h].tok])
  /\ uses' = [uses EXCEPT ![proc[h].tok] = @ + 1]

(* Defect: the script compares only when the key exists. *)
RefreshRotateMissingKeyPasses(h) ==
  /\ At(h, "refreshRotate")
  /\ IF refresh \in {NoToken, proc[h].tok}
     THEN Rotate(h) /\ issued' = issued \cup {proc[h].new}
     ELSE UNCHANGED <<stored, uses, issued>>
  /\ End(h)
  /\ UNCHANGED <<last, account, cache, access, noted>>

(* Defect: the script only asks whether the key exists. *)
RefreshRotateUncompared(h) ==
  /\ At(h, "refreshRotate")
  /\ IF refresh # NoToken
     THEN Rotate(h) /\ issued' = issued \cup {proc[h].new}
     ELSE UNCHANGED <<stored, uses, issued>>
  /\ End(h)
  /\ UNCHANGED <<last, account, cache, access, noted>>

(* _REFRESH_ROTATE_CAS_LUA; a mismatch or a missing key is a 401. *)
RefreshRotate(h) ==
  /\ At(h, "refreshRotate")
  /\ IF refresh = proc[h].tok
     THEN Rotate(h) /\ issued' = issued \cup {proc[h].new}
     ELSE UNCHANGED <<stored, uses, issued>>
  /\ End(h)
  /\ UNCHANGED <<last, account, cache, access, noted>>

(* The script raises, perhaps after it ran: on to GET, compare, SET. *)
RefreshRotateFails(h, lost) ==
  /\ At(h, "refreshRotate")
  /\ Fault(IF lost THEN "redisReplyLost" ELSE "redisError")
  /\ evalFaults' = evalFaults + 1
  /\ IF lost /\ refresh = proc[h].tok THEN Rotate(h) ELSE UNCHANGED <<stored, uses>>
  /\ Goto(h, "seqGet")
  /\ UNCHANGED <<issued, last, account, cache, access>>

(* _refresh_rotation_sequential *)
SeqGet(h) ==
  /\ At(h, "seqGet")
  /\ IF refresh = proc[h].tok THEN Goto(h, "seqSet") ELSE End(h)
  /\ UNCHANGED <<stored, issued, last, uses, account, cache, access, noted>>

SeqSet(h) ==
  /\ At(h, "seqSet")
  /\ Rotate(h)
  /\ issued' = issued \cup {proc[h].new}
  /\ End(h)
  /\ UNCHANGED <<last, account, cache, access, noted>>

(* Either call raises: a 401, the new token perhaps stored. *)
SeqFails(h, lost) ==
  /\ proc[h].pc \in {"seqGet", "seqSet"}
  /\ RedisRaises(lost)
  /\ IF lost /\ At(h, "seqSet") THEN Rotate(h) ELSE UNCHANGED <<stored, uses>>
  /\ End(h)
  /\ UNCHANGED <<issued, last, account, cache, access>>

----------------------------------------------------------------------------
(* get_current_user; what the request is for matters once it is served *)

Authenticate(h, t) ==
  /\ At(h, "idle")
  /\ t \in issued
  /\ proc' = [proc EXCEPT ![h] =
       [Idle EXCEPT !.pc = "authJti", !.tok = t,
                    !.active = (replica = "ACTIVE"), !.barred = (t \in loggedOut)]]
  /\ UNCHANGED <<stored, issued, last, uses, account, cache, access, noted>>

(* _ensure_jti_not_blacklisted *)
AuthJti(h) ==
  /\ At(h, "authJti")
  /\ IF proc[h].tok \in blacklist THEN End(h) ELSE Goto(h, "authCache")
  /\ UNCHANGED <<stored, issued, last, uses, account, cache, access, noted>>

(* It fails open: this request is not barred any more. *)
AuthJtiFails(h) ==
  /\ At(h, "authJti")
  /\ RedisRaises(FALSE)
  /\ proc' = [proc EXCEPT ![h].pc = "authCache", ![h].barred = FALSE]
  /\ UNCHANGED <<stored, issued, last, uses, account, cache, access>>

(* Defect: a cached ACTIVE replaces the database read. *)
AuthCacheTrusted(h) ==
  /\ At(h, "authCache")
  /\ CASE cache = None -> proc' = [proc EXCEPT ![h].pc = "authDb", ![h].miss = TRUE]
       [] cache = "ACTIVE" -> Goto(h, "served")
       [] OTHER -> End(h)
  /\ UNCHANGED <<stored, issued, last, uses, account, cache, access, noted>>

(* A cached status can only refuse early; the row is read in any case. *)
AuthCache(h) ==
  /\ At(h, "authCache")
  /\ IF cache \in {None, "ACTIVE"}
     THEN proc' = [proc EXCEPT ![h].pc = "authDb", ![h].miss = (cache = None)]
     ELSE End(h)
  /\ UNCHANGED <<stored, issued, last, uses, account, cache, access, noted>>

AuthCacheFails(h) ==
  /\ At(h, "authCache")
  /\ RedisRaises(FALSE)
  /\ proc' = [proc EXCEPT ![h].pc = "authDb", ![h].miss = TRUE]
  /\ UNCHANGED <<stored, issued, last, uses, account, cache, access>>

(* The row as the replica has it; a withdrawn account is not found. *)
AuthDb(h) ==
  /\ At(h, "authDb")
  /\ CASE replica = "WITHDRAWN" -> End(h)
       [] replica \in Live /\ proc[h].miss ->
            proc' = [proc EXCEPT ![h].pc = "authFill", ![h].seen = replica]
       [] replica \in Live /\ ~proc[h].miss ->
            IF replica = "ACTIVE" THEN Goto(h, "served") ELSE End(h)
  /\ UNCHANGED <<stored, issued, last, uses, account, cache, access, noted>>

AuthFill(h) ==
  /\ At(h, "authFill")
  /\ CacheBestEffort(proc[h].seen)
  /\ IF proc[h].seen = "ACTIVE" THEN Goto(h, "served") ELSE End(h)
  /\ UNCHANGED <<stored, issued, last, uses, account, access>>

----------------------------------------------------------------------------
(* What authenticated requests do; the variables of the check are dropped *)

RevokeNext(h, pc) == proc' = [proc EXCEPT ![h] = [Idle EXCEPT !.pc = pc]]

Read(h) ==
  /\ At(h, "served") /\ "read" \in Requests
  /\ End(h)
  /\ UNCHANGED <<stored, issued, last, uses, account, cache, access, noted>>

(* SET blacklist:jti with the whole seconds the access token has left. *)
SetKey(t) ==
  /\ blacklist' = blacklist \cup {t}
  /\ loggedOut' = loggedOut \cup {t}
  /\ UNCHANGED late

(* AuthService.logout: blacklist the access token, then revoke.  In its    *)
(* last second the token has no whole second left and gets no key.         *)
LogoutBlacklist(h) ==
  /\ At(h, "served") /\ "logout" \in Requests
  /\ IF proc[h].tok \in late
     THEN loggedOut' = loggedOut \cup {proc[h].tok} /\ UNCHANGED <<blacklist, late>>
     ELSE SetKey(proc[h].tok)
  /\ RevokeNext(h, "revokeEnd")
  /\ UNCHANGED <<stored, issued, last, uses, account, cache, noted>>

LogoutBlacklistFails(h, lost) ==
  /\ At(h, "served") /\ "logout" \in Requests
  /\ proc[h].tok \notin late
  /\ RedisRaises(lost)
  /\ IF lost THEN SetKey(proc[h].tok) ELSE UNCHANGED access
  /\ End(h)
  /\ UNCHANGED <<stored, issued, last, uses, account, cache>>

(* The token runs out on the way: the router verifies it a second time,    *)
(* outside get_current_user, and that raises.                              *)
LogoutExpired(h) ==
  /\ At(h, "served") /\ "logout" \in Requests
  /\ proc[h].tok \in late
  /\ End(h)
  /\ UNCHANGED <<stored, issued, last, uses, account, cache, access, noted>>

(* update_password: the transaction checks the old password, then commits. *)
UpdatePassword(h) ==
  /\ At(h, "served") /\ "password" \in Requests
  /\ \/ status # "WITHDRAWN" /\ RevokeNext(h, "revokeEnd")
     \/ End(h)
  /\ UNCHANGED <<stored, issued, last, uses, account, cache, access, noted>>

(* delete_me revokes first. *)
DeleteMe(h) ==
  /\ At(h, "served") /\ "withdraw" \in Requests
  /\ RevokeNext(h, "revokeWithdraw")
  /\ UNCHANGED <<stored, issued, last, uses, account, cache, access, noted>>

DeleteUser(h) ==
  /\ At(h, "withdrawDb")
  /\ IF status = "WITHDRAWN"
     THEN End(h) /\ UNCHANGED account
     ELSE CommitStatus("WITHDRAWN") /\ Goto(h, "invalidate") /\ UNCHANGED changes
  /\ UNCHANGED <<stored, issued, last, uses, cache, access, noted>>

(* AdminService.suspend_user and activate_user: a withdrawn account is     *)
(* refused.                                                                *)
SuspendUser(h) ==
  /\ At(h, "idle")
  /\ status # "WITHDRAWN"
  /\ changes < MaxChanges
  /\ changes' = changes + 1
  /\ CommitStatus("SUSPENDED")
  /\ Goto(h, "revokeInvalidate")
  /\ UNCHANGED <<stored, issued, last, uses, cache, access, noted>>

ActivateUser(h) ==
  /\ At(h, "idle")
  /\ status # "WITHDRAWN"
  /\ changes < MaxChanges
  /\ changes' = changes + 1
  /\ CommitStatus("ACTIVE")
  /\ Goto(h, "invalidate")
  /\ UNCHANGED <<stored, issued, last, uses, cache, access, noted>>

(* What follows the DEL of user_refresh in each handler. *)
AfterRevoke(h) ==
  CASE At(h, "revokeEnd") -> End(h)
    [] At(h, "revokeWithdraw") -> Goto(h, "withdrawDb")
    [] At(h, "revokeInvalidate") -> Goto(h, "invalidate")

Revoking == {"revokeEnd", "revokeWithdraw", "revokeInvalidate"}

Revoke(h) ==
  /\ proc[h].pc \in Revoking
  /\ RevokeRefresh
  /\ AfterRevoke(h)
  /\ UNCHANGED <<issued, last, uses, account, cache, access, noted>>

(* The DEL raises out of the handler: nothing that follows is done. *)
RevokeFails(h, lost) ==
  /\ proc[h].pc \in Revoking
  /\ RedisRaises(lost)
  /\ IF lost THEN RevokeRefresh ELSE UNCHANGED stored
  /\ End(h)
  /\ UNCHANGED <<issued, last, uses, account, cache, access>>

(* invalidate_user_status_cache *)
Invalidate(h) ==
  /\ At(h, "invalidate")
  /\ CacheBestEffort(None)
  /\ End(h)
  /\ UNCHANGED <<stored, issued, last, uses, account, access>>

----------------------------------------------------------------------------
(* The environment *)

(* The replica applies the next change. *)
Replicate ==
  /\ wal # <<>>
  /\ replica' = Head(wal)
  /\ wal' = Tail(wal)
  /\ proc' = [h \in Handlers |-> [proc[h] EXCEPT !.active =
                                     @ \/ (proc[h].tok # NoToken /\ Head(wal) = "ACTIVE")]]
  /\ UNCHANGED <<stored, issued, last, uses, status, changes, cache, access, noted>>

(* Defect: the cache entry is written without a TTL. *)
CacheNeverExpires ==
  /\ FALSE
  /\ UNCHANGED vars

(* The status cache entry reaches its TTL. *)
CacheExpires ==
  /\ cache # None
  /\ cache' = None
  /\ UNCHANGED <<stored, issued, last, uses, account, access, proc, noted>>

(* The refresh token reaches its TTL. *)
RefreshExpires ==
  /\ refresh # NoToken
  /\ RevokeRefresh
  /\ UNCHANGED <<issued, last, uses, account, cache, access, proc, noted>>

(* Less than a second is left of access token t.  From here it may run out *)
(* at any time: it is then simply not presented any more.                  *)
LastSecond(t) ==
  /\ t \in issued \ late
  /\ Cardinality(late) < MaxLate
  /\ late' = late \cup {t}
  /\ UNCHANGED <<stored, issued, last, uses, account, cache, blacklist, loggedOut, proc, noted>>

(* Defect: the key gets a fixed TTL, shorter than what the token has left. *)
KeyExpiresEarly(t) ==
  /\ t \in blacklist
  /\ blacklist' = blacklist \ {t}
  /\ UNCHANGED <<stored, issued, last, uses, account, cache, late, loggedOut, proc, noted>>

(* The key of t reaches its TTL.  The TTL is what the token had left,      *)
(* rounded down to a second: the key may end before the token, by less     *)
(* than a second.                                                          *)
KeyExpires(t) ==
  /\ t \in blacklist \cap late
  /\ blacklist' = blacklist \ {t}
  /\ UNCHANGED <<stored, issued, last, uses, account, cache, late, loggedOut, proc, noted>>

Crash(h) ==
  /\ ~At(h, "idle")
  /\ Fault("crash")
  /\ End(h)
  /\ UNCHANGED <<stored, issued, last, uses, account, cache, access, evalFaults>>

----------------------------------------------------------------------------
(* A request arrives. *)
Begin(h) ==
  \/ "login" \in Requests /\ Login(h)
  \/ "refresh" \in Requests /\ \E t \in Tokens : Refresh(h, t)
  \/ Operations \cap Requests # {} /\ \E t \in Tokens : Authenticate(h, t)
  \/ "suspend" \in Requests /\ SuspendUser(h)
  \/ "activate" \in Requests /\ ActivateUser(h)

(* A handler goes on, its Redis calls answered. *)
Step(h) ==
  \/ LoginStore(h) \/ LoginCache(h)
  \/ RefreshStatus(h) \/ RefreshDb(h) \/ RefreshFill(h) \/ RefreshRotate(h)
  \/ SeqGet(h) \/ SeqSet(h)
  \/ AuthJti(h) \/ AuthCache(h) \/ AuthDb(h) \/ AuthFill(h)
  \/ Read(h) \/ LogoutBlacklist(h) \/ LogoutExpired(h) \/ UpdatePassword(h)
  \/ DeleteMe(h) \/ DeleteUser(h) \/ Revoke(h) \/ Invalidate(h)

StepFails(h) ==
  \/ RefreshStatusFails(h) \/ AuthJtiFails(h) \/ AuthCacheFails(h)
  \/ \E lost \in BOOLEAN :
       \/ LoginStoreFails(h, lost) \/ RefreshRotateFails(h, lost) \/ SeqFails(h, lost)
       \/ LogoutBlacklistFails(h, lost) \/ RevokeFails(h, lost)
  \/ Crash(h)

Next ==
  \/ \E h \in Handlers : Begin(h) \/ Step(h) \/ StepFails(h)
  \/ Replicate \/ CacheExpires \/ RefreshExpires
  \/ \E t \in Tokens : LastSecond(t) \/ KeyExpires(t)

Spec == Init /\ [][Next]_vars

(* A handler that has begun runs on, the replica keeps applying changes    *)
(* and a cache entry reaches its TTL.                                      *)
FairSpec ==
  /\ Spec
  /\ \A h \in Handlers : WF_vars(Step(h))
  /\ WF_vars(Replicate)
  /\ WF_vars(CacheExpires)

----------------------------------------------------------------------------
(* A refresh token is rotated at most once, however many requests present  *)
(* it at the same time: the promise of the CAS script in refresh_tokens.   *)
(* Each failure of the script sends one request down the GET, compare, SET *)
(* path and so admits at most one more.                                    *)
RotatedOnce ==
  \A t \in Tokens : uses[t] <= 1 + evalFaults

(* Once a login's session has left user_refresh, revoked by a logout, a    *)
(* password change, a suspension or a withdrawal, replaced by another      *)
(* login or expired, no rotation in flight brings it back, unless the CAS  *)
(* script failed.                                                          *)
EndedSessionStaysEnded ==
  evalFaults = 0 => Stored \cap ended = {}

(* A request passes get_current_user only if the replica had the account   *)
(* active at some moment since the request began, whatever the status      *)
(* cache holds.                                                            *)
ServedWhileActive ==
  \A h \in Handlers : At(h, "served") => proc[h].active

(* A request that begins after a logout blacklisted its access token does  *)
(* not pass get_current_user, unless its own lookup of the blacklist       *)
(* failed open or the token is in its last second: the key, set with the   *)
(* remaining life rounded down, may end before the token, and a logout in  *)
(* that second sets none.                                                  *)
LoggedOutIsRefused ==
  \A h \in Handlers : At(h, "served") /\ proc[h].barred => proc[h].tok \in late

(* Once the status no longer changes, the status cache ends up holding     *)
(* that status or nothing, for good: an entry filled by a handler that     *)
(* read the row, or the replica, before the change outlives neither its    *)
(* TTL nor the handlers still in flight.                                   *)
CacheSettles ==
  <>[](cache \in {None, status})
============================================================================
