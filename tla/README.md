# TLA+ specifications of the PuppyTalk backend

The backend is a FastAPI application that runs as several instances over one
PostgreSQL database (with a read replica) and one Redis. No request handler is
alone: others run at the same time in the same process and in other processes,
Redis calls fail open, keys expire, and a process may die or be cancelled
between any two awaits. The specifications model the places where that
matters.

## Inventory

| Part | State | Operations | What is hard |
|---|---|---|---|
| view counting (`posts/services/post_service.py`, `main.py`) | `posts.view_count`, Redis buffer hash, drain keys, dedup keys, flush lock | `get_post_detail`, `flush_view_counts_to_db`, the flush loop | a flush during views, lock expiry, failed commits, lost replies, crash, cancellation |
| idempotent post creation (`api/dependencies/client.py`) | result and lock key per idempotency key, `posts` | before, success and failure hooks around `create_post` | two calls of one key, expiry, crash between commit and store |
| sessions (`auth/service.py`, `user_status_cache.py`, `api/dependencies/auth.py`) | `users.status`, `user_refresh`, `user:status`, `jti` blacklist, replica | login, refresh, logout, bearer check, password change, withdrawal, suspend, activate | rotation races, revocation during rotation, stale cache fills, replica lag |
| post activity (`likes`, `comments`, `reports`, `admin`, `posts/repository.py`) | counters on `posts`, rows of `post_likes`, `comments`, `reports` | like, unlike, comment, delete, report, blind, reset, purge | interleaved transactions, row lock order, stale checks |
| post editing, hashtags, trending (`posts`) | `posts`, `version`, `hashtags`, cached lists | `update_post`, `sync_post_hashtags`, trending | optimistic lock, concurrent hashtag inserts |
| cache aside (`infra/cache.py`) | value and lock key | `get_or_compute_json` | stampede lock expiry, waiters that give up |
| media (`media`, `infra/storage.py`, `core/cleanup.py`) | `images`, objects in `pending/` and permanent prefixes, upload tokens, cleanup locks | presign, confirm, claim, delete, two sweepers | copy then delete, sweep against attach |
| chat and fan-out (`chat`, `infra/pubsub.py`) | rooms, messages, read marks, sockets, subscriptions | send, fan-out, list, mark read, connect | duplicate rooms, own messages, reconnects |
| notifications (`notifications`, `infra/sns.py`, `worker`) | rows, SSE queues, delivery marks, Celery tasks | publish after commit, stream, deliver once | full queues, retries, inline fallback and worker together |
| rate limiting (`core/middleware/rate_limit.py`) | Redis window, in-memory windows | `check_fixed_window` | eviction, switch between the two |
| users, blocks, dogs | `users`, `user_blocks`, `dog_profiles` | profile, block toggle, list replacement | check then write |

`PROJECT.json` lists every component with its status, and every hazard at the
line where it bites.

## Modules

| Module | Models | Run or proof |
|---|---|---|
| `ViewCounter` | view counting | `MCViewCounter`, `ViewCounterProofs` |
| `PostIdempotency` | idempotent post creation | `MCPostIdempotency`, `PostIdempotencyProofs` |
| `Session` | refresh tokens, status cache, blacklist | `MCSession`, `SessionProofs` |
| `PostActivity` | likes, comments, reports, moderation, withdrawal and purge | `MCPostActivity`, `PostActivityProofs` |
| `Media` | presigned upload, confirmation, upload tokens, attach, release, delete, withdrawal | through `MediaCleanup` |
| `MediaCleanup` | `Media` with the two cleanup jobs and the administrator's sweep | `MCMediaCleanup`, `MediaProofs` |
| `FanOut` | Redis Pub/Sub between instances | through `Chat`, `NotificationStream` |
| `ChatTables` | rows of rooms and messages, and a message's transaction | through `Chat`, `ChatRooms` |
| `Chat` | direct messages over `FanOut`, opening a room, blocks, suspension | `MCChat` |
| `ChatRooms` | list of rooms, read marks and scrolling, on a replica | `MCChat` |
| `NotificationTable` | rows of notifications, replica, paged list, retention | `MCServices` |
| `NotificationStream` | SSE queues and `publish_after_commit` over both | `MCServices` |
| `DeliveryPromise` | what `deliver_once` promises (abstract) | refined by `SnsDelivery` |
| `SnsDelivery` | Celery task, inline fallback, `deliver_once` | `MCServices`, `SnsDeliveryProofs` |
| `RateLimit` | fixed windows in Redis and memory, WebSocket gate | `MCChat` |
| `CacheAside` | `get_or_compute_json`, trending pool and overlay | `MCServices` |
| `DogProfiles` | list replacement and representative | `MCServices`, `DogProfilesProofs` |
| `PostEditing` | `update_post`, hashtags, versions | `MCServices`, `PostEditingProofs` |
| `FaultBudget` | the counter of faults of `Chat`, `RateLimit`, `SnsDelivery`, `NotificationStream` and `CacheAside` | |

One action is what a handler does between two points where another actor can
get in: one Redis call, or one SQL statement that may wait for a row lock.
Each process has its control state (`rpc`, `fpc`, `pc`, `proc`), named for the
call that comes next. A failing call is an action of its own, whose name ends
in `Fails`; with a *lost reply* the call takes effect and then raises. Faults
are taken from the constant `Faults`, at most `MaxFaults` in a behaviour.
Operators introduced by *Defect* are plausible mistakes in the code; no
specification uses them, each exists to show that a property notices it.

**ViewCounter.** A view is named by the request that made it, so `buffer`,
`drain` and `base` are sets of requests and `counted` says how often a request
was added to the database. `ReadPost` ... are the steps of `get_post_detail`;
`TakeLock` ... `Unlock` those of `flush_view_counts_to_db`; the Lua scripts are
single steps.

**PostIdempotency.** A post is named by the request that created it. `result`
and `lock` are the two Redis keys; `late` remembers which requests were sent
after a 201 for their key.

**Session.** One account. A refresh token is a number in order of issue and
`family` tells which login it descends from. `wal` is the sequence of
committed statuses the replica has not applied. `proc` holds the local
variables of each handler; which operation an authenticated request performs
is chosen once `get_current_user` has let it through, on which it has no
influence. The refresh TTL is positive and Redis is
configured, as in production. An access token whose last second has begun is
`late`: logout computes the TTL of the blacklist key by rounding down
(`_remaining_ttl_seconds_from_access_payload`), so that a late token gets no
key, and a key may end (`KeyExpires`) once its token is late.
`LoggedOutIsRefused` is stated for tokens that are not late. A token that has
run out is not presented any more; the router of logout verifies it a second
time, and may find it expired there (`LogoutExpired`). The clocks of the
instances and of Redis are taken to agree.

**PostActivity.** One post; posts share no rows. A transaction runs statement
by statement at READ COMMITTED: a statement waits for rows held by others,
and the writes become visible at the commit. A statement that writes several
rows takes them in one step, so waits between two such statements over the
order of their rows are not covered. The exception is the purge: a `DELETE`
from `users` goes through the rows that refer to the account one by one
(`CascadeRow`). The notification that a like or a comment inserts in the same
transaction locks the row of the post's author through its foreign key
(`NotifyLike`, `NotifyComment`), which is where a purge of the author meets it;
what is published after the commit is in the notification model. An account
is purged weeks after its withdrawal, so that none of its requests is in
progress by then. Replies, and likes and reports of comments, repeat the same
statements on the row of a comment.

**Media, MediaCleanup.** An image is a number, in the order of its id; its
object is in `pending` or in `object`, its row in `image`, and `held` says what
refers to it. A request (`req`) goes through `confirm_upload`, signup, profile
and post changes call by call: S3, Redis and PostgreSQL are three systems with
no common transaction. `sweep` is the run of a job: lock, page by cursor,
delete the files one by one, delete the rows. `selected` remembers which images
a job picked while nothing referred to them or they had no uploader.

**FanOut, ChatTables, Chat, ChatRooms.** `wire[i]` is what the subscription of
instance `i` has not read; Redis keeps nothing for an instance that is away.
`Chat` stores a message in one transaction and then serves local sockets and
publishes; `message` is ordered as (`created_at`, `id`), which need not be the
order of the commits. `ChatRooms` has the same transactions as far as the
tables go, and the REST requests that read them: `mark_room_read` writes to the
primary, the list of rooms and the pages come from the replica (`get_slave_db`,
`rest.py:48` and `:93`), which applies the commits in `wal` later and in order.
Delivery reads nothing that `ChatRooms` adds, so the two are checked beside
each other and not as a product.

**NotificationTable, NotificationStream.** `reaching` holds the events that
are owed to an open stream; a full queue drops the event and the debt. The list
is read page by page on a replica that lags.

**DeliveryPromise, SnsDelivery.** The promise: an attempt begins only without
a receipt, or blindly when receipts cannot be read; an attempt sends one copy
at most; a receipt exists only for what was sent. `SnsDelivery` has the workers
and the inline task of each notification as *runners*, the broker as a set of
tasks with their number of retries, and implements the promise with the
runners between the check and the answer of SNS as `trying`. `self.retry`
publishes a task, which the broker may not take (`RetryFails`): Celery then
rejects the running task without queueing it again, and the notification is in
`dropped`. A publish that the AWS client repeats by itself counts as one copy.

**RateLimit.** A tick is half a second, because the code rounds to whole
seconds. `admitted` counts the requests let through by age, `evicted` the
windows a full table dropped before their end. The bound of `LimitIsKept` is
`(2 * MaxCount - 1) * (1 + instances) + MaxCount * evicted`: Redis and every
instance have a window of their own, each of which has at most one neighbour in
the time of a window.

**CacheAside.** Posts are classified by age only, as the three windows of
`TrendingPostService` do.

**DogProfiles, PostEditing.** Transactions statement by statement at READ
COMMITTED: each sees what is committed and what it wrote itself, and waits for
rows another has written. `bulk_update_by_owner` hands a list of parameter sets
to an ORM `UPDATE` with a `WHERE` clause, which SQLAlchemy 2.0 (2.0.48 in
`uv.lock`) refuses, so that in `DogProfiles` a replacement that keeps a dog fails
and rolls back (`UpdateDogs`). In `PostEditing` the links of a post carry the
version that inserted them, so that a row deleted and inserted again is another
row. Sessions do not autoflush, so that the versioned `UPDATE` is sent by
`COMMIT`, after the hashtags.

**MCServices** checks six parts that share no state in one run: `part`
chooses one in the initial state, so that their state spaces add up. `MCChat`
does the same with delivery, rooms, and the rate limits without and with the
gate of a WebSocket.

## Runs

| Run | Instance | Shows |
|---|---|---|
| `view_counter_faults` | 2 posts, 1 viewer, 2 requests, 2 flushers, all faults, at most 2 | a view is counted at most once plus once per lost reply; a response counts no view twice; the flush lock is only lost to a fault |
| `view_counter_no_loss` | 2 viewers, failed transactions and lock expiry | no view is lost, one view per viewer, every buffered view is flushed |
| `post_idempotency` | 4 requests, 2 keys, all faults, at most 2 | bound on concurrent creations, replay after an answer, no orphan lock, answers name committed posts |
| `post_idempotency_race` | 2 requests, 1 key, no fault | *violation*: two posts for one key |
| `session_rotation` | 2 handlers, 3 tokens, login, refresh, logout, password change, read, 1 token in its last second, all faults, at most 2 | a token is rotated once, an ended session stays ended, a logged-out access token is refused |
| `session_status` | 2 handlers, 2 tokens, login, refresh, withdrawal, 2 suspensions or activations, a Redis error | nobody is served on the cache alone, the cache settles |
| `post_activity` | 2 transactions, 2 users, one of them the author, 2 comments, 2 reports, threshold 2 | exact counters, blind at the threshold, circles of waits need a `delete_post` or a purge |
| `post_report_reset` | 2 transactions, 1 user, 1 comment, 2 reports | *violation*: a live report is not listed |
| `media_upload` | 2 clients, 1 member, 2 signups, 1 token, 2 images, 1 instance, all faults, at most 1 | a token claims one image once, an object without a row is in hand or the price of a fault |
| `media_sweep` | 1 client, 1 member who may leave, 2 images, an instance and an administrator, batches of 1, an object that is never deleted, at most 1 fault | a referenced image keeps its file, an orphan behind a stuck one is swept |
| `chat` | delivery: 2 users on 2 instances, 2 messages, 2 REST requests of one of them, at most 1 fault; rooms: 3 users, 3 messages, 3 reads of one of them, pages of 1 or 2; limits: 2 instances, 3 keys, 2 requests a window, 2 slots in memory, 2 outages, 1 eviction | order and no duplicates, nothing owed is lost without a fault, blocks; unread marks up to the lag of the replica, complete scrolling; limits |
| `services` | for each part: 1 notification and 2 workers; 3 streams on 2 instances, queues of 1; 2 viewers, 2 posts; 2 transactions on 2 old dogs or none; 2 edits on an old and a new post, 3 hashtag lists; at most 3 faults | the refinement of `DeliveryPromise`, delivery in spite of faults, complete streams and lists, the shared pool, dogs, hashtags |

Two actors of each kind suffice for the races the properties are about, each
of which is between two; the second fault covers a fault while another is
being handled; in `Media` the undoing of the row of a failed signup confirm
(`UndoRowFails`) may meet one fault beyond the bound, for the same reason.
Uploads before signup (`Uploaders`) happen where there is someone to sign up,
in `media_upload`. Notifications share nothing but the workers, so one is
enough; its task may be delivered to both workers. Three tokens allow a rotation and a
login beside it. Two reports at threshold 2 reach it together or one after the
other, and one may follow a blind that was lifted; more are left to the proof.
Three messages and pages of one or two give a scroll a first, a middle and a
last page whose limit may change on the way. Two images and batches of one give the sweep a stuck image in
front of another and a second page; pages and queues of one make every second
item a boundary. One retry against two faults is the case in which a task just
survives, or not; the third fault lets its retry fail as well. The three hashtag lists have a name typed in two ways, one
that exists, and one that normalises to nothing. In the dogs part a third transaction may
empty the list before the other two (`DogBound`), which then meet the unique
index. `LimitBound` in `MCChat` uses the keys
whose requests are not counted only while Redis is away, where they take slots
of the table; two outages and one eviction reach the bound of `LimitIsKept`
exactly, without and with the eviction. Both users of `chat` send; one of them also makes the REST
requests (`Callers`, `Readers`), so that each direction of a block and of a read
mark is met. Two tabs of one user on one instance do not occur in `chat`:
`SendPersonal` treats the sockets of a user there as a set.

Deadlock is checked except for `Session`, `chat` and `services`, where the
bounds on tokens, messages, requests and edits let everything come to rest.

**Fairness.** `ViewCounter`: weak fairness of each flusher's step, since
`main.py` runs the flush in a loop for as long as the process lives.
`Session`: weak fairness of each handler in progress (the event loop resumes
it), of replication, and of the expiry of `user:status` (a TTL of 240 s).
`MediaCleanup`: weak fairness of each instance's loop (`core/cleanup.py`) and
of the TTL of the job locks, which a crashed holder leaves behind; none of the
administrator. `SnsDelivery`: weak fairness of workers taking tasks and of
tasks that run. No fairness is assumed of clients.

## Findings

* `post_idempotency_race`: the before hook looks up the result, then takes the
  lock, and does not look again. A request that missed the result before the
  first request stored it and locks after the first released creates a second
  post. ADR 0008 says duplicates are prevented without a unique constraint,
  and names only a crash and the fail-open window as exceptions.
* `post_report_reset`: a report committed between the two statements of
  `reset_post_reports` stays live while its increment is overwritten by 0, and
  the admin feed selects on `report_count > 0`. The comment there promises
  that a post reported again is listed.

Met while modelling, and stated with the properties that avoid them rather than
as runs of their own:

* The signup job selects images by `uploader_id IS NULL` alone
  (`media/model.py:132`). The purge of an account sets that column to null, so
  that images its posts still show are taken for abandoned signup images; and
  a signup image may be attached before it is claimed. `HeldHasFile` exempts
  what a job selected without an uploader.
* An image attached between its selection by a job and the deletion of its file
  loses the file; `HeldHasFile` exempts what was selected before.
* The version conflict of two edits is raised by `COMMIT`, outside the `try`
  around `update_post` (`post_service.py:342-353`), which turns
  `StaleDataError` into the 409 of `common/exceptions.py:32` only for a
  conflict inside it.
* Two overlapping dog list replacements leave a mixture of both lists;
  `ListIsReplaced` says which: each deletes what it found and was not asked to
  keep, and neither deletes what the other created.
* A replacement that keeps a dog fails (see `UpdateDogs` above), although the
  docstring of `upsert_dog_profile` has it create, change and delete.
* The list of rooms read after `mark_room_read` may still show the room as
  unread while the replica lags; `docs/01-architecture.md:19` has reads after a
  write go to the primary. `UnreadIsFresh` allows what the replica has still to
  apply.
* The blacklist key of a logged-out access token ends up to a second before the
  token does.

## Proofs

All theorems hold for every value of the constants that satisfies the named
assumptions (finite sets, disjoint identifiers, natural bounds).

* `ViewCounterProofs`: `TypeOK`, `CountedAtMostOnce`,
  `ResponseCountsEachViewOnce`, `LockKept`, `NoViewLost`, `OneViewPerViewer`.
  None of the counting properties is inductive: the invariant adds that a view
  is at one place at a time (buffer, one drain, or database), unless a reply
  was lost, and that a request that has not yet made its view has left no
  trace. For one view per viewer, every view has the dedup key it was let in
  by, and a key lets in one request (`OwnedKeys`).
* `PostIdempotencyProofs`: `TypeOK`, `InFlightBound`,
  `RetryAfterAnswerReplays`, `NoOrphanLock`, `AnswerIsCommittedPost`. The
  bound is inductive once every request at work is paid for, by the lock or by
  a fault (`Paid`).
* `PostActivityProofs`: `TypeOK`, `LikeCountExact`, `CommentCountExact`,
  `BlindedAtThreshold`, `OrdinaryNeverDeadlock`. The invariant says what each
  statement's position implies about the row it is about and the rows it holds
  (`ByStatement`), and that no row is held twice (`Exclusive`). Among ordinary
  requests a waiting one then holds at most a row that comes earlier in the
  order own row, post, author than the row it waits for, so that in every set
  of them one waits for none of the others.
* `SessionProofs`: `RotatedOnce`, `EndedSessionStaysEnded`,
  `ServedWhileActive`, `LoggedOutIsRefused`. A token may be rotated once more
  for every request that has read it and may still pass the compare-and-set;
  the invariant (`Budget`) counts these chances together with the rotations
  made and bounds the sum by one and the failures of the script. `Families`
  says that a family which was stored and is not is never the one a request in
  flight would store, `Admission` what a request that has passed a check of
  `get_current_user` knows; a token logged out and not late has its key.
* `MediaProofs`: `TypeOK`, `TokenClaimsOnce`, `HeldHasFile`,
  `LeaksBoundedByFaults`. The invariant (`MediaInv`) says that the image a
  confirm is making is known to nobody else (`Private`), what each step of a
  request implies about the row and the object (`Progress`), that a row a
  response returned has its file unless a job selected it (`Kept`), that a
  claimed row is without uploader again only when it is a day old and by then
  no token names it (`Claims`, `Tokens`), and that the rows a sweeper deletes
  have no object (`Swept`). Objects without a row that no confirm and no
  deletion has in hand (`Leaked`) then grow only with a fault, by one.
* `SnsDeliveryProofs`: `KeyImpliesCopy` and `SnsImplementsPromise`, that
  `SnsSpec` implements `DeliveryPromise` for any notifications, workers and
  retries. The mapping needs two invariants: a runner that marks has had its
  message accepted, and a key is there only for an accepted message. With them
  every action is one step of the promise or a stutter.
* `DogProfilesProofs`: `DogListIsReplaced`. The invariant says what the
  position of a transaction that overlaps none implies about the rows it has
  written, that a row has one writer, and that at most one representative is
  committed or about to be, which is what the partial unique index waits for.
  For the exact list (`ListOK`): what a transaction has deleted by its next
  commit is what it read and was not asked to keep, and nobody has read a dog
  whose creator has not committed, so that the table is what the committed
  replacements make of it whatever their order.
* `PostEditingProofs`: `EditsDoNotMixHolds`. While a post has the version a
  writer read, the links that writer saw are still the links of the post, and
  what it deletes and inserts adds up to the tags it was given (`WriterOK`);
  versions only grow, so that an edit that was overtaken cannot pass the
  version check of `COMMIT`.

Only model-checked: all of `Chat`, `ChatRooms`, `NotificationStream`, `RateLimit` and
`CacheAside`; and the liveness properties `FlushedEventually`, `CacheSettles`,
`OrphanIsSwept` and `DispatchedIsSent`, which are beyond the prover.

## Not modelled

* List, search, feed and ranking queries (`posts`, `comments`, `users`,
  `admin`): they change no state, and what matters of them, cursors, is in
  `ChatRooms` and `NotificationTable`. The order of the trending pool is a number
  computed in SQL.
* Likes and reports of comments, and replies, repeat `PostActivity` on another
  row; editing a comment is one `UPDATE`.
* Encoding of identifiers and tokens, password hashing, schemas, configuration,
  error bodies, logging and metrics: conversions without shared state.
* Start-up, connection pools, health checks, and the event loop inside a Celery
  worker: wiring of libraries, with no rule of this program in it.
* Profile fields, nickname checks and the fields of a dog: single-row updates
  guarded by unique constraints.
