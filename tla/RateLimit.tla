----------------------------- MODULE RateLimit ------------------------------
(***************************************************************************)
(* Fixed-window limits, app/core/middleware/rate_limit.py: a counter in    *)
(* Redis shared by all instances; when Redis does not answer, a bounded    *)
(* in-memory table per instance for the critical keys and no limit for the *)
(* others.  The chat WebSocket (app/api/v1/chat/ws.py) adds a gate that    *)
(* refuses frames by itself for a while after a refusal.  A time is kept   *)
(* as the ticks until it comes, of half a second because the code rounds   *)
(* to whole seconds.                                                       *)
(***************************************************************************)
EXTENDS FaultBudget, Integers, FiniteSets, FiniteSetsExt

CONSTANTS
  Nodes,         \* API instances
  Keys,          \* limit keys, "kind:identifier"
  FailOpenKeys,  \* keys of the global limit
  ChatKey,       \* the key of the WebSocket connection
  ChatNode,      \* and its instance
  Window,        \* window_sec, in ticks
  MaxCount,      \* max_count
  MemoryKeys,    \* _MEMORY_MAX_KEYS
  MaxEvictions,  \* bound: live windows of a key that are evicted
  CloseAfter,    \* _REJECT_CLOSE_THRESHOLD
  Watched        \* the keys whose requests the history variables record

Second == 2

ASSUME LimitAssumption ==
  /\ FailOpenKeys \subseteq Keys \ {ChatKey}
  /\ ChatKey \in Keys /\ ChatNode \in Nodes
  /\ Watched \subseteq Keys \ FailOpenKeys
  /\ MaxEvictions \in Nat
  /\ {Window, MaxCount, MemoryKeys, CloseAfter} \subseteq Nat \ {0}
  /\ Window % Second = 0

VARIABLES
  redisDown, \* Redis does not answer
  shared,    \* the counters in Redis
  memory,    \* _memory_store of an instance: a function on the keys it has
  gate,      \* _RejectionGate of the connection
  admitted,  \* history: requests let through during the last Window ticks, by key and age
  evicted    \* history: windows a key has lost before their end

limitState == <<redisDown, shared, memory, gate, admitted, evicted>>
limitVars == <<limitState, faults>>

-----------------------------------------------------------------------------
(* A counter and what is left of its window (-1 once its end has passed);  *)
(* counts above the limit are equal.                                       *)
NoWindow == [count |-> 0, left |-> -1]

LimitInit ==
  /\ redisDown = FALSE
  /\ shared = [k \in Keys |-> NoWindow]
  /\ memory = [i \in Nodes |-> [k \in {} |-> NoWindow]]
  /\ gate = [left |-> 0, rejections |-> 0, window |-> 0, open |-> TRUE]
  /\ admitted = [k \in Watched |-> [age \in 0..(Window - 1) |-> 0]]
  /\ evicted = [k \in Watched |-> 0]

(* Defect: a new window does not count the request that opens it.          *)
CountedFromZero(c) ==
  IF c.left <= 0
  THEN [count |-> 0, left |-> Window]
  ELSE [c EXCEPT !.count = IF @ > MaxCount THEN @ ELSE @ + 1]

(* The next request on a counter: a new window once the old one has ended. *)
Counted(c) ==
  IF c.left <= 0
  THEN [count |-> 1, left |-> Window]
  ELSE [c EXCEPT !.count = IF @ > MaxCount THEN @ ELSE @ + 1]

(* _memory_evict_if_needed: a full table loses its ended windows, then the *)
(* one that ends first until it is not full; which of several is chosen    *)
(* is left open.                                                           *)
Evicted(i) ==
  LET m == memory[i]
      live == {k \in DOMAIN m : m[k].left >= 0}
      firsts == {k \in live : \A o \in live : m[k].left <= m[o].left}
  IN IF Cardinality(DOMAIN m) < MemoryKeys THEN {{}}
     ELSE IF Cardinality(live) < MemoryKeys THEN {DOMAIN m \ live}
     ELSE {{k} : k \in firsts}

(* _LUA_FIXED_WINDOW; TTL rounds to the nearest second.                    *)
CheckRedis(k) ==
  LET c == Counted(shared[k])
  IN [allowed |-> c.count <= MaxCount, retry |-> (c.left + Second \div 2) \div Second,
      counter |-> c]

(* _check_memory_fixed_window, after the eviction of some keys.            *)
CheckMemory(i, k, out) ==
  LET c == Counted(IF k \in DOMAIN memory[i] \ out THEN memory[i][k] ELSE NoWindow)
  IN [allowed |-> c.count <= MaxCount, retry |-> c.left \div Second,
      counter |-> c]

Admit(k) ==
  admitted' = IF k \in Watched THEN [admitted EXCEPT ![k][0] = @ + 1] ELSE admitted

-----------------------------------------------------------------------------
(* check_fixed_window, answered by Redis ...                               *)
LimitedByRedis(k) ==
  /\ ~redisDown
  /\ shared' = [shared EXCEPT ![k] = CheckRedis(k).counter]
  /\ UNCHANGED <<memory, evicted>>
  /\ IF CheckRedis(k).allowed THEN Admit(k) ELSE UNCHANGED admitted

(* ... let through because Redis failed and the limit is fail-open ...     *)
PassesUnlimited(k) ==
  /\ redisDown
  /\ k \in FailOpenKeys
  /\ UNCHANGED <<shared, memory, evicted>>
  /\ Admit(k)

(* ... or counted by the instance itself.                                  *)
LimitedByMemory(i, k, out) ==
  LET kept == DOMAIN memory[i] \ out
      check == CheckMemory(i, k, out)
  IN
  /\ redisDown
  /\ k \notin FailOpenKeys
  /\ memory' = [memory EXCEPT ![i] =
       [o \in kept \cup {k} |-> IF o = k THEN check.counter ELSE memory[i][o]]]
  /\ evicted' = [o \in Watched |->
       IF o \in out /\ memory[i][o].left > 0 THEN evicted[o] + 1 ELSE evicted[o]]
  /\ \A o \in Watched : evicted'[o] <= MaxEvictions
  /\ IF check.allowed THEN Admit(k) ELSE UNCHANGED admitted
  /\ UNCHANGED shared

(* RateLimitMiddleware on instance i.                                      *)
HttpRequest(i, k) ==
  /\ k # ChatKey
  /\ \/ LimitedByRedis(k)
     \/ PassesUnlimited(k)
     \/ \E out \in Evicted(i) : LimitedByMemory(i, k, out)
  /\ UNCHANGED <<redisDown, gate, faults>>

-----------------------------------------------------------------------------
(* register_rejection; at the threshold the connection is closed.          *)
RegisterRejection(retry, window) ==
  gate' = [left |-> Max({gate.left, Second * Max({retry, 1})}),
           rejections |-> gate.rejections + 1, window |-> window,
           open |-> gate.rejections + 1 < CloseAfter]

RegisterAllowed == gate' = [gate EXCEPT !.rejections = 0]

(* A frame within the suppressed time is refused without asking Redis.     *)
SuppressedFrame ==
  /\ gate.open
  /\ gate.left > 0
  /\ RegisterRejection(gate.left \div Second, gate.window)
  /\ UNCHANGED <<redisDown, shared, memory, admitted, evicted, faults>>

Gated(check) ==
  IF check.allowed THEN RegisterAllowed ELSE RegisterRejection(check.retry, check.counter.left)

Frame ==
  /\ gate.open
  /\ gate.left = 0
  /\ \/ LimitedByRedis(ChatKey) /\ Gated(CheckRedis(ChatKey))
     \/ \E out \in Evicted(ChatNode) :
          /\ LimitedByMemory(ChatNode, ChatKey, out)
          /\ Gated(CheckMemory(ChatNode, ChatKey, out))
  /\ UNCHANGED <<redisDown, faults>>

-----------------------------------------------------------------------------
(* Half a second passes; Redis forgets the counters whose window has ended. *)
Later(t, floor) == IF t > floor THEN t - 1 ELSE t

Tick ==
  /\ shared' = [k \in Keys |-> IF shared[k].left <= 1 THEN NoWindow ELSE [shared[k] EXCEPT !.left = @ - 1]]
  /\ memory' = [i \in Nodes |-> [k \in DOMAIN memory[i] |-> [memory[i][k] EXCEPT !.left = Later(@, -1)]]]
  /\ gate' = [gate EXCEPT !.left = Later(@, 0), !.window = Later(@, 0)]
  /\ admitted' = [k \in DOMAIN admitted |->
       [age \in 0..(Window - 1) |-> IF age = 0 THEN 0 ELSE admitted[k][age - 1]]]
  /\ UNCHANGED <<redisDown, evicted, faults>>

RedisGoesDown ==
  /\ ~redisDown
  /\ Fault("redisError")
  /\ redisDown' = TRUE
  /\ UNCHANGED <<shared, memory, gate, admitted, evicted>>

RedisAnswers ==
  /\ redisDown
  /\ redisDown' = FALSE
  /\ UNCHANGED <<shared, memory, gate, admitted, evicted, faults>>

LimitNext ==
  \/ \E i \in Nodes, k \in Keys : HttpRequest(i, k)
  \/ SuppressedFrame \/ Frame
  \/ Tick \/ RedisGoesDown \/ RedisAnswers

LimitSpec == LimitInit /\ faults = 0 /\ [][LimitNext]_limitVars

-----------------------------------------------------------------------------
(* However Redis comes and goes, within the length of a window Redis and   *)
(* the table of each instance let through at most MaxCount requests of a   *)
(* critical key in the window that is open and, because a window opens     *)
(* with a request, MaxCount - 1 in the one before; and MaxCount more for   *)
(* each window that a full table evicted before its end.  The gate of a    *)
(* WebSocket suppresses frames no longer than the window that refused one  *)
(* (rounded to a second) or one second after the last frame.               *)
LimitIsKept ==
  /\ \A k \in Watched :
       MapThenSumSet(LAMBDA age : admitted[k][age], 0..(Window - 1))
         <= (2 * MaxCount - 1) * (1 + Cardinality(Nodes)) + MaxCount * evicted[k]
  /\ gate.left <= Max({gate.window + Second \div 2, Second})
=============================================================================
