---------------------------- MODULE StickySessions ----------------------------
(***************************************************************************)
(* GetBackendForStickySession (serverpool.go) with StickySessionManager    *)
(* (redis.go) for one session, and lbHandler (main.go) from its call to    *)
(* the answer: sessions use different keys and meet only in the pool.      *)
(* Requests that carry the session's cookie are served by goroutines of    *)
(* one or more load balancer instances; each instance has its own map of   *)
(* assignments and its own view of which backends are alive.  Every call   *)
(* of the Redis client is a step of its own, and so is the answer to the   *)
(* client, which comes only after the request has been proxied.  The       *)
(* client's cookie outlives the servers: a request may carry a session     *)
(* that no instance knows.                                                 *)
(***************************************************************************)
EXTENDS Naturals

CONSTANTS
  Backends, Instances, Requests,
  Nil,
  Shared,       \* TRUE: one Redis; FALSE: a MockRedisClient per instance (main)
  RedisErrors   \* calls of the Redis client may fail

ASSUME SessionAssumption ==
  /\ Nil \notin Backends
  /\ Instances # {}
  /\ Shared \in BOOLEAN /\ RedisErrors \in BOOLEAN

VARIABLES
  redis,    \* redis[i]: BackendURL stored under the session's key, seen from i
  local,    \* local[i]: stickySessions[sessionID] of instance i
  alive,    \* alive[i]: the backends instance i holds for alive
  req,      \* req[q]: where request q is (pc), at which instance, and the
            \* backend it holds
  last,     \* history: the last answer the client had from a backend that every
            \* instance has held for alive since
  expect,   \* history: expect[q]: what last was when q began, on the same terms
  overlap   \* history: the client has begun a request while another was open

vars == <<redis, local, alive, req, last, expect, overlap>>

\* At "stored" and "unstored" the handler proxies to the backend it was given:
\* one that Redis holds for the session, as far as q can tell, or one it does not.
PCs == {"idle", "get", "touch", "find", "local", "check", "refresh", "select",
        "assign", "store", "fallback", "stored", "unstored"}
Proxying == {"stored", "unstored"}

Assigned == Backends \cup {Nil}

\* An answer: the backend it came from, and whether Redis had taken it.
Answers == [backend : Assigned, assigned : BOOLEAN]
None    == [backend |-> Nil, assigned |-> FALSE]

TypeOK ==
  /\ redis \in [Instances -> Assigned]
  /\ local \in [Instances -> Assigned]
  /\ alive \in [Instances -> SUBSET Backends]
  /\ req \in [Requests -> [pc : PCs, at : Instances, got : Assigned]]
  /\ \A q \in Requests :
       req[q].pc \in {"touch", "find", "refresh", "assign", "store"} \cup Proxying
         => req[q].got # Nil
  /\ last \in Answers
  /\ expect \in [Requests -> Answers]
  /\ overlap \in BOOLEAN

Init ==
  /\ redis = [i \in Instances |-> Nil]
  /\ local = [i \in Instances |-> Nil]
  /\ alive = [i \in Instances |-> Backends]
  /\ req = [q \in Requests |->
              [pc |-> "idle", at |-> CHOOSE i \in Instances : TRUE, got |-> Nil]]
  /\ last = None
  /\ expect = [q \in Requests |-> None]
  /\ overlap = FALSE

Goto(q, pc, got) == req' = [req EXCEPT ![q] = [@ EXCEPT !.pc = pc, !.got = got]]

-----------------------------------------------------------------------------
(* The Redis client *)

\* Set stores b under the session's key.  A Set that fails may have been
\* carried out all the same; either way the caller only logs the error.
Set(i, b, ok) ==
  LET stored == [j \in Instances |-> IF Shared \/ j = i THEN b ELSE redis[j]] IN
  \/ ok /\ redis' = stored
  \/ ~ok /\ RedisErrors /\ redis' \in {redis, stored}

-----------------------------------------------------------------------------
(* A request *)

Arrive(q, i) ==
  /\ req[q].pc = "idle"
  /\ req' = [req EXCEPT ![q] = [pc |-> "get", at |-> i, got |-> Nil]]
  /\ expect' = [expect EXCEPT ![q] = last]
  /\ overlap' = (overlap \/ \E p \in Requests : req[p].pc # "idle")
  /\ UNCHANGED <<redis, local, alive, last>>

RedisGetLocalFirst(q) ==  \* mutant: Redis is asked only if the map knows nothing
  /\ req[q].pc = "get"
  /\ LET b == redis[req[q].at] IN
     \/ local[req[q].at] # Nil /\ Goto(q, "local", Nil)
     \/ local[req[q].at] = Nil /\ b # Nil /\ Goto(q, "touch", b)
     \/ local[req[q].at] = Nil /\ b = Nil /\ Goto(q, "local", Nil)
  /\ UNCHANGED <<redis, local, alive, last, expect, overlap>>

\* GetSession reads the key; an unknown session is looked up in the map.
RedisGet(q) ==
  /\ req[q].pc = "get"
  /\ LET b == redis[req[q].at] IN
     \/ b # Nil /\ Goto(q, "touch", b)
     \/ b = Nil /\ Goto(q, "local", Nil)
  /\ UNCHANGED <<redis, local, alive, last, expect, overlap>>

\* A Get that fails is logged, and the request goes on as if the session were
\* unknown: it may be given another backend, and the old answers count no more.
RedisGetFails(q) ==
  /\ req[q].pc = "get" /\ RedisErrors
  /\ Goto(q, "local", Nil)
  /\ last' = None
  /\ expect' = [p \in Requests |-> None]
  /\ UNCHANGED <<redis, local, alive, overlap>>

\* updateSession writes back the session that was read, with a new LastAccess.
RedisTouch(q) ==
  /\ req[q].pc = "touch"
  /\ \E ok \in BOOLEAN : Set(req[q].at, req[q].got, ok)
  /\ Goto(q, "find", req[q].got)
  /\ UNCHANGED <<local, alive, last, expect, overlap>>

\* The stored backend is looked up in the pool and used if it is alive.
Find(q) ==
  /\ req[q].pc = "find"
  /\ \/ req[q].got \in alive[req[q].at] /\ Goto(q, "stored", req[q].got)
     \/ req[q].got \notin alive[req[q].at] /\ Goto(q, "local", Nil)
  /\ UNCHANGED <<redis, local, alive, last, expect, overlap>>

\* The map of the instance is read under its lock ...
LocalGet(q) ==
  /\ req[q].pc = "local"
  /\ Goto(q, "check", local[req[q].at])
  /\ UNCHANGED <<redis, local, alive, last, expect, overlap>>

\* ... and the entry used, after it was unlocked, if its backend is alive.
LocalCheck(q) ==
  /\ req[q].pc = "check"
  /\ \/ req[q].got \in alive[req[q].at] /\ Goto(q, "refresh", req[q].got)
     \/ req[q].got \notin alive[req[q].at] /\ Goto(q, "select", Nil)
  /\ UNCHANGED <<redis, local, alive, last, expect, overlap>>

LocalRefreshForgets(q) ==  \* mutant: Redis is not told of the map's backend
  /\ req[q].pc = "refresh"
  /\ Goto(q, "stored", req[q].got)
  /\ UNCHANGED <<redis, local, alive, last, expect, overlap>>

\* SetSession tells Redis of the backend found in the map.
LocalRefresh(q) ==
  /\ req[q].pc = "refresh"
  /\ \E ok \in BOOLEAN :
       Set(req[q].at, req[q].got, ok) /\ Goto(q, IF ok THEN "stored" ELSE "unstored", req[q].got)
  /\ UNCHANGED <<local, alive, last, expect, overlap>>

SelectUnchecked(q) ==  \* mutant: nil is assigned to the session
  /\ req[q].pc = "select"
  /\ \E b \in alive[req[q].at] \cup {Nil} : Goto(q, "assign", b)
  /\ UNCHANGED <<redis, local, alive, last, expect, overlap>>

\* SelectBackend as one step: some alive backend, or nil.  It is nil if none is
\* alive, and also if the breakers of all candidates are open, whatever other
\* backends there are; breakers are no state of this module.  SelectBackend's own
\* interleavings are ServerPool's.
Select(q) ==
  /\ req[q].pc = "select"
  /\ \/ \E b \in alive[req[q].at] : Goto(q, "assign", b)
     \/ Goto(q, "fallback", Nil)
  /\ UNCHANGED <<redis, local, alive, last, expect, overlap>>

\* stickySessions[sessionID] = backend
SetLocal(q) ==
  /\ req[q].pc = "assign"
  /\ local' = [local EXCEPT ![req[q].at] = req[q].got]
  /\ Goto(q, "store", req[q].got)
  /\ UNCHANGED <<redis, alive, last, expect, overlap>>

SetRedisSkipped(q) ==  \* mutant: a new assignment is kept in the map only
  /\ req[q].pc = "store"
  /\ Goto(q, "stored", req[q].got)
  /\ UNCHANGED <<redis, local, alive, last, expect, overlap>>

\* SetSession tells Redis of the new assignment.
SetRedis(q) ==
  /\ req[q].pc = "store"
  /\ \E ok \in BOOLEAN :
       Set(req[q].at, req[q].got, ok) /\ Goto(q, IF ok THEN "stored" ELSE "unstored", req[q].got)
  /\ UNCHANGED <<local, alive, last, expect, overlap>>

\* lbHandler's own GetNextPeerWeighted: some alive backend, which is assigned to
\* nobody, or 503.
Fallback(q) ==
  /\ req[q].pc = "fallback"
  /\ \/ \E b \in alive[req[q].at] : Goto(q, "unstored", b) /\ UNCHANGED expect
     \/ /\ alive[req[q].at] = {}
        /\ Goto(q, "idle", Nil) /\ expect' = [expect EXCEPT ![q] = None]
  /\ UNCHANGED <<redis, local, alive, last, overlap>>

\* The proxying ends: the client has its answer from the backend, or 503 from
\* lbHandler if the breaker refuses the request.
Answer(q) ==
  /\ req[q].pc \in Proxying
  /\ Goto(q, "idle", Nil)
  /\ \/ last' = IF \A i \in Instances : req[q].got \in alive[i]
                THEN [backend |-> req[q].got, assigned |-> req[q].pc = "stored"]
                ELSE None
     \/ UNCHANGED last
  /\ expect' = [expect EXCEPT ![q] = None]
  /\ UNCHANGED <<redis, local, alive, overlap>>

Serve(q) ==
  \/ RedisGet(q) \/ RedisGetFails(q) \/ RedisTouch(q) \/ Find(q)
  \/ LocalGet(q) \/ LocalCheck(q) \/ LocalRefresh(q)
  \/ Select(q) \/ SetLocal(q) \/ SetRedis(q)
  \/ Fallback(q) \/ Answer(q)

-----------------------------------------------------------------------------
(* Around the requests *)

\* The history without the answers of backend b.
Without(b, a) == IF a.backend = b THEN None ELSE a

\* The health checker of instance i finds b down, or up.
Down(i, b) ==
  /\ b \in alive[i]
  /\ alive' = [alive EXCEPT ![i] = @ \ {b}]
  /\ last' = Without(b, last)
  /\ expect' = [q \in Requests |-> Without(b, expect[q])]
  /\ UNCHANGED <<redis, local, req, overlap>>

Up(i, b) ==
  /\ b \notin alive[i]
  /\ alive' = [alive EXCEPT ![i] = @ \cup {b}]
  /\ UNCHANGED <<redis, local, req, last, expect, overlap>>

\* Instance i crashes and starts again, between any two steps of its requests:
\* its map and its requests are gone, and every backend is registered as alive.
\* A MockRedisClient dies with its instance, and with it what it was told.
Restart(i) ==
  /\ local' = [local EXCEPT ![i] = Nil]
  /\ alive' = [alive EXCEPT ![i] = Backends]
  /\ req' = [q \in Requests |->
       IF req[q].at = i THEN [req[q] EXCEPT !.pc = "idle", !.got = Nil] ELSE req[q]]
  /\ IF Shared
     THEN /\ expect' = [q \in Requests |-> IF req[q].at = i THEN None ELSE expect[q]]
          /\ UNCHANGED <<redis, last>>
     ELSE /\ redis' = [redis EXCEPT ![i] = Nil]
          /\ last' = None
          /\ expect' = [q \in Requests |-> None]
  /\ UNCHANGED overlap

Next ==
  \/ \E q \in Requests : (\E i \in Instances : Arrive(q, i)) \/ Serve(q)
  \/ \E i \in Instances : (\E b \in Backends : Down(i, b) \/ Up(i, b)) \/ Restart(i)

Spec == Init /\ [][Next]_vars

-----------------------------------------------------------------------------
(* Properties *)

\* For a client that awaits each answer: when nothing is in flight, Redis holds the
\* backend of the last answer, if it was told of it.  A restart of every instance
\* would lose nothing, and neither did the instances that crashed between the two
\* stores, or before they answered (RedisTouch, LocalRefresh, SetRedis, Restart).
RedisRemembers ==
  ~overlap /\ (\A q \in Requests : req[q].pc = "idle") /\ last.assigned
    => \A i \in Instances : redis[i] = last.backend

\* Request q is proxied to the backend that answered the one before it, if Redis
\* had taken that assignment.
Kept(q) ==
  req[q].pc \in Proxying /\ expect[q].assigned => req[q].got = expect[q].backend

\* A client that awaits each answer keeps the backend it was assigned, whichever
\* instance serves it, across restarts and whatever stores fail, as long as every
\* instance holds the backend for alive and no read fails (readme.md:177).  An
\* answer that was assigned to nobody (Fallback) promises nothing.
AssignmentKept == ~overlap => \A q \in Requests : Kept(q)

\* Backend b has the session: Redis holds it, it is alive, and no open request
\* holds anything else that it could still store.
Settled(b) ==
  /\ \A i \in Instances : redis[i] = b /\ b \in alive[i]
  /\ \A q \in Requests :
       \/ req[q].pc \in {"idle", "get", "fallback"} \cup Proxying
       \/ req[q].pc \in {"touch", "find"} /\ req[q].got = b

\* Once a backend has the session it keeps it, however many requests are open and
\* whatever the maps of the instances still say: only a read that fails, a backend
\* found down or the loss of a Redis that is not shared ends that, and until then
\* GetBackendForStickySession gives it to every request, those that arrive later
\* included.  Only those it gave none before fall back to another.
SettledStays ==
  [][\A b \in Backends :
       /\ Settled(b)
       /\ ~(\E q \in Requests : RedisGetFails(q))
       /\ ~(\E i \in Instances : Down(i, b) \/ (~Shared /\ Restart(i)))
       => /\ Settled(b)'
          /\ \A q \in Requests :
               /\ req[q].pc \notin Proxying \cup {"fallback"} /\ req'[q].pc \in Proxying
               => req'[q].got = b]_vars

-----------------------------------------------------------------------------
(* What the documentation says and the code does not do *)

\* readme.md:201: "Fixed: Concurrent access issues in distributed session
\* management".  A client keeps the backend it was assigned although it has
\* several requests open at once.
ConcurrentKept == \A q \in Requests : Kept(q)

=============================================================================
