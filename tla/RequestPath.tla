----------------------------- MODULE RequestPath ------------------------------
(***************************************************************************)
(* lbHandler of main.go from the choice of a backend to its return, in     *)
(* many goroutines, over backends that each have a breaker (BreakerOps)    *)
(* and a count of active requests.                                         *)
(*                                                                         *)
(* Each access to a breaker, to Alive and to active is atomic here: the    *)
(* choice is one step (ServerPool and StickySessions cut it where others   *)
(* can be seen), and State() is one step (CircuitBreaker has its race).    *)
(* What is kept is everything between the choice and the answer: other     *)
(* requests, and time, change the breaker that was looked at.  A score is  *)
(* an order in which no open breaker precedes the initial MaxFloat64.      *)
(***************************************************************************)
EXTENDS BreakerOps, FiniteSets

CONSTANTS
  Backends, Regions,
  Region,      \* Region[b]
  Clients,     \* clients, each with at most one session cookie
  Handlers,    \* goroutines that run lbHandler
  Nil,         \* no backend
  MaxTime,     \* bound: the clock stops here
  MaxCount     \* bound: requests a breaker admits in one period

ASSUME RequestPathAssumption ==
  /\ Region \in [Backends -> Regions]
  /\ Nil \notin Backends
  /\ IsFiniteSet(Handlers)

VARIABLES
  cb,        \* cb[b]: the CircuitBreaker of backend b
  alive,     \* alive[b]: Backend.Alive
  active,    \* active[b]: Backend.active
  home,      \* home[c]: the backend client c's session is assigned to
  h,         \* h[q]: where handler q is
  clock,     \* time.Now()
  aborted    \* history: aborted[b]: responses of b that were cut off, so many
             \* as it takes to trip a breaker

vars == <<cb, alive, active, home, h, clock, aborted>>

\* A handler: its place, the chosen backend, the generation of its breaker when
\* it was scored (for the properties only, until the request is admitted or
\* refused), and the one that admitted the request.
NoGeneration == -1
Idle == [pc |-> "idle", peer |-> Nil, scored |-> NoGeneration, admitted |-> NoGeneration]

\* Between IncrementActive and the deferred DecrementActive.
Counted == {"counted", "proxied", "refused", "answered", "panicking"}

HandlerState ==
  [pc : {"idle", "chosen", "unavailable"} \cup Counted, peer : Backends \cup {Nil},
   scored : Nat \cup {NoGeneration}, admitted : Nat \cup {NoGeneration}]

TypeOK ==
  /\ cb \in [Backends -> Breaker]
  /\ alive \in [Backends -> BOOLEAN]
  /\ active \in [Backends -> Nat]
  /\ home \in [Clients -> Backends \cup {Nil}]
  /\ h \in [Handlers -> HandlerState]
  /\ \A q \in Handlers : h[q].pc \notin {"idle", "unavailable"} => h[q].peer \in Backends
  /\ clock \in Nat
  /\ aborted \in [Backends -> 0..TripAfter]

Init ==
  /\ cb = [b \in Backends |-> NewCircuitBreaker]
  /\ alive = [b \in Backends |-> TRUE]
  /\ active = [b \in Backends |-> 0]
  /\ home = [c \in Clients |-> Nil]
  /\ h = [q \in Handlers |-> Idle]
  /\ clock = 0
  /\ aborted = [b \in Backends |-> 0]

At(pc, b) == [Idle EXCEPT !.pc = pc, !.peer = b]

\* Handler q goes on to pc, with nothing but its backend to remember.
Goto(q, pc) == h' = [h EXCEPT ![q] = At(pc, @.peer)]

\* Handler q has chosen b without looking at its breaker, or by its score.
Chosen(q, b) == h' = [h EXCEPT ![q] = At("chosen", b)]
Scored(q, b) == h' = [h EXCEPT ![q] = [At("chosen", b) EXCEPT !.scored = cb'[b].generation]]

Alive == {b \in Backends : alive[b]}

\* getHealthyByRegion
Candidates(r) ==
  LET inRegion == {b \in Alive : Region[b] = r} IN
  IF inRegion # {} THEN inRegion ELSE Alive

\* GetCircuitBreakerState of the backends in B: State() may end their periods.
StateOf(B) == [b \in Backends |-> IF b \in B THEN currentState(cb[b], clock) ELSE cb[b]]

-----------------------------------------------------------------------------
(* GetBackendForStickySession, SelectBackend and the handler's last fallback *)

\* The session has a backend, and it is alive: its breaker is not looked at.
BySession(q, c) ==
  /\ h[q].pc = "idle"
  /\ home[c] \in Alive
  /\ cb' = cb
  /\ Chosen(q, home[c])
  /\ UNCHANGED <<alive, active, home, clock, aborted>>

\* A request that has no usable session.
New(q, c) == h[q].pc = "idle" /\ home[c] \notin Alive

ByScoreAnyway(q, c, r) ==  \* mutant: an open breaker does not spoil the score
  /\ New(q, c)
  /\ cb' = StateOf(Candidates(r))
  /\ \E b \in Candidates(r) : Scored(q, b) /\ home' = [home EXCEPT ![c] = b]
  /\ UNCHANGED <<alive, active, clock, aborted>>

\* Every candidate is scored, which asks its breaker, and one that is not open
\* has the least score.
ByScore(q, c, r) ==
  /\ New(q, c)
  /\ cb' = StateOf(Candidates(r))
  /\ \E b \in Candidates(r) :
       /\ cb'[b].state # StateOpen
       /\ Scored(q, b)
       /\ home' = [home EXCEPT ![c] = b]
  /\ UNCHANGED <<alive, active, clock, aborted>>

\* All of them are open: SelectBackend returns nil, no session is assigned, and
\* the handler takes whichever backend is alive next by weight.
AllOpen(q, c, r) ==
  /\ New(q, c)
  /\ Candidates(r) # {}
  /\ cb' = StateOf(Candidates(r))
  /\ \A b \in Candidates(r) : cb'[b].state = StateOpen
  /\ \E b \in Alive : Chosen(q, b)
  /\ UNCHANGED <<alive, active, home, clock, aborted>>

\* No region was asked for: GetNextPeerWeighted, which looks at Alive only.
ByTicket(q, c) ==
  /\ New(q, c)
  /\ cb' = cb
  /\ \E b \in Alive : Chosen(q, b) /\ home' = [home EXCEPT ![c] = b]
  /\ UNCHANGED <<alive, active, clock, aborted>>

\* The session ID is empty: the policies are asked, and the backend they give is
\* taken alive or not; else it is some backend that is alive.  No session is
\* assigned (TrafficPolicies has the choice).
ByPolicy(q) ==
  /\ h[q].pc = "idle"
  /\ \E b \in Backends : Chosen(q, b)
  /\ UNCHANGED <<cb, alive, active, home, clock, aborted>>

NoBackendUnchecked(q, c) ==  \* mutant: a nil peer is not tested
  /\ New(q, c)
  /\ Alive = {}
  /\ Chosen(q, Nil)
  /\ UNCHANGED <<cb, alive, active, home, clock, aborted>>

\* 503, before anything is counted.
NoBackend(q, c) ==
  /\ New(q, c)
  /\ Alive = {}
  /\ Goto(q, "unavailable")
  /\ UNCHANGED <<cb, alive, active, home, clock, aborted>>

Choose(q, c) ==
  \/ BySession(q, c) \/ ByTicket(q, c) \/ ByPolicy(q) \/ NoBackend(q, c)
  \/ \E r \in Regions : ByScore(q, c, r) \/ AllOpen(q, c, r)

-----------------------------------------------------------------------------
(* The rest of lbHandler *)

\* The routing decision is logged with the breaker's state, which State()
\* returns, and the request becomes active.
Count(q) ==
  /\ h[q].pc = "chosen"
  /\ cb' = StateOf({h[q].peer})
  /\ active' = [active EXCEPT ![h[q].peer] = @ + 1]
  /\ h' = [h EXCEPT ![q].pc = "counted"]
  /\ UNCHANGED <<alive, home, clock, aborted>>

Admit(q) ==
  LET b == currentState(cb[h[q].peer], clock) IN
  /\ h[q].pc = "counted"
  /\ Admits(b) /\ b.counts.Requests < MaxCount
  /\ cb' = [cb EXCEPT ![h[q].peer] = admitted(b)]
  /\ h' = [h EXCEPT ![q] = [At("proxied", @.peer) EXCEPT !.admitted = b.generation]]
  /\ UNCHANGED <<alive, active, home, clock, aborted>>

\* ErrTooManyRequests, for an open and for a full half-open breaker: 503.
Refuse(q) ==
  LET b == currentState(cb[h[q].peer], clock) IN
  /\ h[q].pc = "counted"
  /\ ~Admits(b)
  /\ cb' = [cb EXCEPT ![h[q].peer] = b]
  /\ h' = [h EXCEPT ![q].pc = "refused"]
  /\ UNCHANGED <<alive, active, home, clock, aborted>>

\* Mutant: an outcome is counted whichever period admitted the request.
ReportLate(q, success) ==
  LET b == currentState(cb[h[q].peer], clock) IN
  cb' = [cb EXCEPT ![h[q].peer] = IF success THEN onSuccess(b, clock) ELSE onFailure(b, clock)]

\* afterRequest on the breaker of q's backend.
Report(q, success) ==
  LET b == currentState(cb[h[q].peer], clock) IN
  cb' = [cb EXCEPT ![h[q].peer] =
           IF b.generation # h[q].admitted THEN b
           ELSE IF success THEN onSuccess(b, clock) ELSE onFailure(b, clock)]

AnsweredByStatus(q) ==  \* mutant: the closure returns an error for a 5xx
  /\ h[q].pc = "proxied"
  /\ \E fine \in BOOLEAN : Report(q, fine)
  /\ Goto(q, "answered")
  /\ UNCHANGED <<alive, active, home, clock, aborted>>

\* The proxy has copied an answer, whatever its status, or written 502 for a
\* backend it could not reach; the closure returns no error in either case.
Answered(q) ==
  /\ h[q].pc = "proxied"
  /\ Report(q, TRUE)
  /\ Goto(q, "answered")
  /\ UNCHANGED <<alive, active, home, clock, aborted>>

\* The response is cut off while it is copied: the proxy panics with
\* http.ErrAbortHandler, Execute reports a failure and panics again.
Aborted(q) ==
  /\ h[q].pc = "proxied"
  /\ Report(q, FALSE)
  /\ aborted' = [aborted EXCEPT ![h[q].peer] = IF @ < TripAfter THEN @ + 1 ELSE @]
  /\ Goto(q, "panicking")
  /\ UNCHANGED <<alive, active, home, clock>>

LeaveUndeferred(q) ==  \* mutant: active is decremented at the returns only
  /\ h[q].pc \in {"unavailable", "refused", "answered", "panicking"}
  /\ active' = IF h[q].pc \in {"refused", "answered"}
               THEN [active EXCEPT ![h[q].peer] = @ - 1] ELSE active
  /\ h' = [h EXCEPT ![q] = Idle]
  /\ UNCHANGED <<cb, alive, home, clock, aborted>>

\* The handler returns, or the panic unwinds it; either runs what it deferred.
Leave(q) ==
  /\ h[q].pc \in {"unavailable", "refused", "answered", "panicking"}
  /\ active' = IF h[q].pc \in Counted THEN [active EXCEPT ![h[q].peer] = @ - 1] ELSE active
  /\ h' = [h EXCEPT ![q] = Idle]
  /\ UNCHANGED <<cb, alive, home, clock, aborted>>

Serve(q) == Count(q) \/ Admit(q) \/ Refuse(q) \/ Answered(q) \/ Aborted(q) \/ Leave(q)

-----------------------------------------------------------------------------
(* Around the requests *)

\* The dashboard and /metrics ask a breaker for its state.
Observe(b) ==
  /\ cb' = StateOf({b})
  /\ UNCHANGED <<alive, active, home, h, clock, aborted>>

\* A client's cookie expires, or it drops it: its next request is a new session.
Forget(c) ==
  /\ home' = [home EXCEPT ![c] = Nil]
  /\ UNCHANGED <<cb, alive, active, h, clock, aborted>>

\* The health checker marks a backend.
Mark(b) ==
  /\ alive' = [alive EXCEPT ![b] = ~@]
  /\ UNCHANGED <<cb, active, home, h, clock, aborted>>

Tick ==
  /\ clock < MaxTime
  /\ clock' = clock + 1
  /\ UNCHANGED <<cb, alive, active, home, h, aborted>>

Next ==
  \/ \E q \in Handlers : (\E c \in Clients : Choose(q, c)) \/ Serve(q)
  \/ \E c \in Clients : Forget(c)
  \/ \E b \in Backends : Observe(b) \/ Mark(b)
  \/ Tick

Spec == Init /\ [][Next]_vars

-----------------------------------------------------------------------------
(* Properties *)

\* Backend.active, which Score multiplies by, counts the handlers that are
\* between its increment and their end: a refusal, an answer and a panic of the
\* proxy each give it back once (the deferred function of lbHandler).
ActiveMatches ==
  \A b \in Backends :
    active[b] = Cardinality({q \in Handlers : h[q].pc \in Counted /\ h[q].peer = b})

\* A breaker has left the closed state only if as many responses of its backend
\* were cut off as trip it: answers of any status, and backends that cannot be
\* reached, never do, since the closure given to it returns no error.
AnswersNeverTrip ==
  \A b \in Backends : cb[b].state # StateClosed => aborted[b] >= TripAfter

\* A request sent to a backend because of its score is refused only if that
\* backend's breaker moved after the score was taken, or was half-open: no
\* request is sent to a breaker that was known to refuse it (Score,
\* SelectBackend, beforeRequest).
RefusedOnlyIfMoved ==
  \A q \in Handlers :
    h[q].pc = "refused" /\ h[q].scored # NoGeneration =>
      LET b == cb[h[q].peer] IN b.generation > h[q].scored \/ b.state = StateHalfOpen

\* Every breaker keeps its promise to its backend, however requests, observers
\* and aborted responses meet.
Promise(b) == INSTANCE BreakerPromise
  WITH mode <- cb[b].state,
       trials <- IF cb[b].state = StateHalfOpen THEN cb[b].counts.Requests ELSE 0

BreakersKeepPromise ==
  /\ \A b \in Backends : Promise(b)!Init
  /\ [][\A b \in Backends : [Promise(b)!Next]_(Promise(b)!promiseVars)]_vars

=============================================================================
