------------------------------ MODULE ServerPool ------------------------------
(***************************************************************************)
(* The backend pool of serverpool.go while requests choose from it:        *)
(* lbHandler's choice for a session that has no backend yet (SelectBackend *)
(* by region and score, GetNextPeerWeighted by ticket, and the handler's   *)
(* own last fallback) runs in many goroutines, the health checker changes  *)
(* Alive under them, and breakers open and lapse between their steps.      *)
(*                                                                         *)
(* Alive is read under each backend's own lock, so a scan of the pool is   *)
(* one step per backend.  The pool itself does not change while requests   *)
(* run (AddBackend is called before the server listens).  A score is       *)
(* reduced to what the choice needs: it is MaxFloat64 for an open breaker  *)
(* and otherwise some smaller number, so that either of two candidates     *)
(* may have the smaller one.                                               *)
(***************************************************************************)
EXTENDS HealthChecking, Integers, SequencesExt

CONSTANTS
  Regions,
  Pool,        \* ServerPool.backends in the order of AddBackend
  Weight,      \* Weight[b]
  Region,      \* Region[b]
  Default,     \* the region "default" (or ""), which asks for no region
  Nil,         \* no backend
  Handlers,    \* goroutines that serve requests
  MaxTickets,  \* bound: tickets drawn from ServerPool.current
  MaxEvents    \* bound: changes of the environment

ASSUME PoolAssumption ==
  /\ Pool \in Seq(Backends) /\ Backends = ToSet(Pool) /\ Len(Pool) > 0
  /\ IsInjective(Pool)
  /\ Weight \in [Backends -> Nat \ {0}]
  /\ Region \in [Backends -> Regions]
  /\ Default \notin Regions /\ Nil \notin Backends
  /\ IsFiniteSet(Handlers) /\ MaxTickets \in Nat /\ MaxEvents \in Nat

VARIABLES
  open,      \* the backend's breaker is in StateOpen
  current,   \* ServerPool.current
  pick,      \* pick[h]: the choice handler h is making
  events,    \* changes of the environment so far
  tally      \* history: choices made by ticket

vars == <<alive, reach, open, current, check, pick, events, tally>>

InRegion(b, r) == Region[b] = r

\* AddBackend lists b Weight times for the tickets, and in its region.
AddBackend(old, b) ==
  [weighted |-> old.weighted \o [k \in 1..Weight[b] |-> b],
   regions  |-> [r \in Regions |-> IF InRegion(b, r) THEN Append(old.regions[r], b)
                                  ELSE old.regions[r]]]

\* The lists after n calls of AddBackend, and those the requests see.
lists[n \in 0..Len(Pool)] ==
  IF n = 0 THEN [weighted |-> <<>>, regions |-> [r \in Regions |-> <<>>]]
  ELSE AddBackend(lists[n - 1], Pool[n])

weighted == lists[Len(Pool)].weighted
regions(r) == lists[Len(Pool)].regions[r]

\* A choice: where it is (pc), the region asked for, the candidates still to
\* read or to score (list) and those found (found), the best so far or the
\* chosen one (best), the slot of weighted to start at and how many slots were
\* read (start, i), and whether it is lbHandler's own fallback (second).  For
\* the properties only: the backends that were alive (steady), alive with the
\* breaker not open (good), or open (shut) at every moment of the choice.
Idle ==
  [pc |-> "idle", region |-> Default, list |-> <<>>, found |-> <<>>, best |-> Nil,
   start |-> 0, i |-> 0, second |-> FALSE, steady |-> {}, good |-> {}, shut |-> {}]

PCs == {"idle", "regional", "pool", "score", "ticket", "weighted", "routed", "unavailable"}

TypeOK ==
  /\ HealthTypeOK
  /\ check.next \in DOMAIN Pool
  /\ open \in [Backends -> BOOLEAN]
  /\ current \in 0..MaxTickets
  /\ \A h \in Handlers :
       /\ pick[h].pc \in PCs
       /\ pick[h].region \in Regions \cup {Default}
       /\ ToSet(pick[h].list) \cup ToSet(pick[h].found) \subseteq Backends
       /\ pick[h].best \in Backends \cup {Nil}
       /\ pick[h].start \in 1..Len(weighted) \cup {0}
       /\ pick[h].i \in 0..Len(weighted)
       /\ pick[h].second \in BOOLEAN
       /\ pick[h].pc = "routed" => pick[h].best \in Backends
  /\ events \in 0..MaxEvents
  /\ tally \in [Backends -> Nat]

\* main registers every backend as alive, with a new breaker.
Init ==
  /\ HealthInit
  /\ open = [b \in Backends |-> FALSE]
  /\ current = 0
  /\ pick = [h \in Handlers |-> Idle]
  /\ events = 0
  /\ tally = [b \in Backends |-> 0]

Step(h, p) == pick' = [pick EXCEPT ![h] = p]

-----------------------------------------------------------------------------
(* A request chooses *)

\* getHealthyByRegion reads regions[region] first, unless no region is asked
\* for; then SelectBackend goes straight to GetNextPeerWeighted.
Arrive(h, r) ==
  /\ pick[h].pc = "idle"
  /\ Step(h, [Idle EXCEPT
       !.pc = IF r = Default THEN "ticket" ELSE "regional",
       !.region = r,
       !.list = IF r = Default THEN <<>> ELSE regions(r),
       !.steady = {b \in Backends : alive[b]},
       !.good = {b \in Backends : alive[b] /\ ~open[b]},
       !.shut = {b \in Backends : open[b]}])
  /\ UNCHANGED <<alive, reach, open, current, check, events, tally>>

\* The next backend of the region is asked for its health, then, if the region
\* has no healthy one, every backend of the pool.
Scan(h) ==
  LET p == pick[h] IN
  /\ p.pc \in {"regional", "pool"} /\ p.list # <<>>
  /\ Step(h, [p EXCEPT !.list = Tail(@),
                       !.found = IF alive[Head(p.list)] THEN Append(@, Head(p.list)) ELSE @])
  /\ UNCHANGED <<alive, reach, open, current, check, events, tally>>

ScanEndsNoFallback(h) ==  \* mutant: the pool is not scanned for an empty region
  LET p == pick[h] IN
  /\ p.pc \in {"regional", "pool"} /\ p.list = <<>>
  /\ Step(h, [p EXCEPT !.pc = IF p.found # <<>> THEN "score" ELSE "unavailable",
                       !.list = p.found])
  /\ UNCHANGED <<alive, reach, open, current, check, events, tally>>

ScanEnds(h) ==
  LET p == pick[h] IN
  /\ p.pc \in {"regional", "pool"} /\ p.list = <<>>
  /\ \/ p.found # <<>> /\ Step(h, [p EXCEPT !.pc = "score", !.list = p.found])
     \/ p.found = <<>> /\ p.pc = "regional" /\ Step(h, [p EXCEPT !.pc = "pool", !.list = Pool])
     \/ p.found = <<>> /\ p.pc = "pool" /\ Step(h, [p EXCEPT !.pc = "ticket"])
  /\ UNCHANGED <<alive, reach, open, current, check, events, tally>>

ScoreAnyway(h) ==  \* mutant: an open breaker does not spoil the score
  LET p == pick[h]  b == Head(pick[h].list) IN
  /\ p.pc = "score" /\ p.list # <<>>
  /\ \E best \in {b} \cup ({p.best} \ {Nil}) :
       Step(h, [p EXCEPT !.list = Tail(@), !.best = best])
  /\ UNCHANGED <<alive, reach, open, current, check, events, tally>>

\* The next candidate is scored; MaxFloat64 is never less than the best so far.
Score(h) ==
  LET p == pick[h]  b == Head(pick[h].list) IN
  /\ p.pc = "score" /\ p.list # <<>>
  /\ \E best \in IF open[b] THEN {p.best} ELSE {b} \cup ({p.best} \ {Nil}) :
       Step(h, [p EXCEPT !.list = Tail(@), !.best = best])
  /\ UNCHANGED <<alive, reach, open, current, check, events, tally>>

ScoreEndsUnchecked(h) ==  \* mutant: nil is returned as if it were a backend
  LET p == pick[h] IN
  /\ p.pc = "score" /\ p.list = <<>>
  /\ Step(h, [p EXCEPT !.pc = "routed", !.found = <<>>])
  /\ UNCHANGED <<alive, reach, open, current, check, events, tally>>

\* The best is returned, or nil when every candidate was open: then lbHandler
\* falls back to GetNextPeerWeighted.
ScoreEnds(h) ==
  LET p == pick[h] IN
  /\ p.pc = "score" /\ p.list = <<>>
  /\ Step(h, IF p.best # Nil THEN [p EXCEPT !.pc = "routed", !.found = <<>>]
             ELSE [p EXCEPT !.pc = "ticket", !.second = TRUE, !.found = <<>>])
  /\ UNCHANGED <<alive, reach, open, current, check, events, tally>>

TicketAfter(h) ==  \* mutant: the value after the increment picks the slot
  /\ pick[h].pc = "ticket" /\ current < MaxTickets
  /\ Step(h, [pick[h] EXCEPT !.pc = "weighted", !.i = 0,
                             !.start = 1 + ((current + 1) % Len(weighted))])
  /\ current' = current + 1
  /\ UNCHANGED <<alive, reach, open, check, events, tally>>

\* GetNextPeerWeighted draws a ticket: the slot of weighted to start at.
Ticket(h) ==
  /\ pick[h].pc = "ticket" /\ current < MaxTickets
  /\ Step(h, [pick[h] EXCEPT !.pc = "weighted", !.i = 0,
                             !.start = 1 + (current % Len(weighted))])
  /\ current' = current + 1
  /\ UNCHANGED <<alive, reach, open, check, events, tally>>

Slot(p) == weighted[1 + ((p.start - 1 + p.i) % Len(weighted))]

\* The next slot is asked for its health.
WeightedScan(h) ==
  LET p == pick[h] IN
  /\ p.pc = "weighted" /\ p.i < Len(weighted)
  /\ IF alive[Slot(p)]
     THEN /\ Step(h, [p EXCEPT !.pc = "routed", !.best = Slot(p)])
          /\ tally' = [tally EXCEPT ![Slot(p)] = @ + 1]
     ELSE /\ Step(h, [p EXCEPT !.i = @ + 1])
          /\ UNCHANGED tally
  /\ UNCHANGED <<alive, reach, open, current, check, events>>

\* No slot was alive.  Inside SelectBackend that is nil, and lbHandler calls
\* GetNextPeerWeighted once more before it answers 503.
WeightedEnds(h) ==
  LET p == pick[h] IN
  /\ p.pc = "weighted" /\ p.i = Len(weighted)
  /\ Step(h, IF p.second THEN [p EXCEPT !.pc = "unavailable"]
             ELSE [p EXCEPT !.pc = "ticket", !.second = TRUE])
  /\ UNCHANGED <<alive, reach, open, current, check, events, tally>>

\* The request is served, or refused with 503.
Finish(h) ==
  /\ pick[h].pc \in {"routed", "unavailable"}
  /\ Step(h, Idle)
  /\ UNCHANGED <<alive, reach, open, current, check, events, tally>>

Handle(h) ==
  \/ Scan(h) \/ ScanEnds(h) \/ Score(h) \/ ScoreEnds(h)
  \/ Ticket(h) \/ WeightedScan(h) \/ WeightedEnds(h) \/ Finish(h)

-----------------------------------------------------------------------------
(* Around the requests: HealthCheck runs over the pool, processes die and    *)
(* come back, breakers open and lapse                                       *)

\* The histories of the choices are kept.
StayAlive ==
  pick' = [h \in Handlers |-> [pick[h] EXCEPT !.steady = {b \in @ : alive'[b]},
                                             !.good = {b \in @ : alive'[b]}]]

HealthCheck ==
  /\ Dial(Pool) \/ SetAlive(Pool)
  /\ StayAlive
  /\ UNCHANGED <<open, current, events, tally>>

PeerFlaps(b) ==
  /\ events < MaxEvents
  /\ Flap(b)
  /\ events' = events + 1
  /\ UNCHANGED <<open, current, pick, tally>>

BreakerMoves(b) ==
  /\ events < MaxEvents
  /\ open' = [open EXCEPT ![b] = ~@]
  /\ pick' = [h \in Handlers |->
       IF open[b] THEN [pick[h] EXCEPT !.shut = @ \ {b}]
       ELSE [pick[h] EXCEPT !.good = @ \ {b}]]
  /\ events' = events + 1
  /\ UNCHANGED <<alive, reach, current, check, tally>>

Next ==
  \/ \E h \in Handlers : (\E r \in Regions \cup {Default} : Arrive(h, r)) \/ Handle(h)
  \/ HealthCheck
  \/ \E b \in Backends : PeerFlaps(b) \/ BreakerMoves(b)

Spec == Init /\ [][Next]_vars

-----------------------------------------------------------------------------
(* Properties *)

\* A request is answered 503 only if no backend stayed alive during the whole
\* of its choice: no interleaving of the scans with the health checker makes a
\* healthy backend invisible (getHealthyByRegion, GetNextPeerWeighted).
NoFalseOutage == \A h \in Handlers : pick[h].pc = "unavailable" => pick[h].steady = {}

\* If some backend of the region asked for stayed alive with its breaker not
\* open, the request goes to a backend of that region, and to none whose
\* breaker was open all along (SelectBackend, Score).
RegionAffinity ==
  \A h \in Handlers :
    pick[h].pc = "routed" /\ (\E b \in pick[h].good : InRegion(b, pick[h].region))
      => InRegion(pick[h].best, pick[h].region) /\ pick[h].best \notin pick[h].shut

\* The tickets of handlers that have not yet used them.
Pending(b) == {h \in Handlers : pick[h].pc = "weighted" /\ Slot(pick[h]) = b}

\* As long as every backend is alive, the choices by ticket are shared in the
\* proportion of the weights, however the handlers interleave: of the first n
\* tickets, backend b gets those whose slot of weighted is b's.
WeightedShare ==
  (\A b \in Backends : reach[b]) /\ events = 0 =>
    \A b \in Backends :
      tally[b] + Cardinality(Pending(b))
        = Cardinality({t \in 0..(current - 1) : weighted[1 + (t % Len(weighted))] = b})

=============================================================================
