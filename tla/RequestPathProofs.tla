--------------------------- MODULE RequestPathProofs ---------------------------
(***************************************************************************)
(* Theorems about RequestPath, for any sets of backends, regions, clients  *)
(* and handlers.  The inductive invariant is IInv: every breaker is sound  *)
(* for the requests it let through to its backend (Sound, BreakerOpsProofs) *)
(* and remembers no more failures than responses of its backend were cut   *)
(* off (Cut), active counts the handlers that hold a slot, and a handler   *)
(* that chose a backend by its score knows what its breaker was (Known).   *)
(***************************************************************************)
EXTENDS RequestPath, BreakerOpsProofs

\* The requests of the handlers f that backend b's breaker waits for, by the
\* generation that admitted them.
CallsTo(b, f) ==
  [q \in Handlers |-> IF f[q].pc = "proxied" /\ f[q].peer = b
                      THEN f[q].admitted ELSE NotRunning]

\* What handler state s knows of the breakers f: in the generation that was
\* scored, its backend's breaker is not open, and if it was full when the
\* request was refused it was half-open.
KnownTo(s, f) ==
  s.pc \in {"chosen", "counted", "refused"} /\ s.scored # NoGeneration =>
    LET b == f[s.peer] IN
    /\ s.scored <= b.generation
    /\ s.scored = b.generation =>
         /\ b.state # StateOpen
         /\ s.pc = "refused" => b.state = StateHalfOpen

\* The handlers of f that hold a slot of backend b.
Busy(b, f) == {q \in Handlers : f[q].pc \in Counted /\ f[q].peer = b}

IInv ==
  /\ TypeOK
  /\ \A b \in Backends : Sound(Handlers, cb[b], CallsTo(b, h))
  /\ \A b \in Backends : Cut(cb[b], aborted[b])
  /\ \A b \in Backends : active[b] = Cardinality(Busy(b, h))
  /\ \A q \in Handlers : KnownTo(h[q], cb)

\* What every step keeps, and does to the breakers.
StepOK == IInv' /\ \A b \in Backends : Promised(cb[b], cb'[b])

-----------------------------------------------------------------------------
(* Steps of a handler *)

\* Handler q becomes s, and the others stay.
Becomes(q, s) == s \in HandlerState /\ h' = [h EXCEPT ![q] = s]

LEMMA AtType ==
  ASSUME NEW pc \in {"idle", "chosen", "unavailable"} \cup Counted,
         NEW b \in Backends \cup {Nil}
  PROVE  /\ At(pc, b) \in HandlerState
         /\ At(pc, b).pc = pc /\ At(pc, b).peer = b
         /\ At(pc, b).scored = NoGeneration /\ At(pc, b).admitted = NoGeneration
BY DEF At, Idle, HandlerState

LEMMA Moved ==
  ASSUME TypeOK, NEW q \in Handlers, NEW s, Becomes(q, s)
  PROVE  /\ h' \in [Handlers -> HandlerState]
         /\ h'[q] = s
         /\ \A r \in Handlers : r # q => h'[r] = h[r]
BY DEF TypeOK, Becomes

\* The calls of every backend are typed.
LEMMA CallsToType ==
  ASSUME TypeOK, NEW b
  PROVE  CallsTo(b, h) \in CallsOf(Handlers) /\ IsFiniteSet(Handlers)
BY RequestPathAssumption
   DEF TypeOK, HandlerState, CallsTo, CallsOf, NoGeneration, NotRunning

\* A handler that is not with the backend before or after changes no call.
LEMMA CallsSame ==
  ASSUME TypeOK, NEW q \in Handlers, NEW s, Becomes(q, s), NEW b,
         ~(h[q].pc = "proxied" /\ h[q].peer = b), ~(s.pc = "proxied" /\ s.peer = b)
  PROVE  CallsTo(b, h') = CallsTo(b, h)
<1>1. \A r \in Handlers :
        (IF h'[r].pc = "proxied" /\ h'[r].peer = b THEN h'[r].admitted ELSE NotRunning)
          = IF h[r].pc = "proxied" /\ h[r].peer = b THEN h[r].admitted ELSE NotRunning
  BY Moved
<1>2. QED  BY <1>1 DEF CallsTo

LEMMA BusyFinite ==
  ASSUME NEW b, NEW f
  PROVE  IsFiniteSet(Busy(b, f)) /\ Cardinality(Busy(b, f)) \in Nat
<1>1. Busy(b, f) \in SUBSET Handlers  BY DEF Busy
<1>2. QED  BY <1>1, RequestPathAssumption, FS_Subset, FS_CardinalityType

\* A handler that keeps its slot, or keeps having none, changes no count.
LEMMA BusySame ==
  ASSUME TypeOK, NEW q \in Handlers, NEW s, Becomes(q, s),
         s.pc \in Counted <=> h[q].pc \in Counted,
         s.pc \in Counted => s.peer = h[q].peer,
         NEW b
  PROVE  Busy(b, h') = Busy(b, h)
<1>1. \A r \in Handlers :
        h'[r].pc \in Counted /\ h'[r].peer = b <=> h[r].pc \in Counted /\ h[r].peer = b
  BY Moved
<1>2. QED  BY <1>1 DEF Busy

LEMMA BusyMore ==
  ASSUME TypeOK, NEW q \in Handlers, NEW s, Becomes(q, s),
         s.pc \in Counted, h[q].pc \notin Counted, NEW b
  PROVE  Cardinality(Busy(b, h'))
           = IF s.peer = b THEN Cardinality(Busy(b, h)) + 1 ELSE Cardinality(Busy(b, h))
<1>1. CASE s.peer = b
  <2>1. q \notin Busy(b, h)  BY DEF Busy
  <2>2. Busy(b, h') = Busy(b, h) \cup {q}  BY <1>1, Moved DEF Busy
  <2>3. QED  BY <1>1, <2>1, <2>2, BusyFinite, FS_AddElement
<1>2. CASE s.peer # b
  <2>1. Busy(b, h') = Busy(b, h)  BY <1>2, Moved DEF Busy
  <2>2. QED  BY <1>2, <2>1
<1>3. QED  BY <1>1, <1>2

LEMMA BusyLess ==
  ASSUME TypeOK, NEW q \in Handlers, NEW s, Becomes(q, s),
         s.pc \notin Counted, h[q].pc \in Counted, NEW b
  PROVE  Cardinality(Busy(b, h'))
           = IF h[q].peer = b THEN Cardinality(Busy(b, h)) - 1 ELSE Cardinality(Busy(b, h))
<1>1. CASE h[q].peer = b
  <2>1. q \in Busy(b, h)  BY <1>1 DEF Busy
  <2>2. Busy(b, h') = Busy(b, h) \ {q}  BY <1>1, Moved DEF Busy
  <2>3. Cardinality(Busy(b, h) \ {q}) = Cardinality(Busy(b, h)) - 1
    BY <2>1, BusyFinite, FS_RemoveElement
  <2>4. QED  BY <1>1, <2>2, <2>3
<1>2. CASE h[q].peer # b
  <2>1. Busy(b, h') = Busy(b, h)  BY <1>2, Moved DEF Busy
  <2>2. QED  BY <1>2, <2>1
<1>3. QED  BY <1>1, <1>2

\* A slot that is given back was taken.
LEMMA BusyHolds ==
  ASSUME NEW q \in Handlers, h[q].pc \in Counted
  PROVE  Cardinality(Busy(h[q].peer, h)) > 0
<1>1. q \in Busy(h[q].peer, h)  BY DEF Busy
<1>2. QED  BY <1>1, BusyFinite, FS_EmptySet

\* What a handler knows of a breaker stays true however the breaker moves.
LEMMA KnownAdvances ==
  ASSUME NEW s \in HandlerState,
         s.pc \in {"chosen", "counted", "refused"} => s.peer \in Backends,
         NEW f \in [Backends -> Breaker], NEW g \in [Backends -> Breaker],
         \A b \in Backends : Advanced(f[b], g[b]), KnownTo(s, f)
  PROVE  KnownTo(s, g)
<1>1. SUFFICES ASSUME s.pc \in {"chosen", "counted", "refused"}, s.scored # NoGeneration
               PROVE  LET b == g[s.peer] IN
                      /\ s.scored <= b.generation
                      /\ s.scored = b.generation =>
                           /\ b.state # StateOpen
                           /\ s.pc = "refused" => b.state = StateHalfOpen
  BY DEF KnownTo
<1>2. /\ f[s.peer] \in Breaker /\ g[s.peer] \in Breaker /\ s.scored \in Nat
      /\ Advanced(f[s.peer], g[s.peer])
  BY <1>1 DEF HandlerState
<1>3. QED  BY <1>1, <1>2 DEF KnownTo, Advanced, Breaker

LEMMA KnownMoves ==
  ASSUME TypeOK, cb' \in [Backends -> Breaker],
         \A r \in Handlers : KnownTo(h[r], cb),
         \A b \in Backends : Advanced(cb[b], cb'[b]),
         NEW q \in Handlers, NEW s, Becomes(q, s), KnownTo(s, cb')
  PROVE  \A r \in Handlers : KnownTo(h'[r], cb')
<1>1. \A r \in Handlers : r # q => KnownTo(h[r], cb')
  BY KnownAdvances DEF TypeOK
<1>2. QED  BY <1>1, Moved

-----------------------------------------------------------------------------
(* Steps that ask breakers for their state *)

\* Every breaker is as it was, or as a look at it left it.
Looked ==
  /\ cb' \in [Backends -> Breaker]
  /\ \A b \in Backends : cb'[b] \in {cb[b], currentState(cb[b], clock)}

LEMMA StateOfLooks ==
  ASSUME TypeOK, NEW B, cb' = StateOf(B)
  PROVE  Looked
<1>1. \A b \in Backends : currentState(cb[b], clock) \in Breaker
  BY CurrentStateCases DEF TypeOK
<1>2. QED  BY <1>1 DEF Looked, StateOf, TypeOK

LEMMA SameLooks == TypeOK /\ cb' = cb => Looked
BY DEF TypeOK, Looked

LEMMA LookKeeps ==
  ASSUME IInv, Looked, NEW b \in Backends
  PROVE  /\ Sound(Handlers, cb'[b], CallsTo(b, h))
         /\ Cut(cb'[b], aborted[b])
         /\ Advanced(cb[b], cb'[b])
         /\ Promised(cb[b], cb'[b])
<1>1. /\ cb[b] \in Breaker /\ clock \in Nat /\ aborted[b] \in Nat
      /\ Sound(Handlers, cb[b], CallsTo(b, h)) /\ Cut(cb[b], aborted[b])
      /\ CallsTo(b, h) \in CallsOf(Handlers) /\ IsFiniteSet(Handlers)
  BY CallsToType, BreakerAssumption DEF IInv, TypeOK
<1>2. CASE cb'[b] = cb[b]
  BY <1>1, <1>2 DEF Advanced, Promised, Kept
<1>3. CASE cb'[b] = currentState(cb[b], clock)
  BY <1>1, <1>3, SoundCurrent, CurrentMoves, PromisedCurrent DEF Promised
<1>4. QED  BY <1>2, <1>3 DEF Looked

\* A handler that is not with a backend, before or after, moves on.
LEMMA LookingStep ==
  ASSUME IInv, TypeOK', Looked, NEW q \in Handlers, NEW s, Becomes(q, s),
         h[q].pc # "proxied", s.pc # "proxied", KnownTo(s, cb'),
         \A b \in Backends : active'[b] = Cardinality(Busy(b, h')),
         aborted' = aborted
  PROVE  StepOK
<1>1. TypeOK /\ cb' \in [Backends -> Breaker]  BY DEF IInv, Looked
<1>2. \A b \in Backends : CallsTo(b, h') = CallsTo(b, h)  BY <1>1, CallsSame
<1>3. \A b \in Backends : Sound(Handlers, cb'[b], CallsTo(b, h'))  BY <1>2, LookKeeps
<1>4. \A b \in Backends : Cut(cb'[b], aborted'[b])  BY LookKeeps
<1>5. \A r \in Handlers : KnownTo(h'[r], cb')
  BY <1>1, LookKeeps, KnownMoves DEF IInv
<1>6. QED  BY <1>3, <1>4, <1>5, LookKeeps DEF StepOK, IInv

\* No handler moves.
LEMMA StillStep ==
  ASSUME IInv, TypeOK', Looked, UNCHANGED <<h, active, aborted>>
  PROVE  StepOK
<1>1. \A b \in Backends : CallsTo(b, h') = CallsTo(b, h)  BY DEF CallsTo
<1>2. \A b \in Backends : Sound(Handlers, cb'[b], CallsTo(b, h'))  BY <1>1, LookKeeps
<1>3. \A b \in Backends : Cut(cb'[b], aborted'[b])  BY LookKeeps
<1>4. \A r \in Handlers : KnownTo(h[r], cb')
  BY LookKeeps, KnownAdvances DEF IInv, TypeOK, Looked
<1>5. QED  BY <1>2, <1>3, <1>4, LookKeeps DEF StepOK, IInv

-----------------------------------------------------------------------------
(* The choice of a backend *)

LEMMA ChoosesStep ==
  ASSUME IInv, Looked, NEW q \in Handlers, h[q].pc = "idle",
         NEW s, Becomes(q, s), s.pc \in {"chosen", "unavailable"},
         s.pc = "chosen" => s.peer \in Backends,
         s.scored # NoGeneration =>
           /\ s.pc = "chosen"
           /\ s.scored = cb'[s.peer].generation
           /\ cb'[s.peer].state # StateOpen,
         home' \in [Clients -> Backends \cup {Nil}],
         UNCHANGED <<alive, active, clock, aborted>>
  PROVE  StepOK
<1>1. TypeOK  BY DEF IInv
<1>2. TypeOK'
  <2>1. h' \in [Handlers -> HandlerState]  BY <1>1, Moved
  <2>2. \A r \in Handlers : h'[r].pc \notin {"idle", "unavailable"} => h'[r].peer \in Backends
    BY <1>1, Moved DEF TypeOK
  <2>3. QED  BY <1>1, <2>1, <2>2 DEF TypeOK, Looked
<1>3. s.pc \notin Counted /\ h[q].pc \notin Counted  BY DEF Counted
<1>4. \A b \in Backends : active'[b] = Cardinality(Busy(b, h'))
  BY <1>1, <1>3, BusySame DEF IInv
<1>5. KnownTo(s, cb')
  <2>1. s.scored # NoGeneration => cb'[s.peer] \in Breaker  BY DEF Looked
  <2>2. QED  BY <2>1 DEF KnownTo, Breaker
<1>6. QED  BY <1>2, <1>4, <1>5, LookingStep

LEMMA ChosenStep ==
  ASSUME IInv, Looked, NEW q \in Handlers, h[q].pc = "idle", NEW b \in Backends, Chosen(q, b),
         home' \in [Clients -> Backends \cup {Nil}],
         UNCHANGED <<alive, active, clock, aborted>>
  PROVE  StepOK
<1>1. h' = [h EXCEPT ![q] = At("chosen", b)]  BY DEF Chosen
<1>2. /\ At("chosen", b) \in HandlerState /\ At("chosen", b).pc = "chosen"
      /\ At("chosen", b).peer = b /\ At("chosen", b).scored = NoGeneration
  BY AtType
<1>3. Becomes(q, At("chosen", b))  BY <1>1, <1>2 DEF Becomes
<1>4. QED  BY <1>2, <1>3, ChoosesStep

LEMMA CandidatesAlive ==
  ASSUME NEW r, NEW b \in Candidates(r)
  PROVE  b \in Backends
BY DEF Candidates, Alive

LEMMA ChooseStep ==
  ASSUME IInv, NEW q \in Handlers, NEW c \in Clients, Choose(q, c)
  PROVE  StepOK
<1>1. TypeOK  BY DEF IInv
<1>2. CASE BySession(q, c)
  <2>1. home[c] \in Backends /\ Looked /\ home' = home /\ h[q].pc = "idle"
    BY <1>1, <1>2, SameLooks DEF BySession, Alive
  <2>2. home' \in [Clients -> Backends \cup {Nil}]  BY <1>1, <2>1 DEF TypeOK
  <2>3. QED  BY <1>2, <2>1, <2>2, ChosenStep DEF BySession
<1>3. CASE ByTicket(q, c)
  <2>1. PICK b \in Backends : Chosen(q, b) /\ home' = [home EXCEPT ![c] = b]
    BY <1>3 DEF ByTicket, Alive
  <2>2. home' \in [Clients -> Backends \cup {Nil}]  BY <1>1, <2>1 DEF TypeOK
  <2>3. Looked /\ h[q].pc = "idle" /\ UNCHANGED <<alive, active, clock, aborted>>
    BY <1>1, <1>3, SameLooks DEF ByTicket, New
  <2>4. QED  BY <2>1, <2>2, <2>3, ChosenStep
<1>4. CASE ByPolicy(q)
  <2>1. PICK b \in Backends : Chosen(q, b)  BY <1>4 DEF ByPolicy
  <2>2. /\ Looked /\ h[q].pc = "idle" /\ UNCHANGED <<alive, active, home, clock, aborted>>
    BY <1>1, <1>4, SameLooks DEF ByPolicy
  <2>3. home' \in [Clients -> Backends \cup {Nil}]  BY <1>1, <2>2 DEF TypeOK
  <2>4. QED  BY <2>1, <2>2, <2>3, ChosenStep
<1>5. CASE NoBackend(q, c)
  <2> DEFINE s == At("unavailable", h[q].peer)
  <2>1. /\ Looked /\ h[q].pc = "idle" /\ UNCHANGED <<alive, active, home, clock, aborted>>
        /\ h' = [h EXCEPT ![q] = s]
    BY <1>1, <1>5, SameLooks DEF NoBackend, New, Goto
  <2>2. h[q].peer \in Backends \cup {Nil}  BY <1>1 DEF TypeOK, HandlerState
  <2>3. s \in HandlerState /\ s.pc = "unavailable" /\ s.scored = NoGeneration
    BY <2>2, AtType
  <2>4. Becomes(q, s)  BY <2>1, <2>3 DEF Becomes
  <2>5. home' \in [Clients -> Backends \cup {Nil}]  BY <1>1, <2>1 DEF TypeOK
  <2> HIDE DEF s
  <2>6. QED  BY <2>1, <2>3, <2>4, <2>5, ChoosesStep
<1>6. ASSUME NEW r \in Regions, ByScore(q, c, r) PROVE StepOK
  <2>1. PICK b \in Candidates(r) :
          /\ cb'[b].state # StateOpen
          /\ h' = [h EXCEPT ![q] = [At("chosen", b) EXCEPT !.scored = cb'[b].generation]]
          /\ home' = [home EXCEPT ![c] = b]
    BY <1>6 DEF ByScore, Scored
  <2> DEFINE s == [At("chosen", b) EXCEPT !.scored = cb'[b].generation]
  <2>2. b \in Backends  BY CandidatesAlive
  <2>3. Looked /\ h[q].pc = "idle" /\ UNCHANGED <<alive, active, clock, aborted>>
    BY <1>1, <1>6, StateOfLooks DEF ByScore, New
  <2>4. cb'[b].generation \in Nat  BY <2>2, <2>3 DEF Looked, Breaker
  <2>5. /\ s \in HandlerState /\ s.pc = "chosen" /\ s.peer = b
        /\ s.scored = cb'[b].generation
    BY <2>2, <2>4, AtType DEF HandlerState
  <2>6. Becomes(q, s)  BY <2>1, <2>5 DEF Becomes
  <2>7. home' \in [Clients -> Backends \cup {Nil}]  BY <1>1, <2>1, <2>2 DEF TypeOK
  <2> HIDE DEF s
  <2>8. QED  BY <2>1, <2>2, <2>3, <2>5, <2>6, <2>7, ChoosesStep
<1>7. ASSUME NEW r \in Regions, AllOpen(q, c, r) PROVE StepOK
  <2>1. PICK b \in Backends : Chosen(q, b)  BY <1>7 DEF AllOpen, Alive
  <2>2. Looked /\ h[q].pc = "idle" /\ UNCHANGED <<alive, active, home, clock, aborted>>
    BY <1>1, <1>7, StateOfLooks DEF AllOpen, New
  <2>3. home' \in [Clients -> Backends \cup {Nil}]  BY <1>1, <2>2 DEF TypeOK
  <2>4. QED  BY <2>1, <2>2, <2>3, ChosenStep
<1>8. QED  BY <1>2, <1>3, <1>4, <1>5, <1>6, <1>7 DEF Choose

-----------------------------------------------------------------------------
(* The rest of lbHandler *)

LEMMA CountStep ==
  ASSUME IInv, NEW q \in Handlers, Count(q)
  PROVE  StepOK
<1> DEFINE s == [h[q] EXCEPT !.pc = "counted"]
<1>1. /\ TypeOK /\ h[q].pc = "chosen" /\ h[q].peer \in Backends /\ h[q] \in HandlerState
      /\ active' = [active EXCEPT ![h[q].peer] = @ + 1]
      /\ h' = [h EXCEPT ![q] = s]
      /\ UNCHANGED <<alive, home, clock, aborted>>
  BY DEF IInv, TypeOK, Count
<1>2. Looked  BY <1>1, StateOfLooks DEF Count
<1>3. /\ s \in HandlerState /\ s.pc = "counted" /\ s.peer = h[q].peer
      /\ s.scored = h[q].scored
  BY <1>1 DEF HandlerState, Counted
<1>4. Becomes(q, s)  BY <1>1, <1>3 DEF Becomes
<1> HIDE DEF s
<1>5. TypeOK'
  <2>1. h' \in [Handlers -> HandlerState]  BY <1>1, <1>4, Moved
  <2>2. \A r \in Handlers : h'[r].pc \notin {"idle", "unavailable"} => h'[r].peer \in Backends
    BY <1>1, <1>3, <1>4, Moved DEF TypeOK
  <2>3. active' \in [Backends -> Nat]  BY <1>1 DEF TypeOK
  <2>4. QED  BY <1>1, <1>2, <2>1, <2>2, <2>3 DEF TypeOK, Looked
<1>6. s.pc \in Counted /\ h[q].pc \notin Counted  BY <1>1, <1>3 DEF Counted
<1>7. \A b \in Backends : active'[b] = Cardinality(Busy(b, h'))
  <2>1. SUFFICES ASSUME NEW b \in Backends PROVE active'[b] = Cardinality(Busy(b, h'))
    OBVIOUS
  <2>2. Cardinality(Busy(b, h'))
          = IF s.peer = b THEN Cardinality(Busy(b, h)) + 1 ELSE Cardinality(Busy(b, h))
    BY <1>1, <1>4, <1>6, BusyMore
  <2>3. active[b] = Cardinality(Busy(b, h))  BY DEF IInv
  <2>4. active'[b] = IF s.peer = b THEN active[b] + 1 ELSE active[b]
    BY <1>1, <1>3 DEF TypeOK
  <2>5. QED  BY <2>2, <2>3, <2>4
<1>8. KnownTo(s, cb')
  <2>1. KnownTo(h[q], cb')
    BY <1>1, <1>2, LookKeeps, KnownAdvances DEF IInv, TypeOK, Looked
  <2>2. QED  BY <1>1, <1>3, <2>1 DEF KnownTo
<1>9. QED  BY <1>1, <1>2, <1>3, <1>4, <1>5, <1>7, <1>8, LookingStep

LEMMA RefuseStep ==
  ASSUME IInv, NEW q \in Handlers, Refuse(q)
  PROVE  StepOK
<1> DEFINE s == [h[q] EXCEPT !.pc = "refused"]
           p == h[q].peer
           b == currentState(cb[p], clock)
<1>1. /\ TypeOK /\ h[q].pc = "counted" /\ p \in Backends /\ h[q] \in HandlerState
      /\ ~Admits(b) /\ cb' = [cb EXCEPT ![p] = b]
      /\ h' = [h EXCEPT ![q] = s]
      /\ UNCHANGED <<alive, active, home, clock, aborted>>
  BY DEF IInv, TypeOK, Refuse
<1>2. b \in Breaker  BY <1>1, CurrentStateCases DEF TypeOK
<1>3. Looked /\ cb'[p] = b  BY <1>1, <1>2 DEF Looked, TypeOK
<1>4. /\ s \in HandlerState /\ s.pc = "refused" /\ s.peer = p /\ s.scored = h[q].scored
  BY <1>1 DEF HandlerState, Counted
<1>5. Becomes(q, s)  BY <1>1, <1>4 DEF Becomes
<1> HIDE DEF s
<1>6. TypeOK'
  <2>1. h' \in [Handlers -> HandlerState]  BY <1>1, <1>5, Moved
  <2>2. \A r \in Handlers : h'[r].pc \notin {"idle", "unavailable"} => h'[r].peer \in Backends
    BY <1>1, <1>4, <1>5, Moved DEF TypeOK
  <2>3. QED  BY <1>1, <1>3, <2>1, <2>2 DEF TypeOK, Looked
<1>7. s.pc \in Counted /\ h[q].pc \in Counted  BY <1>1, <1>4 DEF Counted
<1>8. \A x \in Backends : active'[x] = Cardinality(Busy(x, h'))
  BY <1>1, <1>4, <1>5, <1>7, BusySame DEF IInv
<1>9. KnownTo(s, cb')
  <2>1. KnownTo(h[q], cb')
    <3>1. KnownTo(h[q], cb) /\ \A x \in Backends : Advanced(cb[x], cb'[x])
      BY <1>3, LookKeeps DEF IInv
    <3>2. cb \in [Backends -> Breaker] /\ cb' \in [Backends -> Breaker]
      BY <1>1, <1>3 DEF TypeOK, Looked
    <3>3. QED  BY <1>1, <3>1, <3>2, KnownAdvances
  <2>2. b.state # StateOpen => b.state = StateHalfOpen
    BY <1>1, <1>2 DEF Admits, Breaker, BreakerState
  <2>3. QED  BY <1>1, <1>3, <1>4, <2>1, <2>2 DEF KnownTo
<1>10. QED  BY <1>1, <1>3, <1>4, <1>5, <1>6, <1>8, <1>9, LookingStep

\* Requests that reach or leave one backend's breaker, which becomes n.
LEMMA BreakerStep ==
  ASSUME IInv, TypeOK', NEW q \in Handlers, NEW s, Becomes(q, s), s.peer = h[q].peer,
         s.pc \in Counted, h[q].pc \in Counted,
         s.pc \notin {"chosen", "counted", "refused"} \/ s.scored = NoGeneration,
         h[q].peer \in Backends, NEW n \in Breaker, cb' = [cb EXCEPT ![h[q].peer] = n],
         Sound(Handlers, n, CallsTo(h[q].peer, h')), Cut(n, aborted'[h[q].peer]),
         Advanced(cb[h[q].peer], n), Promised(cb[h[q].peer], n),
         \A b \in Backends : b # h[q].peer => aborted'[b] = aborted[b],
         UNCHANGED active
  PROVE  StepOK
<1> DEFINE p == h[q].peer
<1>1. TypeOK /\ cb' \in [Backends -> Breaker] /\ cb'[p] = n
      /\ \A b \in Backends : b # p => cb'[b] = cb[b]
  BY DEF IInv, TypeOK
<1>2. \A b \in Backends : b # p => CallsTo(b, h') = CallsTo(b, h)
  BY <1>1, CallsSame
<1>3. \A b \in Backends : Sound(Handlers, cb'[b], CallsTo(b, h'))
  BY <1>1, <1>2 DEF IInv
<1>4. \A b \in Backends : Cut(cb'[b], aborted'[b])
  BY <1>1 DEF IInv
<1>5. \A b \in Backends : Advanced(cb[b], cb'[b]) /\ Promised(cb[b], cb'[b])
  BY <1>1 DEF Advanced, Promised, Kept
<1>6. \A b \in Backends : active'[b] = Cardinality(Busy(b, h'))
  BY <1>1, BusySame DEF IInv
<1>7. KnownTo(s, cb')  BY DEF KnownTo
<1>8. \A r \in Handlers : KnownTo(h'[r], cb')
  BY <1>1, <1>5, <1>7, KnownMoves DEF IInv
<1>9. QED  BY <1>3, <1>4, <1>5, <1>6, <1>8 DEF StepOK, IInv

LEMMA AdmitStep ==
  ASSUME IInv, NEW q \in Handlers, Admit(q)
  PROVE  StepOK
<1> DEFINE p == h[q].peer
           b == currentState(cb[p], clock)
           n == admitted(b)
           s == [At("proxied", p) EXCEPT !.admitted = b.generation]
<1>1. /\ TypeOK /\ h[q].pc = "counted" /\ p \in Backends
      /\ Admits(b) /\ cb' = [cb EXCEPT ![p] = n]
      /\ h' = [h EXCEPT ![q] = s]
      /\ UNCHANGED <<alive, active, home, clock, aborted>>
      /\ cb[p] \in Breaker /\ clock \in Nat /\ aborted[p] \in Nat
      /\ Sound(Handlers, cb[p], CallsTo(p, h)) /\ Cut(cb[p], aborted[p])
  BY BreakerAssumption DEF IInv, TypeOK, Admit
<1>2. /\ CallsTo(p, h) \in CallsOf(Handlers) /\ IsFiniteSet(Handlers)
      /\ CallsTo(p, h)[q] = NotRunning
  BY <1>1, CallsToType DEF CallsTo
<1>3. b \in Breaker /\ Sound(Handlers, b, CallsTo(p, h))  BY <1>1, <1>2, SoundCurrent
<1>4. /\ s \in HandlerState /\ s.pc = "proxied" /\ s.peer = p
      /\ s.admitted = b.generation
  <2>1. At("proxied", p) \in HandlerState
        /\ At("proxied", p).pc = "proxied" /\ At("proxied", p).peer = p
    BY <1>1, AtType DEF Counted
  <2>2. b.generation \in Nat  BY <1>3 DEF Breaker
  <2>3. QED  BY <2>1, <2>2 DEF HandlerState
<1>5. Becomes(q, s)  BY <1>1, <1>4 DEF Becomes
<1> HIDE DEF s
<1>6. CallsTo(p, h') = With(CallsTo(p, h), q, b.generation)
  <2>1. \A r \in Handlers :
          (IF h'[r].pc = "proxied" /\ h'[r].peer = p THEN h'[r].admitted ELSE NotRunning)
            = IF r = q THEN b.generation ELSE CallsTo(p, h)[r]
    BY <1>1, <1>4, <1>5, Moved DEF CallsTo
  <2>2. With(CallsTo(p, h), q, b.generation)
          = [r \in Handlers |-> IF r = q THEN b.generation ELSE CallsTo(p, h)[r]]
    BY DEF With, CallsTo
  <2>3. CallsTo(p, h') = [r \in Handlers |->
          IF h'[r].pc = "proxied" /\ h'[r].peer = p THEN h'[r].admitted ELSE NotRunning]
    BY <1>4, <1>5, <1>1, Moved DEF CallsTo
  <2>4. QED  BY <2>1, <2>2, <2>3
<1>7. n \in Breaker /\ Sound(Handlers, n, CallsTo(p, h'))
  BY <1>2, <1>3, <1>1, <1>6, SoundAdmitted
<1>8. Advanced(cb[p], n) /\ Cut(n, aborted[p]) /\ Promised(cb[p], n)
  <2>1. Advanced(cb[p], b) /\ Cut(b, aborted[p])  BY <1>1, CurrentMoves
  <2>2. Advanced(b, n) /\ Cut(n, aborted[p])  BY <1>1, <1>3, <2>1, AdmittedMoves
  <2>3. Advanced(cb[p], n)  BY <1>1, <1>3, <1>7, <2>1, <2>2, AdvancedTwice
  <2>4. Promised(cb[p], n)  BY <1>1, PromisedAdmitted
  <2>5. QED  BY <2>2, <2>3, <2>4
<1>9. TypeOK'
  <2>1. h' \in [Handlers -> HandlerState]  BY <1>1, <1>5, Moved
  <2>2. \A r \in Handlers : h'[r].pc \notin {"idle", "unavailable"} => h'[r].peer \in Backends
    BY <1>1, <1>4, <1>5, Moved DEF TypeOK
  <2>3. cb' \in [Backends -> Breaker]  BY <1>1, <1>7 DEF TypeOK
  <2>4. QED  BY <1>1, <2>1, <2>2, <2>3 DEF TypeOK
<1>10. s.pc \in Counted /\ h[q].pc \in Counted  BY <1>1, <1>4 DEF Counted
<1> HIDE DEF n
<1>11. QED  BY <1>1, <1>4, <1>5, <1>7, <1>8, <1>9, <1>10, BreakerStep

\* The end of Execute: the outcome is reported, and aborted counts a response
\* that was cut off.
LEMMA ReportStep ==
  ASSUME IInv, NEW q \in Handlers, NEW success \in BOOLEAN, NEW pc \in {"answered", "panicking"},
         h[q].pc = "proxied", Report(q, success), Goto(q, pc),
         UNCHANGED <<alive, active, home, clock>>,
         aborted' = IF success THEN aborted
                    ELSE [aborted EXCEPT ![h[q].peer] = IF @ < TripAfter THEN @ + 1 ELSE @]
  PROVE  StepOK
<1> DEFINE p == h[q].peer
           s == At(pc, p)
           n == Outcome(cb[p], CallsTo(p, h)[q], success, clock)
<1>1. /\ TypeOK /\ p \in Backends /\ h' = [h EXCEPT ![q] = s]
      /\ cb[p] \in Breaker /\ clock \in Nat /\ aborted[p] \in 0..TripAfter
      /\ Sound(Handlers, cb[p], CallsTo(p, h)) /\ Cut(cb[p], aborted[p])
  BY DEF IInv, TypeOK, Goto
<1>2. /\ CallsTo(p, h) \in CallsOf(Handlers) /\ IsFiniteSet(Handlers)
      /\ CallsTo(p, h)[q] = h[q].admitted
  BY <1>1, CallsToType DEF CallsTo
<1>3. cb' = [cb EXCEPT ![p] = n]  BY <1>2 DEF Report, Outcome
<1>4. /\ s \in HandlerState /\ s.pc = pc /\ s.peer = p /\ s.scored = NoGeneration
  BY <1>1, AtType DEF Counted
<1>5. Becomes(q, s)  BY <1>1, <1>4 DEF Becomes
<1> HIDE DEF s
<1>6. CallsTo(p, h') = With(CallsTo(p, h), q, NotRunning)
  <2>1. \A r \in Handlers :
          (IF h'[r].pc = "proxied" /\ h'[r].peer = p THEN h'[r].admitted ELSE NotRunning)
            = IF r = q THEN NotRunning ELSE CallsTo(p, h)[r]
    BY <1>1, <1>4, <1>5, Moved DEF CallsTo
  <2>2. With(CallsTo(p, h), q, NotRunning)
          = [r \in Handlers |-> IF r = q THEN NotRunning ELSE CallsTo(p, h)[r]]
    BY DEF With, CallsTo
  <2>3. CallsTo(p, h') = [r \in Handlers |->
          IF h'[r].pc = "proxied" /\ h'[r].peer = p THEN h'[r].admitted ELSE NotRunning]
    BY DEF CallsTo
  <2>4. QED  BY <2>1, <2>2, <2>3
<1>7. n \in Breaker /\ Sound(Handlers, n, CallsTo(p, h')) /\ Promised(cb[p], n)
  BY <1>1, <1>2, <1>6, OutcomeSound
<1> DEFINE k == IF ~success /\ aborted[p] < TripAfter THEN aborted[p] + 1 ELSE aborted[p]
<1>8. Advanced(cb[p], n) /\ Cut(n, k)
  BY <1>1, <1>2, OutcomeMoves
<1> HIDE DEF n
<1>9. /\ aborted'[p] = k /\ aborted' \in [Backends -> 0..TripAfter]
      /\ \A b \in Backends : b # p => aborted'[b] = aborted[b]
  <2>1. aborted \in [Backends -> 0..TripAfter]  BY <1>1 DEF TypeOK
  <2>2. CASE success
    <3>1. aborted' = aborted  BY <2>2
    <3>2. k = aborted[p]      BY <2>2
    <3>3. QED  BY <2>1, <3>1, <3>2
  <2>3. CASE ~success
    <3>1. aborted' = [aborted EXCEPT ![p] = IF @ < TripAfter THEN @ + 1 ELSE @]
      BY <2>3
    <3>2. k = IF aborted[p] < TripAfter THEN aborted[p] + 1 ELSE aborted[p]  BY <2>3
    <3>3. k \in 0..TripAfter  BY <1>1, <3>2, BreakerAssumption
    <3>4. aborted' = [aborted EXCEPT ![p] = k]  BY <3>1, <3>2
    <3> HIDE DEF k
    <3>5. QED  BY <1>1, <2>1, <3>3, <3>4
  <2>4. QED  BY <2>2, <2>3
<1> HIDE DEF k
<1>10. TypeOK'
  <2>1. h' \in [Handlers -> HandlerState]  BY <1>1, <1>5, Moved
  <2>2. \A r \in Handlers : h'[r].pc \notin {"idle", "unavailable"} => h'[r].peer \in Backends
    BY <1>1, <1>4, <1>5, Moved DEF TypeOK
  <2>3. cb' \in [Backends -> Breaker]  BY <1>1, <1>3, <1>7 DEF TypeOK
  <2>4. QED  BY <1>1, <1>9, <2>1, <2>2, <2>3 DEF TypeOK
<1>11. s.pc \in Counted /\ h[q].pc \in Counted  BY <1>1, <1>4 DEF Counted
<1>12. QED  BY <1>1, <1>3, <1>4, <1>5, <1>7, <1>8, <1>9, <1>10, <1>11, BreakerStep

LEMMA LeaveStep ==
  ASSUME IInv, NEW q \in Handlers, Leave(q)
  PROVE  StepOK
<1>1. /\ TypeOK /\ h[q].pc \in {"unavailable", "refused", "answered", "panicking"}
      /\ active' = IF h[q].pc \in Counted THEN [active EXCEPT ![h[q].peer] = @ - 1] ELSE active
      /\ h' = [h EXCEPT ![q] = Idle]
      /\ UNCHANGED <<cb, alive, home, clock, aborted>>
  BY DEF IInv, Leave
<1>2. Looked  BY <1>1, SameLooks
<1>3. Idle \in HandlerState /\ Idle.pc = "idle" /\ Idle.scored = NoGeneration
  BY DEF Idle, HandlerState
<1>4. Becomes(q, Idle)  BY <1>1, <1>3 DEF Becomes
<1>5. Idle.pc \notin Counted  BY <1>3 DEF Counted
<1>6. \A b \in Backends : active'[b] = Cardinality(Busy(b, h')) /\ active'[b] \in Nat
  <2>1. SUFFICES ASSUME NEW b \in Backends PROVE active'[b] = Cardinality(Busy(b, h'))
    BY BusyFinite
  <2>2. active[b] = Cardinality(Busy(b, h))  BY DEF IInv
  <2>3. CASE h[q].pc \in Counted
    <3>1. Cardinality(Busy(b, h'))
            = IF h[q].peer = b THEN Cardinality(Busy(b, h)) - 1 ELSE Cardinality(Busy(b, h))
      BY <1>1, <1>4, <1>5, <2>3, BusyLess
    <3>2. active'[b] = IF h[q].peer = b THEN active[b] - 1 ELSE active[b]
      BY <1>1, <2>3 DEF TypeOK
    <3>3. QED  BY <2>2, <3>1, <3>2
  <2>4. CASE h[q].pc \notin Counted
    <3>1. Busy(b, h') = Busy(b, h)  BY <1>1, <1>4, <1>5, <2>4, BusySame
    <3>2. active' = active  BY <1>1, <2>4
    <3>3. QED  BY <2>2, <3>1, <3>2
  <2>5. QED  BY <2>3, <2>4
<1>7. TypeOK'
  <2>1. h' \in [Handlers -> HandlerState]  BY <1>1, <1>4, Moved
  <2>2. \A r \in Handlers : h'[r].pc \notin {"idle", "unavailable"} => h'[r].peer \in Backends
    BY <1>1, <1>3, <1>4, Moved DEF TypeOK
  <2>3. active' \in [Backends -> Nat]
    <3>1. active' = [b \in Backends |-> active'[b]]  BY <1>1 DEF TypeOK
    <3>2. QED  BY <3>1, <1>6
  <2>4. QED  BY <1>1, <2>1, <2>2, <2>3 DEF TypeOK
<1>8. KnownTo(Idle, cb')  BY <1>3 DEF KnownTo
<1>9. h[q].pc # "proxied" /\ Idle.pc # "proxied"  BY <1>1, <1>3
<1>10. QED  BY <1>1, <1>2, <1>4, <1>6, <1>7, <1>8, <1>9, LookingStep

LEMMA ServeStep ==
  ASSUME IInv, NEW q \in Handlers, Serve(q)
  PROVE  StepOK
<1>1. CASE Answered(q)  BY <1>1, ReportStep DEF Answered
<1>2. CASE Aborted(q)   BY <1>2, ReportStep DEF Aborted
<1>3. QED  BY <1>1, <1>2, CountStep, AdmitStep, RefuseStep, LeaveStep DEF Serve

-----------------------------------------------------------------------------
(* Around the requests *)

LEMMA AroundStep ==
  ASSUME IInv, \/ \E c \in Clients : Forget(c)
               \/ \E b \in Backends : Observe(b) \/ Mark(b)
               \/ Tick
               \/ UNCHANGED vars
  PROVE  StepOK
<1>1. TypeOK  BY DEF IInv
<1>2. ASSUME NEW c \in Clients, Forget(c) PROVE StepOK
  <2>1. Looked  BY <1>1, <1>2, SameLooks DEF Forget
  <2>2. TypeOK'  BY <1>1, <1>2 DEF Forget, TypeOK
  <2>3. QED  BY <1>2, <2>1, <2>2, StillStep DEF Forget
<1>3. ASSUME NEW b \in Backends, Observe(b) PROVE StepOK
  <2>1. Looked  BY <1>1, <1>3, StateOfLooks DEF Observe
  <2>2. TypeOK'  BY <1>1, <1>3, <2>1 DEF Observe, TypeOK, Looked
  <2>3. QED  BY <1>3, <2>1, <2>2, StillStep DEF Observe
<1>4. ASSUME NEW b \in Backends, Mark(b) PROVE StepOK
  <2>1. Looked  BY <1>1, <1>4, SameLooks DEF Mark
  <2>2. TypeOK'  BY <1>1, <1>4 DEF Mark, TypeOK
  <2>3. QED  BY <1>4, <2>1, <2>2, StillStep DEF Mark
<1>5. CASE Tick
  <2>1. Looked  BY <1>1, <1>5, SameLooks DEF Tick
  <2>2. TypeOK'  BY <1>1, <1>5 DEF Tick, TypeOK
  <2>3. QED  BY <1>5, <2>1, <2>2, StillStep DEF Tick
<1>6. CASE UNCHANGED vars
  <2>1. Looked  BY <1>1, <1>6, SameLooks DEF vars
  <2>2. TypeOK'  BY <1>1, <1>6 DEF vars, TypeOK
  <2>3. QED  BY <1>6, <2>1, <2>2, StillStep DEF vars
<1>7. QED  BY <1>2, <1>3, <1>4, <1>5, <1>6

-----------------------------------------------------------------------------
(* The inductive invariant *)

LEMMA InitIInv == Init => IInv
<1> SUFFICES ASSUME Init PROVE IInv
  OBVIOUS
<1>1. NewCircuitBreaker \in Breaker
  BY DEF NewCircuitBreaker, Breaker, BreakerState, NoCounts, Counts, Time, ZeroTime
<1>2. TypeOK
  BY <1>1, BreakerAssumption DEF Init, TypeOK, Idle, HandlerState, NoGeneration
<1>3. ASSUME NEW b \in Backends PROVE Sound(Handlers, cb[b], CallsTo(b, h))
  <2>1. cb[b] \in Breaker /\ cb[b].generation = 0 /\ cb[b].counts = NoCounts
    BY <1>1 DEF Init, NewCircuitBreaker
  <2>2. \A q \in Handlers : CallsTo(b, h)[q] < 0
    BY DEF Init, Idle, CallsTo, NotRunning
  <2>3. QED  BY <1>2, <2>1, <2>2, CallsToType, SoundRenewed
<1>4. \A b \in Backends : Cut(cb[b], aborted[b])
  BY DEF Init, NewCircuitBreaker, NoCounts, Cut
<1>5. ASSUME NEW b \in Backends PROVE active[b] = Cardinality(Busy(b, h))
  <2>1. Busy(b, h) = {}  BY DEF Init, Busy, Idle, Counted
  <2>2. QED  BY <2>1, FS_EmptySet DEF Init
<1>6. \A q \in Handlers : KnownTo(h[q], cb)
  BY DEF Init, Idle, KnownTo
<1>7. QED  BY <1>2, <1>3, <1>4, <1>5, <1>6 DEF IInv

LEMMA NextStep == IInv /\ [Next]_vars => StepOK
BY ChooseStep, ServeStep, AroundStep DEF Next

\* The inductive invariant holds, however handlers, observers, the health
\* checker and the clock interleave.
THEOREM RequestsInductive == Spec => []IInv
<1>1. IInv /\ [Next]_vars => IInv'  BY NextStep DEF StepOK
<1>2. QED  BY <1>1, InitIInv, PTL DEF Spec

-----------------------------------------------------------------------------
(* The theorems *)

\* The model's variables keep their types: active never goes below zero, and
\* a handler that is past the choice has a backend.
THEOREM RequestsTypeCorrect == Spec => []TypeOK
<1>1. IInv => TypeOK  BY DEF IInv
<1>2. QED  BY <1>1, RequestsInductive, PTL

\* Every slot that lbHandler takes of a backend is given back exactly once,
\* whether the request is refused, answered or its proxy panics.
THEOREM ActiveCounts == Spec => []ActiveMatches
<1>1. IInv => ActiveMatches  BY DEF IInv, ActiveMatches, Busy
<1>2. QED  BY <1>1, RequestsInductive, PTL

\* No number of answers, of any status, trips a breaker.
THEOREM OnlyAbortsTrip == Spec => []AnswersNeverTrip
<1>1. ASSUME IInv PROVE AnswersNeverTrip
  BY <1>1, BreakerAssumption DEF IInv, Cut, AnswersNeverTrip
<1>2. QED  BY <1>1, RequestsInductive, PTL

\* A request chosen by score is refused only by a breaker that has moved since
\* or whose trials are out.
THEOREM RefusalsHaveMoved == Spec => []RefusedOnlyIfMoved
<1>1. ASSUME IInv PROVE RefusedOnlyIfMoved
  <2>1. SUFFICES ASSUME NEW q \in Handlers, h[q].pc = "refused", h[q].scored # NoGeneration
                 PROVE  \/ cb[h[q].peer].generation > h[q].scored
                        \/ cb[h[q].peer].state = StateHalfOpen
    BY DEF RefusedOnlyIfMoved
  <2>2. KnownTo(h[q], cb)  BY <1>1 DEF IInv
  <2>3. cb[h[q].peer].generation \in Nat /\ h[q].scored \in Nat
    BY <1>1, <2>1 DEF IInv, TypeOK, Breaker, HandlerState
  <2>4. QED  BY <2>1, <2>2, <2>3 DEF KnownTo
<1>2. QED  BY <1>1, RequestsInductive, PTL

\* Every breaker implements BreakerPromise, with any number of backends, and
\* requests that come by session, score, ticket or policy.
THEOREM BreakersRefine == Spec => BreakersKeepPromise
<1>1. Init => \A b \in Backends : Promise(b)!Init
  BY DEF Init, Promise!Init, NewCircuitBreaker, StateClosed, StateHalfOpen
<1>2. ASSUME NEW b \in Backends, Promised(cb[b], cb'[b])
      PROVE  [Promise(b)!Next]_(Promise(b)!promiseVars)
  <2>1. CASE Kept(cb[b], cb'[b])
    BY <2>1 DEF Kept, Trials, Promise!promiseVars
  <2>2. CASE Tripped(cb[b], cb'[b])
    BY <2>2 DEF Tripped, Promise!Next, Promise!Trip, StateOpen, StateClosed, StateHalfOpen
  <2>3. CASE Probed(cb[b], cb'[b])
    BY <2>3 DEF Probed, Trials, Promise!Next, Promise!Probe, StateOpen, StateHalfOpen
  <2>4. CASE Tried(cb[b], cb'[b])
    BY <2>4 DEF Tried, Trials, Promise!Next, Promise!Trial, StateHalfOpen
  <2>5. CASE Recovered(cb[b], cb'[b])
    BY <2>5 DEF Recovered, Trials, Promise!Next, Promise!Recover, StateClosed, StateHalfOpen
  <2>6. CASE Relapsed(cb[b], cb'[b])
    BY <2>6 DEF Relapsed, Trials, Promise!Next, Promise!Relapse, StateOpen, StateHalfOpen
  <2>7. QED  BY <1>2, <2>1, <2>2, <2>3, <2>4, <2>5, <2>6 DEF Promised
<1>3. IInv /\ [Next]_vars
        => [\A b \in Backends : [Promise(b)!Next]_(Promise(b)!promiseVars)]_vars
  BY <1>2, NextStep DEF StepOK
<1>4. QED  BY <1>1, <1>3, RequestsInductive, PTL DEF Spec, BreakersKeepPromise

=============================================================================
