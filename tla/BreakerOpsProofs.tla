--------------------------- MODULE BreakerOpsProofs ---------------------------
(***************************************************************************)
(* What the operators of BreakerOps return, stated by the field, so that   *)
(* the proofs about a breaker in a system need not expand them.            *)
(***************************************************************************)
EXTENDS BreakerOps, FiniteSets, TLAPS, FiniteSetTheorems

\* What toNewGeneration makes of a breaker whose state is already s: the next
\* generation, with nothing counted.
Renewed(b, n, s, now) ==
  /\ n.state = s
  /\ n.generation = b.generation + 1
  /\ n.counts = NoCounts
  /\ n.expiry = Expiry(s, now)

\* The expiry of any state is a time.
LEMMA ExpiryType ==
  ASSUME NEW s \in BreakerState, NEW now \in Nat
  PROVE  Expiry(s, now) \in Time
BY BreakerAssumption DEF Expiry, Time, ZeroTime, BreakerState

\* toNewGeneration keeps the state.
LEMMA ToNewGenerationRenews ==
  ASSUME NEW b \in Breaker, NEW now \in Nat, NEW n, n = toNewGeneration(b, now)
  PROVE  n \in Breaker /\ Renewed(b, n, b.state, now)
<1>1. b = [state |-> b.state, generation |-> b.generation,
           counts |-> b.counts, expiry |-> b.expiry]
  BY DEF Breaker
<1>2. n = [state |-> b.state, generation |-> b.generation + 1,
           counts |-> NoCounts, expiry |-> Expiry(b.state, now)]
  BY <1>1 DEF toNewGeneration
<1>3. Expiry(b.state, now) \in Time  BY ExpiryType DEF Breaker
<1>4. NoCounts \in Counts            BY DEF NoCounts, Counts
<1>5. b.state \in BreakerState /\ b.generation + 1 \in Nat  BY DEF Breaker
<1>6. n \in Breaker  BY <1>2, <1>3, <1>4, <1>5 DEF Breaker
<1>7. QED  BY <1>2, <1>6 DEF Renewed

\* setState to another state starts the next generation of the breaker in it.
LEMMA SetStateRenews ==
  ASSUME NEW b \in Breaker, NEW s \in BreakerState, NEW now \in Nat, b.state # s,
         NEW n, n = setState(b, s, now)
  PROVE  n \in Breaker /\ Renewed(b, n, s, now)
<1> DEFINE m == [b EXCEPT !.state = s]
<1>1. m \in Breaker /\ m.state = s /\ m.generation = b.generation  BY DEF Breaker
<1>2. n = toNewGeneration(m, now)  BY DEF setState
<1>3. n \in Breaker /\ Renewed(m, n, m.state, now)
  BY <1>1, <1>2, ToNewGenerationRenews
<1>4. QED  BY <1>1, <1>3 DEF Renewed

\* currentState either finds nothing expired and changes nothing, or starts a
\* half-open generation of an open breaker or a closed one of a closed one.
LEMMA CurrentStateCases ==
  ASSUME NEW b \in Breaker, NEW now \in Nat, NEW n, n = currentState(b, now)
  PROVE  /\ n \in Breaker
         /\ \/ ~Expired(b, now) /\ n = b
            \/ Expired(b, now) /\ b.state = StateOpen /\ Renewed(b, n, StateHalfOpen, now)
            \/ Expired(b, now) /\ b.state = StateClosed /\ Renewed(b, n, StateClosed, now)
<1>1. CASE ~Expired(b, now)  BY <1>1 DEF currentState
<1>2. CASE Expired(b, now) /\ b.state = StateOpen
  BY <1>2, SetStateRenews DEF currentState, BreakerState, StateOpen, StateHalfOpen
<1>3. CASE Expired(b, now) /\ b.state # StateOpen
  BY <1>3, ToNewGenerationRenews DEF currentState, Expired
<1>4. QED  BY <1>1, <1>2, <1>3

\* A success is counted, and closes a half-open breaker whose Successes()
\* reach MaxRequests.
LEMMA OnSuccessCases ==
  ASSUME NEW b \in Breaker, NEW now \in Nat, NEW n, n = onSuccess(b, now)
  PROVE  /\ n \in Breaker
         /\ \/ /\ n = [b EXCEPT !.counts = CountSuccess(@)]
               /\ b.state = StateHalfOpen => b.counts.Requests < MaxRequests
            \/ /\ b.state = StateHalfOpen
               /\ b.counts.Requests >= MaxRequests
               /\ Renewed(b, n, StateClosed, now)
<1> DEFINE k == [b EXCEPT !.counts = CountSuccess(@)]
<1>1. CountSuccess(b.counts) \in Counts  BY DEF CountSuccess, Counts, Breaker
<1>2. k \in Breaker /\ k.state = b.state /\ k.generation = b.generation
  BY <1>1 DEF Breaker
<1>3. Successes(k.counts) = b.counts.Requests
  BY <1>1 DEF Successes, CountSuccess, Counts, Breaker
<1>4. CASE k.state = StateHalfOpen /\ Successes(k.counts) >= MaxRequests
  <2>1. n = setState(k, StateClosed, now)  BY <1>4 DEF onSuccess
  <2>2. n \in Breaker /\ Renewed(k, n, StateClosed, now)
    BY <1>2, <1>4, <2>1, SetStateRenews DEF BreakerState, StateClosed, StateHalfOpen
  <2>3. QED  BY <1>2, <1>3, <1>4, <2>2 DEF Renewed
<1>5. CASE ~(k.state = StateHalfOpen /\ Successes(k.counts) >= MaxRequests)
  <2>1. n = k  BY <1>5 DEF onSuccess
  <2>2. b.state = StateHalfOpen => b.counts.Requests < MaxRequests
    BY <1>2, <1>3, <1>5, BreakerAssumption DEF Breaker, Counts
  <2>3. QED  BY <1>2, <2>1, <2>2
<1>6. QED  BY <1>4, <1>5

\* A failure is counted, and opens a half-open breaker, or a closed one that
\* is ready to trip.
LEMMA OnFailureCases ==
  ASSUME NEW b \in Breaker, NEW now \in Nat, NEW n, n = onFailure(b, now)
  PROVE  /\ n \in Breaker
         /\ \/ /\ n = [b EXCEPT !.counts = CountFailure(@)]
               /\ b.state # StateHalfOpen
               /\ b.state = StateClosed => b.counts.ConsecutiveFailures + 1 < TripAfter
            \/ /\ b.state # StateOpen
               /\ b.state = StateClosed => b.counts.ConsecutiveFailures + 1 >= TripAfter
               /\ Renewed(b, n, StateOpen, now)
<1> DEFINE k == [b EXCEPT !.counts = CountFailure(@)]
<1>1. CountFailure(b.counts) \in Counts  BY DEF CountFailure, Counts, Breaker
<1>2. /\ k \in Breaker /\ k.state = b.state /\ k.generation = b.generation
      /\ k.counts.ConsecutiveFailures = b.counts.ConsecutiveFailures + 1
  BY <1>1 DEF Breaker, CountFailure
<1>3. CASE k.state = StateHalfOpen \/ (k.state = StateClosed /\ readyToTrip(k.counts))
  <2>1. n = setState(k, StateOpen, now)  BY <1>3 DEF onFailure
  <2>2. k.state # StateOpen  BY <1>3 DEF StateOpen, StateClosed, StateHalfOpen
  <2>3. n \in Breaker /\ Renewed(k, n, StateOpen, now)
    BY <1>2, <2>1, <2>2, SetStateRenews DEF BreakerState
  <2>4. b.state = StateClosed => b.counts.ConsecutiveFailures + 1 >= TripAfter
    BY <1>2, <1>3 DEF readyToTrip, StateClosed, StateHalfOpen
  <2>5. QED  BY <1>2, <2>2, <2>3, <2>4 DEF Renewed
<1>4. CASE ~(k.state = StateHalfOpen \/ (k.state = StateClosed /\ readyToTrip(k.counts)))
  <2>1. n = k  BY <1>4 DEF onFailure
  <2>2. b.state = StateClosed => b.counts.ConsecutiveFailures + 1 < TripAfter
    BY <1>2, <1>4, BreakerAssumption DEF readyToTrip, Breaker, Counts
  <2>3. QED  BY <1>2, <1>4, <2>1, <2>2
<1>5. QED  BY <1>3, <1>4

-----------------------------------------------------------------------------
(* The counters and the calls in flight *)

NotRunning == -1

\* The calls of C: the generation that admitted each one that is running.
CallsOf(C) == [C -> Nat \cup {NotRunning}]

\* The calls after that of c has become g.
With(f, c, g) == [f EXCEPT ![c] = g]

\* The callers whose call was admitted by generation g.
In(C, g, f) == {c \in C : f[c] = g}

\* The counters of breaker b agree with the calls f.
Sound(C, b, f) ==
  /\ \A c \in C : f[c] <= b.generation
  /\ Cardinality(In(C, b.generation, f))
       = b.counts.Requests - b.counts.TotalSuccesses - b.counts.TotalFailures
  /\ b.state = StateOpen => b.counts = NoCounts
  /\ b.state = StateHalfOpen =>
       /\ b.counts.TotalFailures = 0
       /\ b.counts.Requests <= MaxRequests
       /\ b.counts.TotalSuccesses < MaxRequests

-----------------------------------------------------------------------------
(* Counting the calls of a generation *)

LEMMA InFinite ==
  ASSUME NEW C, IsFiniteSet(C), NEW g, NEW f
  PROVE  IsFiniteSet(In(C, g, f))
BY FS_Subset, In(C, g, f) \in SUBSET C DEF In

\* A generation later than every call has none.
LEMMA InEmpty ==
  ASSUME NEW C, IsFiniteSet(C), NEW f \in CallsOf(C), NEW g \in Nat, \A c \in C : f[c] < g
  PROVE  In(C, g, f) = {} /\ Cardinality(In(C, g, f)) = 0
<1>1. In(C, g, f) = {}  BY DEF In, CallsOf, NotRunning
<1>2. QED  BY <1>1, FS_EmptySet

\* An admission adds one call.
LEMMA InAdmits ==
  ASSUME NEW g \in Nat, NEW C, IsFiniteSet(C), NEW f \in CallsOf(C),
         NEW c \in C, f[c] = NotRunning, NEW h, h = With(f, c, g)
  PROVE  Cardinality(In(C, g, h)) = Cardinality(In(C, g, f)) + 1
<1>1. In(C, g, h) = In(C, g, f) \cup {c}  BY DEF In, CallsOf, NotRunning, With
<1>2. c \notin In(C, g, f)             BY DEF In, NotRunning
<1>3. QED  BY <1>1, <1>2, InFinite, FS_AddElement

\* The end of a call removes it from its own generation and from no other.
LEMMA InEnds ==
  ASSUME NEW C, IsFiniteSet(C), NEW f \in CallsOf(C), NEW c \in C, NEW g \in Nat,
         NEW h, h = With(f, c, NotRunning)
  PROVE  /\ f[c] = g => /\ Cardinality(In(C, g, h)) = Cardinality(In(C, g, f)) - 1
                        /\ Cardinality(In(C, g, f)) \in Nat \ {0}
         /\ f[c] # g => In(C, g, h) = In(C, g, f)
<1>1. CASE f[c] = g
  <2>1. In(C, g, h) = In(C, g, f) \ {c}  BY <1>1 DEF In, CallsOf, NotRunning, With
  <2>2. c \in In(C, g, f)             BY <1>1 DEF In
  <2>3. Cardinality(In(C, g, f)) \in Nat  BY InFinite, FS_CardinalityType
  <2>4. Cardinality(In(C, g, f)) # 0      BY <2>2, InFinite, FS_EmptySet
  <2>5. Cardinality(In(C, g, h)) = Cardinality(In(C, g, f)) - 1
    BY <2>1, <2>2, InFinite, FS_RemoveElement
  <2>6. QED  BY <1>1, <2>3, <2>4, <2>5
<1>2. CASE f[c] # g
  BY <1>2 DEF In, CallsOf, NotRunning, With
<1>3. QED  BY <1>1, <1>2

-----------------------------------------------------------------------------
(* Sound through each method *)

\* A breaker of a new generation, with nothing counted, is sound whatever the
\* calls of the earlier generations.
LEMMA SoundRenewed ==
  ASSUME NEW C, IsFiniteSet(C), NEW f \in CallsOf(C), NEW b \in Breaker,
         \A c \in C : f[c] < b.generation,
         b.counts = NoCounts
  PROVE  Sound(C, b, f)
<1>1. b.generation \in Nat  BY DEF Breaker
<1>2. Cardinality(In(C, b.generation, f)) = 0  BY <1>1, InEmpty
<1>3. \A c \in C : f[c] <= b.generation
  BY <1>1 DEF CallsOf, NotRunning
<1>4. /\ b.counts.Requests = 0 /\ b.counts.TotalSuccesses = 0
      /\ b.counts.TotalFailures = 0
  BY DEF NoCounts
<1>5. QED  BY <1>2, <1>3, <1>4, BreakerAssumption DEF Sound

LEMMA RenewedPast ==
  ASSUME NEW C, IsFiniteSet(C), NEW f \in CallsOf(C), NEW b \in Breaker, NEW n \in Breaker,
         \A c \in C : f[c] <= b.generation, n.generation = b.generation + 1
  PROVE  \A c \in C : f[c] < n.generation
BY DEF Breaker, CallsOf, NotRunning

LEMMA SoundCurrent ==
  ASSUME NEW C, IsFiniteSet(C), NEW f \in CallsOf(C), NEW b \in Breaker,
         NEW now \in Nat, Sound(C, b, f),
         NEW n, n = currentState(b, now)
  PROVE  n \in Breaker /\ Sound(C, n, f)
<1>1. n \in Breaker  BY CurrentStateCases
<1>2. CASE n = b  BY <1>2
<1>3. CASE n.counts = NoCounts /\ n.generation = b.generation + 1
  BY <1>1, <1>3, SoundRenewed, RenewedPast DEF Sound
<1>4. QED  BY <1>1, <1>2, <1>3, CurrentStateCases DEF Renewed

LEMMA SoundAdmitted ==
  ASSUME NEW C, IsFiniteSet(C), NEW f \in CallsOf(C), NEW b \in Breaker,
         NEW c \in C, f[c] = NotRunning,
         Sound(C, b, f), Admits(b),
         NEW n, n = admitted(b), NEW h, h = With(f, c, b.generation)
  PROVE  n \in Breaker /\ h \in CallsOf(C) /\ Sound(C, n, h)
<1>1. /\ n \in Breaker /\ n.state = b.state /\ n.generation = b.generation
      /\ n.counts.Requests = b.counts.Requests + 1
      /\ n.counts.TotalSuccesses = b.counts.TotalSuccesses
      /\ n.counts.TotalFailures = b.counts.TotalFailures
  BY DEF admitted, Breaker, Counts
<1>2. h \in CallsOf(C)  BY DEF CallsOf, Breaker, NotRunning, With
<1>3. Cardinality(In(C, b.generation, h)) = Cardinality(In(C, b.generation, f)) + 1
  <2>1. b.generation \in Nat  BY DEF Breaker
  <2>2. QED  BY <2>1, InAdmits
<1>4. \A d \in C : h[d] <= n.generation
  BY <1>1 DEF Sound, CallsOf, Breaker, NotRunning, With
<1>5. Cardinality(In(C, n.generation, h))
        = n.counts.Requests - n.counts.TotalSuccesses - n.counts.TotalFailures
  BY <1>1, <1>3 DEF Sound, Breaker, Counts
<1>6. n.state # StateOpen  BY <1>1 DEF Admits, StateOpen, StateClosed, StateHalfOpen
<1>7. n.state = StateHalfOpen => b.counts.Requests < MaxRequests
  BY <1>1 DEF Admits, StateClosed, StateHalfOpen
<1>8. n.state = StateHalfOpen =>
        /\ n.counts.TotalFailures = 0
        /\ n.counts.Requests <= MaxRequests
        /\ n.counts.TotalSuccesses < MaxRequests
  BY <1>1, <1>7, BreakerAssumption DEF Sound, Breaker, Counts
<1>9. QED  BY <1>1, <1>2, <1>4, <1>5, <1>6, <1>8 DEF Sound

\* An outcome that reaches a later generation than its own changes nothing.
LEMMA SoundLate ==
  ASSUME NEW C, IsFiniteSet(C), NEW f \in CallsOf(C), NEW b \in Breaker,
         NEW c \in C, f[c] # b.generation,
         Sound(C, b, f), NEW h, h = With(f, c, NotRunning)
  PROVE  h \in CallsOf(C) /\ Sound(C, b, h)
<1>1. h \in CallsOf(C)  BY DEF CallsOf, NotRunning, With
<1>2. In(C, b.generation, h) = In(C, b.generation, f)
  <2>1. b.generation \in Nat  BY DEF Breaker
  <2>2. QED  BY <2>1, InEnds
<1>3. \A d \in C : h[d] <= b.generation    BY DEF Sound, CallsOf, Breaker, NotRunning, With
<1>4. QED  BY <1>1, <1>2, <1>3 DEF Sound

LEMMA SoundSuccess ==
  ASSUME NEW C, IsFiniteSet(C), NEW f \in CallsOf(C), NEW b \in Breaker,
         NEW c \in C, f[c] = b.generation,
         Sound(C, b, f), NEW now \in Nat,
         NEW n, n = onSuccess(b, now), NEW h, h = With(f, c, NotRunning)
  PROVE  n \in Breaker /\ h \in CallsOf(C) /\ Sound(C, n, h)
<1>1. n \in Breaker  BY OnSuccessCases
<1>2. h \in CallsOf(C)    BY DEF CallsOf, NotRunning, With
<1>3. \A d \in C : h[d] <= b.generation  BY DEF Sound, CallsOf, Breaker, NotRunning, With
<1>4. CASE Renewed(b, n, StateClosed, now)
  BY <1>1, <1>2, <1>3, <1>4, SoundRenewed, RenewedPast DEF Renewed
<1>5. CASE /\ n = [b EXCEPT !.counts = CountSuccess(@)]
           /\ b.state = StateHalfOpen => b.counts.Requests < MaxRequests
  <2>1. /\ n.state = b.state /\ n.generation = b.generation
        /\ n.counts.Requests = b.counts.Requests
        /\ n.counts.TotalSuccesses = b.counts.TotalSuccesses + 1
        /\ n.counts.TotalFailures = b.counts.TotalFailures
    BY <1>5 DEF Breaker, CountSuccess
  <2>2. /\ Cardinality(In(C, b.generation, h)) = Cardinality(In(C, b.generation, f)) - 1
        /\ Cardinality(In(C, b.generation, f)) \in Nat \ {0}
    <3>1. b.generation \in Nat  BY DEF Breaker
    <3>2. QED  BY <3>1, InEnds
  <2>3. Cardinality(In(C, n.generation, h))
          = n.counts.Requests - n.counts.TotalSuccesses - n.counts.TotalFailures
    BY <2>1, <2>2 DEF Sound, Breaker, Counts
  <2>4. n.state # StateOpen
    BY <2>1, <2>2 DEF Sound, NoCounts
  <2>5. n.state = StateHalfOpen =>
          /\ n.counts.TotalFailures = 0
          /\ n.counts.Requests <= MaxRequests
          /\ n.counts.TotalSuccesses < MaxRequests
    BY <1>5, <2>1, <2>2, BreakerAssumption DEF Sound, Breaker, Counts
  <2>6. QED  BY <1>1, <1>2, <1>3, <2>1, <2>3, <2>4, <2>5 DEF Sound
<1>6. QED  BY <1>4, <1>5, OnSuccessCases

LEMMA SoundFailure ==
  ASSUME NEW C, IsFiniteSet(C), NEW f \in CallsOf(C), NEW b \in Breaker,
         NEW c \in C, f[c] = b.generation,
         Sound(C, b, f), NEW now \in Nat,
         NEW n, n = onFailure(b, now), NEW h, h = With(f, c, NotRunning)
  PROVE  n \in Breaker /\ h \in CallsOf(C) /\ Sound(C, n, h)
<1>1. n \in Breaker  BY OnFailureCases
<1>2. h \in CallsOf(C)    BY DEF CallsOf, NotRunning, With
<1>3. \A d \in C : h[d] <= b.generation  BY DEF Sound, CallsOf, Breaker, NotRunning, With
<1>4. CASE Renewed(b, n, StateOpen, now)
  BY <1>1, <1>2, <1>3, <1>4, SoundRenewed, RenewedPast DEF Renewed
<1>5. CASE n = [b EXCEPT !.counts = CountFailure(@)] /\ b.state # StateHalfOpen
  <2>1. /\ n.state = b.state /\ n.generation = b.generation
        /\ n.counts.Requests = b.counts.Requests
        /\ n.counts.TotalSuccesses = b.counts.TotalSuccesses
        /\ n.counts.TotalFailures = b.counts.TotalFailures + 1
    BY <1>5 DEF Breaker, CountFailure
  <2>2. /\ Cardinality(In(C, b.generation, h)) = Cardinality(In(C, b.generation, f)) - 1
        /\ Cardinality(In(C, b.generation, f)) \in Nat \ {0}
    <3>1. b.generation \in Nat  BY DEF Breaker
    <3>2. QED  BY <3>1, InEnds
  <2>3. Cardinality(In(C, n.generation, h))
          = n.counts.Requests - n.counts.TotalSuccesses - n.counts.TotalFailures
    BY <2>1, <2>2 DEF Sound, Breaker, Counts
  <2>4. n.state # StateOpen
    BY <2>1, <2>2 DEF Sound, NoCounts
  <2>5. QED  BY <1>1, <1>2, <1>3, <1>5, <2>1, <2>3, <2>4 DEF Sound
<1>6. QED  BY <1>4, <1>5, OnFailureCases

-----------------------------------------------------------------------------
(* The promise through each method *)

Trials(b) == IF b.state = StateHalfOpen THEN b.counts.Requests ELSE 0

\* The steps of the promise between two breakers.
Kept(b, n)      == n.state = b.state /\ Trials(n) = Trials(b)
Tripped(b, n)   == b.state = StateClosed /\ n.state = StateOpen
Probed(b, n)    == /\ b.state = StateOpen /\ n.state = StateHalfOpen
                   /\ Trials(n) \in {0, 1}
Tried(b, n)     == /\ b.state = StateHalfOpen /\ n.state = StateHalfOpen
                   /\ Trials(b) < MaxRequests /\ Trials(n) = Trials(b) + 1
Recovered(b, n) == /\ b.state = StateHalfOpen /\ n.state = StateClosed
                   /\ Trials(b) = MaxRequests
Relapsed(b, n)  == /\ b.state = StateHalfOpen /\ n.state = StateOpen
                   /\ Trials(b) > 0

Promised(b, n) == \/ Kept(b, n) \/ Tripped(b, n) \/ Probed(b, n)
                  \/ Tried(b, n) \/ Recovered(b, n) \/ Relapsed(b, n)

\* Finding an expired breaker either renews a closed one or begins the
\* half-open phase.
LEMMA PromisedCurrent ==
  ASSUME NEW b \in Breaker, NEW now \in Nat, NEW n, n = currentState(b, now)
  PROVE  Kept(b, n) \/ (Probed(b, n) /\ Trials(n) = 0)
<1>1. CASE n = b  BY <1>1 DEF Kept
<1>2. CASE b.state = StateOpen /\ Renewed(b, n, StateHalfOpen, now)
  BY <1>2 DEF Renewed, Probed, Trials, NoCounts
<1>3. CASE b.state = StateClosed /\ Renewed(b, n, StateClosed, now)
  BY <1>3 DEF Renewed, Kept, Trials, StateClosed, StateHalfOpen
<1>4. QED  BY <1>1, <1>2, <1>3, CurrentStateCases

\* An admission is a trial when the breaker is half-open.
LEMMA PromisedAdmitted ==
  ASSUME NEW b \in Breaker, NEW now \in Nat, NEW m, m = currentState(b, now),
         Admits(m), NEW n, n = admitted(m)
  PROVE  Promised(b, n)
<1>1. m \in Breaker  BY CurrentStateCases
<1>2. n.state = m.state /\ n.counts.Requests = m.counts.Requests + 1
  BY <1>1 DEF admitted, Breaker, Counts
<1>3. CASE m.state = StateClosed
  <2>1. b.state = StateClosed
    BY <1>3, PromisedCurrent DEF Kept, Probed, StateClosed, StateHalfOpen
  <2>2. QED  BY <1>2, <1>3, <2>1 DEF Promised, Kept, Trials, StateClosed, StateHalfOpen
<1>4. CASE m.state = StateHalfOpen
  <2>1. Trials(n) = Trials(m) + 1 /\ Trials(m) < MaxRequests
    BY <1>2, <1>4 DEF Trials, Admits, StateClosed, StateHalfOpen
  <2>2. CASE Kept(b, m)
    BY <1>2, <1>4, <2>1, <2>2 DEF Promised, Kept, Tried
  <2>3. CASE Probed(b, m) /\ Trials(m) = 0
    BY <1>2, <1>4, <2>1, <2>3 DEF Promised, Probed
  <2>4. QED  BY <2>2, <2>3, PromisedCurrent
<1>5. QED  BY <1>3, <1>4 DEF Admits

\* A counted success restores a half-open breaker when all trials are out.
LEMMA PromisedSuccess ==
  ASSUME NEW C, IsFiniteSet(C), NEW f \in CallsOf(C), NEW b \in Breaker,
         Sound(C, b, f), NEW now \in Nat,
         NEW n, n = onSuccess(b, now)
  PROVE  Promised(b, n)
<1>1. CASE n = [b EXCEPT !.counts = CountSuccess(@)]
  <2>1. n.state = b.state /\ n.counts.Requests = b.counts.Requests
    BY <1>1 DEF Breaker, CountSuccess
  <2>2. QED  BY <2>1 DEF Promised, Kept, Trials
<1>2. CASE /\ b.state = StateHalfOpen /\ b.counts.Requests >= MaxRequests
           /\ Renewed(b, n, StateClosed, now)
  <2>1. b.counts.Requests = MaxRequests
    BY <1>2, BreakerAssumption DEF Sound, Breaker, Counts
  <2>2. QED  BY <1>2, <2>1 DEF Renewed, Promised, Recovered, Trials
<1>3. QED  BY <1>1, <1>2, OnSuccessCases

\* A counted failure opens the breaker; of a half-open one it is a trial's.
LEMMA PromisedFailure ==
  ASSUME NEW C, IsFiniteSet(C), NEW f \in CallsOf(C), NEW b \in Breaker,
         Sound(C, b, f), NEW now \in Nat,
         NEW c \in C, f[c] = b.generation,
         NEW n, n = onFailure(b, now)
  PROVE  Promised(b, n)
<1>1. CASE n = [b EXCEPT !.counts = CountFailure(@)]
  <2>1. n.state = b.state /\ n.counts.Requests = b.counts.Requests
    BY <1>1 DEF Breaker, CountFailure
  <2>2. QED  BY <2>1 DEF Promised, Kept, Trials
<1>2. CASE b.state = StateClosed /\ Renewed(b, n, StateOpen, now)
  BY <1>2 DEF Renewed, Promised, Tripped
<1>3. CASE b.state = StateHalfOpen /\ Renewed(b, n, StateOpen, now)
  <2>1. Cardinality(In(C, b.generation, f)) \in Nat \ {0}
    <3>1. b.generation \in Nat  BY DEF Breaker
    <3>2. QED  BY <3>1, InEnds
  <2>2. b.counts.Requests > 0
    BY <1>3, <2>1 DEF Sound, Breaker, Counts
  <2>3. QED  BY <1>3, <2>2 DEF Renewed, Promised, Relapsed, Trials
<1>4. QED
  BY <1>1, <1>2, <1>3, OnFailureCases DEF Breaker, BreakerState

-----------------------------------------------------------------------------
(* An outcome that is reported to a breaker *)

\* The breaker after the outcome of a request of generation g (afterRequest).
Outcome(b, g, success, now) ==
  LET m == currentState(b, now) IN
  IF m.generation # g THEN m ELSE IF success THEN onSuccess(m, now) ELSE onFailure(m, now)

\* A call of the generation that is found was admitted before any renewal.
LEMMA CountedFindsBreaker ==
  ASSUME NEW C, IsFiniteSet(C), NEW f \in CallsOf(C), NEW b \in Breaker,
         NEW c \in C, Sound(C, b, f), NEW now \in Nat,
         currentState(b, now).generation = f[c]
  PROVE  currentState(b, now) = b
<1>1. f[c] <= b.generation  BY DEF Sound
<1>2. \/ currentState(b, now) = b
      \/ currentState(b, now).generation = b.generation + 1
  BY CurrentStateCases DEF Renewed
<1>3. f[c] # b.generation + 1  BY <1>1 DEF Breaker, CallsOf, NotRunning
<1>4. QED  BY <1>2, <1>3

LEMMA OutcomeSound ==
  ASSUME NEW C, IsFiniteSet(C), NEW f \in CallsOf(C), NEW b \in Breaker,
         NEW c \in C, Sound(C, b, f), NEW now \in Nat, NEW success \in BOOLEAN,
         NEW n, n = Outcome(b, f[c], success, now), NEW h, h = With(f, c, NotRunning)
  PROVE  n \in Breaker /\ h \in CallsOf(C) /\ Sound(C, n, h) /\ Promised(b, n)
<1> DEFINE m == currentState(b, now)
<1>1. m \in Breaker /\ Sound(C, m, f)  BY SoundCurrent
<1>2. CASE m.generation # f[c]
  <2>1. n = m  BY <1>2 DEF Outcome
  <2>2. QED  BY <1>1, <1>2, <2>1, SoundLate, PromisedCurrent DEF Promised
<1>3. CASE m.generation = f[c]
  <2>1. m = b  BY <1>3, CountedFindsBreaker
  <2>2. n = IF success THEN onSuccess(b, now) ELSE onFailure(b, now)
    BY <1>3, <2>1 DEF Outcome
  <2>3. CASE success
    BY <1>3, <2>1, <2>2, <2>3, SoundSuccess, PromisedSuccess
  <2>4. CASE ~success
    BY <1>3, <2>1, <2>2, <2>4, SoundFailure, PromisedFailure
  <2>5. QED  BY <2>3, <2>4
<1>4. QED  BY <1>2, <1>3

-----------------------------------------------------------------------------
(* How far a breaker moves *)

\* The breaker keeps its state as long as it keeps its generation.
Advanced(b, n) ==
  \/ n.generation = b.generation /\ n.state = b.state
  \/ n.generation > b.generation

\* The failures a breaker remembers, when its backend's last a were cut off:
\* it has left the closed state only if those were enough.
Cut(b, a) ==
  /\ b.state # StateClosed => a = TripAfter
  /\ b.counts.ConsecutiveFailures <= a

LEMMA CurrentMoves ==
  ASSUME NEW b \in Breaker, NEW now \in Nat, NEW n, n = currentState(b, now),
         NEW a \in Nat, Cut(b, a)
  PROVE  Advanced(b, n) /\ Cut(n, a)
<1>1. CASE n = b  BY <1>1 DEF Advanced
<1>2. CASE b.state = StateOpen /\ Renewed(b, n, StateHalfOpen, now)
  BY <1>2 DEF Renewed, Advanced, Cut, NoCounts, Breaker, StateOpen, StateClosed
<1>3. CASE b.state = StateClosed /\ Renewed(b, n, StateClosed, now)
  BY <1>3 DEF Renewed, Advanced, Cut, NoCounts, Breaker
<1>4. QED  BY <1>1, <1>2, <1>3, CurrentStateCases

LEMMA AdmittedMoves ==
  ASSUME NEW b \in Breaker, NEW n, n = admitted(b), NEW a \in Nat, Cut(b, a)
  PROVE  Advanced(b, n) /\ Cut(n, a)
<1>1. /\ n.state = b.state /\ n.generation = b.generation
      /\ n.counts.ConsecutiveFailures = b.counts.ConsecutiveFailures
  BY DEF admitted, Breaker, Counts
<1>2. QED  BY <1>1 DEF Advanced, Cut

LEMMA AdvancedTwice ==
  ASSUME NEW b \in Breaker, NEW m \in Breaker, NEW n \in Breaker,
         Advanced(b, m), Advanced(m, n)
  PROVE  Advanced(b, n)
BY DEF Advanced, Breaker

\* A counted failure is one more that was cut off, as far as a counts them.
LEMMA OutcomeMoves ==
  ASSUME NEW C, IsFiniteSet(C), NEW f \in CallsOf(C), NEW b \in Breaker,
         NEW c \in C, Sound(C, b, f), NEW now \in Nat, NEW success \in BOOLEAN,
         NEW n, n = Outcome(b, f[c], success, now),
         NEW a \in 0..TripAfter, Cut(b, a),
         NEW k, k = IF ~success /\ a < TripAfter THEN a + 1 ELSE a
  PROVE  Advanced(b, n) /\ Cut(n, k)
<1>0. a \in Nat /\ k \in Nat /\ a <= k /\ a <= TripAfter /\ TripAfter \in Nat
  BY BreakerAssumption
<1> DEFINE m == currentState(b, now)
<1>1. CASE m.generation # f[c]
  <2>1. n = m  BY <1>1 DEF Outcome
  <2>2. Advanced(b, m) /\ Cut(m, a) /\ m \in Breaker
    BY <1>0, CurrentMoves, CurrentStateCases
  <2>3. Cut(m, k)  BY <1>0, <2>2 DEF Cut, Breaker, Counts
  <2>4. QED  BY <2>1, <2>2, <2>3
<1>2. CASE m.generation = f[c]
  <2>1. m = b /\ b.generation = f[c]  BY <1>2, CountedFindsBreaker
  <2>2. n = IF success THEN onSuccess(b, now) ELSE onFailure(b, now)
    BY <1>2, <2>1 DEF Outcome
  <2>3. b.state # StateOpen
    <3>1. b.generation \in Nat  BY DEF Breaker
    <3>2. c \in In(C, b.generation, f)  BY <2>1 DEF In
    <3>3. Cardinality(In(C, b.generation, f)) # 0
      BY <3>2, InFinite, FS_EmptySet
    <3>4. QED  BY <3>3 DEF Sound, NoCounts
  <2>4. CASE success
    <3>1. CASE n = [b EXCEPT !.counts = CountSuccess(@)]
      <4>1. /\ n.state = b.state /\ n.generation = b.generation
            /\ n.counts.ConsecutiveFailures = 0
        BY <3>1 DEF Breaker, CountSuccess
      <4>2. k = a  BY <2>4
      <4>3. QED  BY <1>0, <4>1, <4>2 DEF Advanced, Cut
    <3>2. CASE b.state = StateHalfOpen /\ Renewed(b, n, StateClosed, now)
      BY <1>0, <3>2 DEF Renewed, Advanced, Cut, NoCounts, Breaker
    <3>3. n = onSuccess(b, now)  BY <2>2, <2>4
    <3>4. QED  BY <3>1, <3>2, <3>3, OnSuccessCases
  <2>5. CASE ~success
    <3>1. CASE /\ n = [b EXCEPT !.counts = CountFailure(@)]
               /\ b.state # StateHalfOpen
               /\ b.state = StateClosed => b.counts.ConsecutiveFailures + 1 < TripAfter
      <4>1. /\ n.state = b.state /\ n.generation = b.generation
            /\ n.counts.ConsecutiveFailures = b.counts.ConsecutiveFailures + 1
        BY <3>1 DEF Breaker, CountFailure
      <4>2. b.state = StateClosed  BY <2>3, <3>1 DEF Breaker, BreakerState
      <4>3. b.counts.ConsecutiveFailures \in Nat  BY DEF Breaker, Counts
      <4>4. QED  BY <1>0, <2>5, <3>1, <4>1, <4>2, <4>3 DEF Advanced, Cut
    <3>2. CASE /\ b.state = StateClosed => b.counts.ConsecutiveFailures + 1 >= TripAfter
               /\ Renewed(b, n, StateOpen, now)
      <4>1. b.counts.ConsecutiveFailures \in Nat /\ b.generation \in Nat
        BY DEF Breaker, Counts
      <4>2. k = TripAfter
        BY <1>0, <2>5, <3>2, <4>1, BreakerAssumption DEF Cut
      <4>3. n.generation = b.generation + 1 /\ n.counts.ConsecutiveFailures = 0
        BY <3>2 DEF Renewed, NoCounts
      <4>4. QED  BY <1>0, <4>1, <4>2, <4>3 DEF Advanced, Cut
    <3>3. n = onFailure(b, now)  BY <2>2, <2>5
    <3>4. QED  BY <3>1, <3>2, <3>3, OnFailureCases
  <2>6. QED  BY <2>4, <2>5
<1>3. QED  BY <1>1, <1>2

=============================================================================
