---------------------------- MODULE CircuitBreaker ----------------------------
(***************************************************************************)
(* One CircuitBreaker of loadbalancer/circuitbreaker.go, shared by the     *)
(* goroutines that call Execute and by those that call State (serverpool.go *)
(* asks for the state while it scores a backend).                          *)
(*                                                                         *)
(* beforeRequest and afterRequest hold the mutex exclusively and read the  *)
(* clock inside it, so each is one action.  State takes the mutex for      *)
(* reading only and yet renews an expired period, so two calls of State    *)
(* race with each other, though never with a request; it is the steps      *)
(* StateEnter, StateAssign, StateStore, StateLeave, between which other    *)
(* readers run.                                                            *)
(***************************************************************************)
EXTENDS BreakerOps, FiniteSets

CONSTANTS
  Callers,    \* goroutines that call Execute
  Readers,    \* goroutines that call State
  MaxTime,    \* bound: the clock stops here
  MaxCount    \* bound: requests admitted in one period

ASSUME CallersAssumption == IsFiniteSet(Callers)

VARIABLES
  cb,          \* the breaker
  call,        \* call[c]: generation that admitted the call c is making
  reader,      \* reader[r]: how far r is in State(), what it has read
  clock,       \* time.Now()
  trippedAt,   \* history: when the breaker last opened
  streakFrom   \* history: when the first of the failures counted in
               \* ConsecutiveFailures was reported

vars == <<cb, call, reader, clock, trippedAt, streakFrom>>

NoCall == -1
Never  == -1

ReaderState == [pc : {"out", "renew", "store", "leave"}, now : Nat, generation : Nat]

TypeOK ==
  /\ cb \in Breaker
  /\ call \in [Callers -> Nat \cup {NoCall}]
  /\ reader \in [Readers -> ReaderState]
  /\ clock \in Nat
  /\ trippedAt \in Nat \cup {Never}
  /\ streakFrom \in Nat \cup {Never}

Init ==
  /\ cb = NewCircuitBreaker
  /\ call = [c \in Callers |-> NoCall]
  /\ reader = [r \in Readers |-> [pc |-> "out", now |-> 0, generation |-> 0]]
  /\ clock = 0
  /\ trippedAt = Never
  /\ streakFrom = Never

\* mutex.Lock() succeeds: nobody is inside State().
Unread == \A r \in Readers : reader[r].pc = "out"

\* The history of a step that replaces the breaker by b.
Remember(b) ==
  /\ cb' = b
  /\ trippedAt' = IF b.state = StateOpen /\ cb.state # StateOpen THEN clock ELSE trippedAt
  /\ streakFrom' = IF b.counts.ConsecutiveFailures = 0 THEN Never
                   ELSE IF cb.counts.ConsecutiveFailures = 0 THEN clock
                   ELSE streakFrom

-----------------------------------------------------------------------------
(* Execute *)

Admitted(c) ==
  LET b == currentState(cb, clock) IN
  /\ Admits(b)
  /\ b.counts.Requests < MaxCount
  /\ Remember(admitted(b))
  /\ call' = [call EXCEPT ![c] = b.generation]

Refused(c) ==
  LET b == currentState(cb, clock) IN
  /\ ~Admits(b)
  /\ Remember(b)
  /\ UNCHANGED call

beforeRequest(c) ==
  /\ Unread
  /\ call[c] = NoCall
  /\ Admitted(c) \/ Refused(c)
  /\ UNCHANGED <<reader, clock>>

afterRequestReturnsSlot(c, success) ==  \* mutant: a late outcome gives its slot back
  /\ Unread
  /\ call[c] # NoCall
  /\ LET b == currentState(cb, clock) IN
     Remember(IF b.generation # call[c] THEN [b EXCEPT !.counts.Requests = @ - 1]
              ELSE IF success THEN onSuccess(b, clock) ELSE onFailure(b, clock))
  /\ call' = [call EXCEPT ![c] = NoCall]
  /\ UNCHANGED <<reader, clock>>

\* The outcome of a call is counted only in the generation that admitted it.
afterRequest(c, success) ==
  /\ Unread
  /\ call[c] # NoCall
  /\ LET b == currentState(cb, clock) IN
     Remember(IF b.generation # call[c] THEN b
              ELSE IF success THEN onSuccess(b, clock) ELSE onFailure(b, clock))
  /\ call' = [call EXCEPT ![c] = NoCall]
  /\ UNCHANGED <<reader, clock>>

reqReturns(c) == \E success \in BOOLEAN : afterRequest(c, success)

reqPanicsUnreported(c) ==  \* mutant: Execute has no recover
  /\ call[c] # NoCall
  /\ call' = [call EXCEPT ![c] = NoCall]
  /\ UNCHANGED <<cb, reader, clock, trippedAt, streakFrom>>

\* The deferred recover reports a failure and panics again.
reqPanics(c) == afterRequest(c, FALSE)

-----------------------------------------------------------------------------
(* State, under RLock *)

\* Nothing is expired, or another reader has already left the open state.
StateFresh(r) ==
  /\ reader[r].pc = "out"
  /\ ~Expired(cb, clock)
  /\ UNCHANGED vars

\* RLock and every test up to the first store of setState or toNewGeneration.
StateEnter(r) ==
  /\ reader[r].pc = "out"
  /\ Expired(cb, clock)
  /\ reader' = [reader EXCEPT ![r].pc = "renew", ![r].now = clock]
  /\ UNCHANGED <<cb, call, clock, trippedAt, streakFrom>>

\* setState stores the half-open state (an expired closed period keeps its
\* state), and generation++ loads the generation.
StateAssign(r) ==
  /\ reader[r].pc = "renew"
  /\ cb' = [cb EXCEPT !.state = IF @ = StateOpen THEN StateHalfOpen ELSE @]
  /\ reader' = [reader EXCEPT ![r].pc = "store", ![r].generation = cb.generation]
  /\ UNCHANGED <<call, clock, trippedAt, streakFrom>>

\* generation++ stores what it loaded plus one, and the counts are cleared.
StateStore(r) ==
  /\ reader[r].pc = "store"
  /\ cb' = [cb EXCEPT !.generation = reader[r].generation + 1, !.counts = NoCounts]
  /\ streakFrom' = Never
  /\ reader' = [reader EXCEPT ![r].pc = "leave"]
  /\ UNCHANGED <<call, clock, trippedAt>>

\* The expiry is set from the time read on entry, and the lock released.
StateLeave(r) ==
  /\ reader[r].pc = "leave"
  /\ cb' = [cb EXCEPT !.expiry = Expiry(cb.state, reader[r].now)]
  /\ reader' = [reader EXCEPT ![r].pc = "out"]
  /\ UNCHANGED <<call, clock, trippedAt, streakFrom>>

State(r) == StateFresh(r) \/ StateEnter(r) \/ StateAssign(r) \/ StateStore(r) \/ StateLeave(r)

-----------------------------------------------------------------------------
Tick ==
  /\ clock < MaxTime
  /\ clock' = clock + 1
  /\ UNCHANGED <<cb, call, reader, trippedAt, streakFrom>>

Next ==
  \/ \E c \in Callers : beforeRequest(c) \/ reqReturns(c) \/ reqPanics(c)
  \/ \E r \in Readers : State(r)
  \/ Tick

Spec == Init /\ [][Next]_vars

\* Time passes, every admitted call ends, and a caller that can take the
\* mutex again and again gets it: Go's RWMutex holds new readers back while a
\* writer waits, and a reader inside always gets out.
CallsEnd ==
  /\ \A c \in Callers : SF_vars(reqReturns(c) \/ reqPanics(c))
  /\ \A r \in Readers : WF_vars(StateAssign(r) \/ StateStore(r) \/ StateLeave(r))

\* The environment keeps sending requests.
TrafficContinues == \A c \in Callers : SF_vars(beforeRequest(c))

FairSpec == Spec /\ WF_vars(Tick) /\ CallsEnd /\ TrafficContinues

-----------------------------------------------------------------------------
(* Properties *)

\* Calls whose outcome the current period still waits for.
Pending == {c \in Callers : call[c] = cb.generation}

\* Every request the current period admitted is in flight or was counted as a
\* success or a failure exactly once: a panic is counted, a late outcome of an
\* earlier period is not, and a renewal that races with another one forgets
\* nothing that is still expected (afterRequest, State, toNewGeneration).
InFlightAccounted ==
  Cardinality(Pending)
    = cb.counts.Requests - cb.counts.TotalSuccesses - cb.counts.TotalFailures

\* An open breaker waits for no outcome, so that nothing but the timeout moves
\* it: the calls in flight when it tripped belong to an earlier generation
\* (the switch of onFailure has no case for StateOpen).
OpenHasNoCalls == cb.state = StateOpen => Pending = {} /\ cb.counts = NoCounts

\* A half-open breaker that admits no more trials has a trial in flight whose
\* outcome will move it.  It has no expiry: without such a call it would stay
\* half-open, refusing everything, for ever (beforeRequest, onSuccess).
HalfOpenNotStranded ==
  cb.state = StateHalfOpen /\ cb.counts.Requests >= MaxRequests => Pending # {}

\* No request is admitted until Timeout has passed since the breaker last
\* opened (currentState, setState, and the expiry State() writes).
QuarantineRespected ==
  [][\A c \in Callers :
       call[c] = NoCall /\ call'[c] # NoCall /\ trippedAt # Never
         => clock > trippedAt + Timeout]_vars

Trips == cb.state = StateClosed /\ cb'.state = StateOpen

\* Once a first period has been renewed, the failures that trip the breaker
\* were all reported within one Interval (WithInterval, toNewGeneration).
TripWithinInterval ==
  [][Trips /\ Interval # 0 /\ streakFrom # Never /\ cb.generation > 0
       => clock <= streakFrom + Interval]_vars

\* The breaker keeps the promise of BreakerPromise.
Promise == INSTANCE BreakerPromise
  WITH mode <- cb.state,
       trials <- IF cb.state = StateHalfOpen THEN cb.counts.Requests ELSE 0

ImplementsPromise == Promise!Spec

\* An open breaker is given up once its time has come and a request or a
\* State() asks.  (The clock of the model stops at MaxTime.)
OpenLapses == cb.state = StateOpen /\ cb.expiry < MaxTime ~> cb.state # StateOpen

\* A half-open breaker ends up closed or open as long as requests come.
HalfOpenResolves == cb.state = StateHalfOpen ~> cb.state # StateHalfOpen

-----------------------------------------------------------------------------
(* What the comments say and the code does not do *)

\* circuitbreaker.go:248 and the test of line 175: a half-open breaker closes
\* after MaxRequests successful requests of its generation.
ClosesAfterSuccesses ==
  [][cb.state = StateHalfOpen /\ cb'.state = StateClosed
       => cb.counts.TotalSuccesses + 1 >= MaxRequests]_vars

=============================================================================
