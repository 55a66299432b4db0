------------------------------ MODULE BreakerOps ------------------------------
(***************************************************************************)
(* The CircuitBreaker struct of loadbalancer/circuitbreaker.go as a record *)
(* and its unexported methods as operators from a breaker to a breaker.    *)
(* Every method runs with the breaker's mutex held, so an operator is one  *)
(* critical section's worth of assignments; the module that owns the       *)
(* breaker decides when it runs.  A breaker is                             *)
(*   [state, generation, counts, expiry]                                   *)
(* with the fields of the struct; name and onStateChange (which only logs) *)
(* are left out, and the four options are the constants below.             *)
(***************************************************************************)
EXTENDS Integers

CONSTANTS
  MaxRequests,   \* WithMaxRequests: trial requests a half-open breaker admits
  Interval,      \* WithInterval: length of a closed period, 0 for none
  Timeout,       \* WithTimeout: length of the open period
  TripAfter      \* WithReadyToTrip: consecutive failures that trip it

\* main.go:422-434 passes 3, 10s, 30s and 5.  WithMaxRequests(0) would give a
\* breaker that admits no trial and never leaves half-open; nothing passes it.
ASSUME BreakerAssumption ==
  /\ MaxRequests \in Nat \ {0}
  /\ Interval \in Nat
  /\ Timeout \in Nat
  /\ TripAfter \in Nat \ {0}

StateClosed   == "closed"
StateOpen     == "open"
StateHalfOpen == "half-open"
BreakerState  == {StateClosed, StateOpen, StateHalfOpen}

\* The zero time.Time, earlier than every reading of the clock.
ZeroTime == -1
Time     == Nat \cup {ZeroTime}

Counts == [Requests : Nat, TotalSuccesses : Nat, TotalFailures : Nat,
           ConsecutiveSuccesses : Nat, ConsecutiveFailures : Nat]

NoCounts == [Requests |-> 0, TotalSuccesses |-> 0, TotalFailures |-> 0,
             ConsecutiveSuccesses |-> 0, ConsecutiveFailures |-> 0]

Breaker == [state : BreakerState, generation : Nat, counts : Counts, expiry : Time]

\* A new breaker does not go through toNewGeneration: its first closed period
\* has the zero expiry.
NewCircuitBreaker ==
  [state |-> StateClosed, generation |-> 0, counts |-> NoCounts, expiry |-> ZeroTime]

Successes(counts) == counts.Requests - counts.ConsecutiveFailures

readyToTrip(counts) == counts.ConsecutiveFailures >= TripAfter

Expiry(state, now) ==
  IF state = StateOpen THEN now + Timeout
  ELSE IF state = StateClosed /\ Interval # 0 THEN now + Interval
  ELSE ZeroTime

toNewGenerationNoBump(b, now) ==  \* mutant: the generation is not advanced
  [b EXCEPT !.counts = NoCounts, !.expiry = Expiry(b.state, now)]

toNewGeneration(b, now) ==
  [b EXCEPT !.generation = @ + 1, !.counts = NoCounts, !.expiry = Expiry(b.state, now)]

setState(b, state, now) ==
  IF b.state = state THEN b ELSE toNewGeneration([b EXCEPT !.state = state], now)

\* Mutant: nothing ends an open period.
ExpiredClosedOnly(b, now) == b.state = StateClosed /\ b.expiry # ZeroTime /\ b.expiry < now

\* The period of breaker b is over when its clock reads now.
Expired(b, now) ==
  \/ b.state = StateClosed /\ b.expiry # ZeroTime /\ b.expiry < now
  \/ b.state = StateOpen /\ b.expiry < now

\* Mutant: a closed period lasts for ever.
currentStateNeverRenews(b, now) ==
  IF b.state = StateOpen /\ Expired(b, now) THEN setState(b, StateHalfOpen, now) ELSE b

\* Mutant: an open breaker is probed at once.
currentStateNoTimeout(b, now) ==
  IF b.state = StateOpen THEN setState(b, StateHalfOpen, now)
  ELSE IF Expired(b, now) THEN toNewGeneration(b, now) ELSE b

\* What currentState(now) leaves behind; the state and generation it returns
\* are those of the result.
currentState(b, now) ==
  IF ~Expired(b, now) THEN b
  ELSE IF b.state = StateOpen THEN setState(b, StateHalfOpen, now)
  ELSE toNewGeneration(b, now)

AdmitsOneMore(b) ==  \* mutant: off by one on the trial requests
  b.state = StateClosed \/ (b.state = StateHalfOpen /\ b.counts.Requests <= MaxRequests)

\* The switch of beforeRequest does not return ErrTooManyRequests.
Admits(b) ==
  b.state = StateClosed \/ (b.state = StateHalfOpen /\ b.counts.Requests < MaxRequests)

admitted(b) == [b EXCEPT !.counts.Requests = @ + 1]

CountSuccess(counts) ==
  [Requests             |-> counts.Requests,
   TotalSuccesses       |-> counts.TotalSuccesses + 1,
   TotalFailures        |-> counts.TotalFailures,
   ConsecutiveSuccesses |-> counts.ConsecutiveSuccesses + 1,
   ConsecutiveFailures  |-> 0]

CountFailure(counts) ==
  [Requests             |-> counts.Requests,
   TotalSuccesses       |-> counts.TotalSuccesses,
   TotalFailures        |-> counts.TotalFailures + 1,
   ConsecutiveSuccesses |-> 0,
   ConsecutiveFailures  |-> counts.ConsecutiveFailures + 1]

onSuccessStrict(b, now) ==  \* mutant: > for >= leaves the breaker half-open
  LET n == [b EXCEPT !.counts = CountSuccess(@)] IN
  IF n.state = StateHalfOpen /\ Successes(n.counts) > MaxRequests
  THEN setState(n, StateClosed, now) ELSE n

onSuccess(b, now) ==
  LET n == [b EXCEPT !.counts = CountSuccess(@)] IN
  IF n.state = StateHalfOpen /\ Successes(n.counts) >= MaxRequests
  THEN setState(n, StateClosed, now) ELSE n

onFailure(b, now) ==
  LET n == [b EXCEPT !.counts = CountFailure(@)] IN
  IF n.state = StateHalfOpen \/ (n.state = StateClosed /\ readyToTrip(n.counts))
  THEN setState(n, StateOpen, now) ELSE n

=============================================================================
