---------------------------- MODULE BreakerPromise ----------------------------
(***************************************************************************)
(* What a circuit breaker promises the backend behind it, without saying   *)
(* how it counts: it can cut the traffic off at any time, lets it back     *)
(* only through a half-open phase of at most MaxRequests trial requests,   *)
(* restores it only when that many trials were handed out, and falls back  *)
(* to open only on the evidence of a trial.                                *)
(* CircuitBreaker.tla is shown to implement this specification.            *)
(***************************************************************************)
EXTENDS Naturals

CONSTANT MaxRequests

VARIABLES
  mode,     \* what callers are told: "closed", "open" or "half-open"
  trials    \* requests let through since the half-open phase began

promiseVars == <<mode, trials>>

Init == mode = "closed" /\ trials = 0

\* Closed traffic is cut off.
Trip == mode = "closed" /\ mode' = "open" /\ trials' = 0

\* The half-open phase begins, perhaps with the request that began it as the
\* first trial.
Probe == mode = "open" /\ mode' = "half-open" /\ trials' \in {0, 1}

Trial ==
  /\ mode = "half-open" /\ trials < MaxRequests
  /\ trials' = trials + 1
  /\ mode' = mode

Recover == mode = "half-open" /\ trials = MaxRequests /\ mode' = "closed" /\ trials' = 0

Relapse == mode = "half-open" /\ trials > 0 /\ mode' = "open" /\ trials' = 0

Next == Trip \/ Probe \/ Trial \/ Recover \/ Relapse

Spec == Init /\ [][Next]_promiseVars

=============================================================================
