----------------------------- MODULE RateLimiter -----------------------------
(***************************************************************************)
(* RateLimiter.Allow (loadbalancer/ratelimiter.go) for one client key; the *)
(* buckets of other keys share nothing with it but the mutex.  Allow reads *)
(* the clock before it takes the mutex, so a goroutine may enter with a    *)
(* reading older than the one the bucket was last refilled with.           *)
(*                                                                         *)
(* Tokens are float64 in the code.  Here a token is Unit units and a tick  *)
(* of the clock refills Rate units, which covers rates below and above one *)
(* token a tick; the rounding of float64 is left out.                      *)
(***************************************************************************)
EXTENDS Integers

CONSTANTS
  Callers,    \* goroutines that serve requests of the client
  Capacity,   \* tokens a full bucket holds
  Warmup,     \* requests let through before the bucket counts (3 * capacity)
  Rate, Unit, \* units refilled per tick, units in a token
  MaxTime,    \* bound: the clock stops here
  MaxSpent    \* bound: tokens spent

ASSUME RateAssumption ==
  /\ Capacity \in Nat \ {0} /\ Warmup \in Nat
  /\ Rate \in Nat /\ Unit \in Nat \ {0}

VARIABLES
  bucket,   \* the client's tokenBucket; before its first request, a full one
  caller,   \* caller[c]: where c is in Allow, and the clock it read
  clock,    \* time.Now()
  spent,    \* history: requests let through for a token
  base      \* history: the time the bucket has been counting from

vars == <<bucket, caller, clock, spent, base>>

Full == Capacity * Unit

TypeOK ==
  /\ bucket \in [tokens : 0..Full, last : Nat, warmup : 0..Warmup]
  /\ caller \in [Callers -> [pc : {"out", "lock"}, now : Nat]]
  /\ clock \in Nat
  /\ spent \in Nat
  /\ base \in Nat

\* The bucket is made by the first request, full and with its reading of the
\* clock as last; both warm-up and refill of a full bucket replace that value.
Init ==
  /\ bucket = [tokens |-> Full, last |-> 0, warmup |-> Warmup]
  /\ caller = [c \in Callers |-> [pc |-> "out", now |-> 0]]
  /\ clock = 0
  /\ spent = 0
  /\ base = 0

\* now := time.Now(), before mux.Lock()
Now(c) ==
  /\ caller[c].pc = "out"
  /\ caller' = [caller EXCEPT ![c] = [pc |-> "lock", now |-> clock]]
  /\ UNCHANGED <<bucket, clock, spent, base>>

Leave(c) == caller' = [caller EXCEPT ![c].pc = "out"]

\* The first Warmup requests cost nothing.
WarmUp(c) ==
  /\ caller[c].pc = "lock" /\ bucket.warmup > 0
  /\ bucket' = [bucket EXCEPT !.warmup = @ - 1, !.last = caller[c].now]
  /\ base' = caller[c].now
  /\ Leave(c)
  /\ UNCHANGED <<clock, spent>>

Capped(n) == IF n > Full THEN Full ELSE n

\* Mutant: a refill does not stop at the capacity.
refilledUncapped(b, now) ==
  IF now > b.last THEN [b EXCEPT !.tokens = @ + (now - b.last) * Rate, !.last = now] ELSE b

refilledAnyOrder(b, now) ==  \* mutant: last is set back by an older reading
  IF now > b.last THEN [b EXCEPT !.tokens = Capped(@ + (now - b.last) * Rate), !.last = now]
  ELSE [b EXCEPT !.last = now]

\* The refill of a bucket by a request that read the clock at now.
refilled(b, now) ==
  IF now > b.last
  THEN [b EXCEPT !.tokens = Capped(@ + (now - b.last) * Rate), !.last = now]
  ELSE b

Allowed(c) ==
  LET b == refilled(bucket, caller[c].now) IN
  /\ caller[c].pc = "lock" /\ bucket.warmup = 0
  /\ b.tokens >= Unit
  /\ spent < MaxSpent
  /\ bucket' = [b EXCEPT !.tokens = @ - Unit]
  /\ spent' = spent + 1
  /\ Leave(c)
  /\ UNCHANGED <<clock, base>>

\* 429 Too Many Requests
Limited(c) ==
  LET b == refilled(bucket, caller[c].now) IN
  /\ caller[c].pc = "lock" /\ bucket.warmup = 0
  /\ b.tokens < Unit
  /\ bucket' = b
  /\ Leave(c)
  /\ UNCHANGED <<clock, spent, base>>

Tick ==
  /\ clock < MaxTime
  /\ clock' = clock + 1
  /\ UNCHANGED <<bucket, caller, spent, base>>

Next ==
  \/ \E c \in Callers : Now(c) \/ WarmUp(c) \/ Allowed(c) \/ Limited(c)
  \/ Tick

Spec == Init /\ [][Next]_vars

\* Since it began to count, the bucket has let through no more than its
\* capacity and what was refilled in that time, however far the goroutines'
\* readings of the clock are out of order (Allow, the test of elapsed).
RateBound == Unit * spent <= Full + Rate * (clock - base)

=============================================================================
