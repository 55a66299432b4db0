-------------------------- MODULE RateLimiterProofs --------------------------
(***************************************************************************)
(* For every capacity, rate and warm-up, and any number of goroutines, the *)
(* bucket of RateLimiter never lets through more than RateBound says.      *)
(*                                                                         *)
(* RateBound compares what was spent with the clock, but Allow refills to  *)
(* the reading of a request, so the induction is about the bucket's own    *)
(* time, last: tokens spent plus tokens left never exceed what the bucket  *)
(* held and was refilled with up to last (Ledger).                         *)
(***************************************************************************)
EXTENDS RateLimiter, TLAPS

\* No reading of the clock is ahead of it, nor the bucket ahead of the readings.
InThePast ==
  /\ base <= bucket.last /\ bucket.last <= clock
  /\ \A c \in Callers : caller[c].now <= clock

Untouched == bucket.warmup > 0 => spent = 0 /\ bucket.tokens = Full

Ledger == Unit * spent + bucket.tokens <= Full + Rate * (bucket.last - base)

IInv == TypeOK /\ InThePast /\ Untouched /\ Ledger

\* Unit and Rate times something, as integers the provers can add up.
LEMMA Products ==
  ASSUME NEW a \in Nat, NEW x \in Int, NEW y \in Int
  PROVE  /\ a * x \in Int
         /\ a * (x + y) = a * x + a * y
         /\ x >= 0 => a * x >= 0
  OBVIOUS

LEMMA FullType == Full \in Nat /\ Full >= 0
  BY RateAssumption DEF Full, RateAssumption

\* A refill keeps the bucket's type and its time order, and adds no more
\* tokens than the time between the two values of last is worth.
LEMMA RefilledBounds ==
  ASSUME NEW now \in Nat, TypeOK
  PROVE  LET b == refilled(bucket, now) IN
         /\ b \in [tokens : 0..Full, last : Nat, warmup : 0..Warmup]
         /\ b.warmup = bucket.warmup
         /\ bucket.last <= b.last
         /\ b.last = bucket.last \/ b.last = now
         /\ b.tokens <= bucket.tokens + Rate * (b.last - bucket.last)
<1>1. bucket.tokens \in 0..Full /\ bucket.last \in Nat /\ bucket.warmup \in 0..Warmup
  BY DEF TypeOK
<1>2. Rate * (bucket.last - bucket.last) = 0
  BY <1>1, RateAssumption DEF RateAssumption
<1>3. CASE now > bucket.last
  <2> DEFINE more == (now - bucket.last) * Rate
             t    == Capped(bucket.tokens + more)
  <2>1. now - bucket.last \in Nat
    BY <1>1, <1>3
  <2>2. more \in Nat /\ more = Rate * (now - bucket.last)
    BY <2>1, RateAssumption DEF RateAssumption
  <2>3. t \in 0..Full /\ t <= bucket.tokens + more
    <3> HIDE DEF more
    <3> QED BY <2>2, <1>1, FullType DEF Capped
  <2>4. refilled(bucket, now) = [bucket EXCEPT !.tokens = t, !.last = now]
    BY <1>3 DEF refilled
  <2>5. refilled(bucket, now) = [tokens |-> t, last |-> now, warmup |-> bucket.warmup]
    BY <2>4 DEF TypeOK
  <2> HIDE DEF t, more
  <2> QED BY <2>2, <2>3, <2>5, <1>1, <1>3
<1>4. CASE ~(now > bucket.last)
  BY <1>1, <1>2, <1>4 DEF refilled, TypeOK
<1> QED BY <1>3, <1>4

\* The ledger after a refill, before a token is taken.
LEMMA RefilledLedger ==
  ASSUME NEW now \in Nat, now <= clock, IInv
  PROVE  LET b == refilled(bucket, now) IN
         /\ b.last <= clock /\ base <= b.last
         /\ Unit * spent + b.tokens <= Full + Rate * (b.last - base)
<1> DEFINE b == refilled(bucket, now)
<1>1. /\ b \in [tokens : 0..Full, last : Nat, warmup : 0..Warmup]
      /\ bucket.last <= b.last
      /\ b.last = bucket.last \/ b.last = now
      /\ b.tokens <= bucket.tokens + Rate * (b.last - bucket.last)
  BY RefilledBounds DEF IInv
<1>2. bucket.tokens \in Nat /\ bucket.last \in Nat /\ base \in Nat /\ spent \in Nat /\ clock \in Nat
  BY FullType DEF IInv, TypeOK
<1> HIDE DEF b
<1>3. b.tokens \in Nat /\ b.last \in Nat
  BY <1>1, FullType
<1>4. b.last <= clock /\ base <= b.last
  BY <1>1, <1>2, <1>3 DEF IInv, InThePast
<1>5. Rate * (b.last - base) = Rate * (b.last - bucket.last) + Rate * (bucket.last - base)
  <2>1. b.last - base = (b.last - bucket.last) + (bucket.last - base)
    BY <1>2, <1>3
  <2>2. b.last - bucket.last \in Int /\ bucket.last - base \in Int
    BY <1>2, <1>3
  <2> QED BY <2>1, <2>2, Products, RateAssumption DEF RateAssumption
<1>6. /\ Rate * (b.last - bucket.last) \in Int
      /\ Rate * (bucket.last - base) \in Int
      /\ Unit * spent \in Int
  BY <1>2, <1>3, Products, RateAssumption DEF RateAssumption
<1>7. Unit * spent + bucket.tokens <= Full + Rate * (bucket.last - base)
  BY DEF IInv, Ledger
<1>8. Unit * spent + b.tokens <= Full + Rate * (b.last - base)
  BY <1>1, <1>2, <1>3, <1>5, <1>6, <1>7, FullType
<1> QED BY <1>4, <1>8 DEF b

LEMMA Initially == Init => IInv
<1> SUFFICES ASSUME Init PROVE IInv
  OBVIOUS
<1>1. TypeOK
  BY FullType, RateAssumption DEF Init, TypeOK, RateAssumption
<1>2. InThePast /\ Untouched
  BY DEF Init, InThePast, Untouched
<1>3. Ledger
  <2>1. Unit * 0 = 0 /\ Rate * (0 - 0) = 0
    BY RateAssumption DEF RateAssumption
  <2> QED BY <2>1, FullType DEF Init, Ledger
<1> QED BY <1>1, <1>2, <1>3 DEF IInv

\* Steps that leave the bucket and the ledger alone.
LEMMA ClockSteps ==
  ASSUME IInv, Tick \/ (\E c \in Callers : Now(c)) \/ UNCHANGED vars
  PROVE  IInv'
<1>1. UNCHANGED <<bucket, spent, base>> /\ clock' \in Nat /\ clock <= clock'
  BY DEF IInv, TypeOK, Tick, Now, vars
<1>2. Untouched' /\ Ledger'
  BY <1>1 DEF IInv, Untouched, Ledger, Full
<1>3. /\ caller' \in [Callers -> [pc : {"out", "lock"}, now : Nat]]
      /\ \A c \in Callers : caller'[c].now <= clock'
  BY DEF IInv, TypeOK, InThePast, Tick, Now, vars
<1>4. TypeOK' /\ InThePast'
  BY <1>1, <1>3 DEF IInv, TypeOK, InThePast, Full
<1> QED BY <1>2, <1>4 DEF IInv

LEMMA LeaveKeepsCallers ==
  ASSUME IInv, NEW c \in Callers, Leave(c), UNCHANGED clock
  PROVE  /\ caller' \in [Callers -> [pc : {"out", "lock"}, now : Nat]]
         /\ \A d \in Callers : caller'[d].now <= clock'
  BY DEF IInv, TypeOK, InThePast, Leave

LEMMA WarmUpStep ==
  ASSUME IInv, NEW c \in Callers, WarmUp(c)
  PROVE  IInv'
<1> DEFINE now == caller[c].now
<1>1. now \in Nat /\ now <= clock
  BY DEF IInv, TypeOK, InThePast
<1>2. bucket.warmup \in 1..Warmup /\ bucket.tokens = Full /\ spent = 0
  BY RateAssumption DEF IInv, TypeOK, WarmUp, Untouched, RateAssumption
<1>3. bucket' = [tokens |-> Full, last |-> now, warmup |-> bucket.warmup - 1]
  BY <1>2 DEF WarmUp, IInv, TypeOK
<1>4. base' = now /\ spent' = 0 /\ clock' = clock
  BY <1>2 DEF WarmUp
<1>5. TypeOK' /\ InThePast'
  <2>1. bucket.warmup - 1 \in 0..Warmup /\ Full \in 0..Full
    BY <1>2, FullType, RateAssumption DEF RateAssumption
  <2>2. bucket' \in [tokens : 0..Full, last : Nat, warmup : 0..Warmup] /\ bucket'.last = now
    BY <2>1, <1>1, <1>3
  <2>3. Leave(c) /\ UNCHANGED clock
    BY DEF WarmUp
  <2>4. /\ caller' \in [Callers -> [pc : {"out", "lock"}, now : Nat]]
        /\ \A d \in Callers : caller'[d].now <= clock'
    BY <2>3, LeaveKeepsCallers
  <2> HIDE DEF now
  <2> QED BY <2>2, <2>4, <1>1, <1>4 DEF IInv, TypeOK, InThePast, Full
<1>6. Untouched'
  BY <1>3, <1>4 DEF Untouched, Full
<1>7. Ledger'
  <2>1. Unit * 0 = 0 /\ Rate * (now - now) = 0
    BY <1>1, RateAssumption DEF RateAssumption
  <2>2. Unit * spent' + bucket'.tokens <= Full + Rate * (bucket'.last - base')
    BY <2>1, <1>3, <1>4, FullType
  <2> QED BY <2>2 DEF Ledger, Full
<1> QED BY <1>5, <1>6, <1>7 DEF IInv

LEMMA LimitedStep ==
  ASSUME IInv, NEW c \in Callers, Limited(c)
  PROVE  IInv'
<1> DEFINE b == refilled(bucket, caller[c].now)
<1>1. caller[c].now \in Nat /\ caller[c].now <= clock
  BY DEF IInv, TypeOK, InThePast
<1>2. /\ b \in [tokens : 0..Full, last : Nat, warmup : 0..Warmup]
      /\ b.warmup = bucket.warmup
  BY <1>1, RefilledBounds DEF IInv
<1>3. /\ b.last <= clock /\ base <= b.last
      /\ Unit * spent + b.tokens <= Full + Rate * (b.last - base)
  BY <1>1, RefilledLedger
<1>4. bucket' = b /\ bucket.warmup = 0 /\ UNCHANGED <<clock, spent, base>> /\ Leave(c)
  BY DEF Limited
<1> HIDE DEF b
<1>5. TypeOK' /\ InThePast'
  BY <1>2, <1>3, <1>4, LeaveKeepsCallers DEF IInv, TypeOK, InThePast, Full
<1>6. Untouched' /\ Ledger'
  BY <1>2, <1>3, <1>4 DEF Untouched, Ledger, Full
<1> QED BY <1>5, <1>6 DEF IInv

LEMMA AllowedStep ==
  ASSUME IInv, NEW c \in Callers, Allowed(c)
  PROVE  IInv'
<1> DEFINE b == refilled(bucket, caller[c].now)
<1>1. caller[c].now \in Nat /\ caller[c].now <= clock
  BY DEF IInv, TypeOK, InThePast
<1>2. /\ b \in [tokens : 0..Full, last : Nat, warmup : 0..Warmup]
      /\ b.warmup = bucket.warmup
  BY <1>1, RefilledBounds DEF IInv
<1>3. /\ b.last <= clock /\ base <= b.last
      /\ Unit * spent + b.tokens <= Full + Rate * (b.last - base)
  BY <1>1, RefilledLedger
<1>4. /\ bucket' = [b EXCEPT !.tokens = @ - Unit]
      /\ b.tokens >= Unit /\ bucket.warmup = 0
      /\ spent' = spent + 1 /\ UNCHANGED <<clock, base>> /\ Leave(c)
  BY DEF Allowed
<1> HIDE DEF b
<1>5. bucket' = [tokens |-> b.tokens - Unit, last |-> b.last, warmup |-> b.warmup]
  BY <1>2, <1>4
<1>6. b.tokens \in 0..Full /\ b.last \in Nat /\ b.tokens - Unit \in 0..Full
  BY <1>2, <1>4, FullType, RateAssumption DEF RateAssumption
<1>7. spent \in Nat /\ base \in Nat /\ clock \in Nat
  BY DEF IInv, TypeOK
<1>8. TypeOK' /\ InThePast'
  BY <1>2, <1>3, <1>4, <1>5, <1>6, <1>7, LeaveKeepsCallers
     DEF TypeOK, InThePast, Full
<1>9. Untouched'
  BY <1>2, <1>4, <1>5 DEF Untouched
<1>10. Ledger'
  <2>1. Unit * (spent + 1) = Unit * spent + Unit
    BY <1>7, RateAssumption DEF RateAssumption
  <2>2. Unit * spent \in Int /\ Unit \in Nat /\ Rate * (b.last - base) \in Int
    BY <1>6, <1>7, Products, RateAssumption DEF RateAssumption
  <2>3. Unit * spent' + bucket'.tokens <= Full + Rate * (bucket'.last - base')
    BY <2>1, <2>2, <1>3, <1>4, <1>5, <1>6, FullType
  <2> QED BY <2>3 DEF Ledger, Full
<1> QED BY <1>8, <1>9, <1>10 DEF IInv

LEMMA Inductive == IInv /\ [Next]_vars => IInv'
  BY ClockSteps, WarmUpStep, LimitedStep, AllowedStep DEF Next

LEMMA Invariant == Spec => []IInv
  BY Initially, Inductive, PTL DEF Spec

\* The bucket never holds more than its capacity nor less than nothing, and no
\* warm-up count goes below zero, for any interleaving of Allow's callers.
THEOREM TypeCorrect == Spec => []TypeOK
<1>1. IInv => TypeOK
  BY DEF IInv
<1> QED BY <1>1, Invariant, PTL

\* The bucket lets through no more than its capacity plus what was refilled,
\* although goroutines come to the mutex with readings of the clock that are
\* out of order.
THEOREM RateIsBounded == Spec => []RateBound
<1>1. IInv => RateBound
  <2> SUFFICES ASSUME IInv PROVE RateBound
    OBVIOUS
  <2>1. /\ clock \in Nat /\ base \in Nat /\ spent \in Nat
        /\ bucket.last \in Nat /\ bucket.tokens \in Nat
    BY FullType DEF IInv, TypeOK
  <2>2. clock - bucket.last \in Nat /\ bucket.last - base \in Int
    BY <2>1 DEF IInv, InThePast
  <2>3. clock - base = (bucket.last - base) + (clock - bucket.last)
    BY <2>1
  <2>4. Rate * (clock - base) = Rate * (bucket.last - base) + Rate * (clock - bucket.last)
    BY <2>2, <2>3, Products, RateAssumption DEF RateAssumption
  <2>5. /\ Rate * (clock - bucket.last) \in Int /\ Rate * (clock - bucket.last) >= 0
        /\ Rate * (bucket.last - base) \in Int /\ Unit * spent \in Int
    BY <2>1, <2>2, Products, RateAssumption DEF RateAssumption
  <2>6. Unit * spent + bucket.tokens <= Full + Rate * (bucket.last - base)
    BY DEF IInv, Ledger
  <2> QED BY <2>1, <2>4, <2>5, <2>6, FullType DEF RateBound
<1> QED BY <1>1, Invariant, PTL

=============================================================================
