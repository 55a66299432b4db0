------------------------- MODULE CircuitBreakerProofs -------------------------
(***************************************************************************)
(* Theorems about CircuitBreaker, for any set of callers and readers and   *)
(* any options.  The inductive invariant is IInv: what the breaker's       *)
(* counters say of the calls in flight (Sound, about a breaker and the     *)
(* calls whatever the step that led to them), where the readers inside     *)
(* State() are (ReadersLate), and when the breaker tripped (Quarantine).   *)
(* Timely is added to it for what speaks of the interval: how far ahead    *)
(* the expiry of a closed period may lie.                                  *)
(***************************************************************************)
EXTENDS CircuitBreaker, BreakerOpsProofs, FiniteSetTheorems

\* A reader about to store a generation read it when no later call existed,
\* and one that is past the state assignment has left the open state.  As
\* long as a reader is inside, no trial has been admitted.
ReadersLate ==
  \A r \in Readers :
    /\ reader[r].pc = "store" => \A c \in Callers : call[c] <= reader[r].generation
    /\ reader[r].pc \in {"store", "leave"} => cb.state # StateOpen
    /\ reader[r].pc # "out" /\ cb.state = StateHalfOpen => cb.counts = NoCounts

\* An open breaker expires Timeout after it tripped; a breaker that is not
\* open, or that a reader is about to renew, tripped earlier than that.
Quarantine ==
  /\ cb.state = StateOpen => trippedAt # Never /\ cb.expiry = trippedAt + Timeout
  /\ cb.state # StateOpen \/ ~Unread => trippedAt = Never \/ clock > trippedAt + Timeout

IInv == TypeOK /\ Sound(Callers, cb, call) /\ ReadersLate /\ Quarantine

-----------------------------------------------------------------------------
(* The quarantine through the critical sections *)

\* The breaker a request finds is open only if it was and has not expired.
LEMMA QuarantineCurrent ==
  ASSUME TypeOK, Quarantine, Unread, NEW b, b = currentState(cb, clock)
  PROVE  /\ b.state = StateOpen => b = cb
         /\ b.state # StateOpen => trippedAt = Never \/ clock > trippedAt + Timeout
<1>1. CASE b = cb
  BY <1>1 DEF Quarantine
<1>2. CASE b # cb
  <2>1. Expired(cb, clock) /\ b.state # StateOpen
    BY <1>2, CurrentStateCases
       DEF TypeOK, Renewed, StateOpen, StateClosed, StateHalfOpen
  <2>2. CASE cb.state = StateOpen
    <3>1. cb.expiry < clock  BY <2>1, <2>2 DEF Expired, StateOpen, StateClosed
    <3>2. QED  BY <2>1, <2>2, <3>1 DEF Quarantine
  <2>3. CASE cb.state # StateOpen
    BY <2>1, <2>3 DEF Quarantine
  <2>4. QED  BY <2>2, <2>3
<1>3. QED  BY <1>1, <1>2

LEMMA QuarantineRemember ==
  ASSUME TypeOK, Quarantine, Unread, UNCHANGED <<reader, clock>>,
         NEW b, b = currentState(cb, clock), NEW n, Remember(n),
         \/ n.state = b.state /\ n.expiry = b.expiry
         \/ n.state # StateOpen /\ b.state # StateOpen
         \/ b = cb /\ cb.state # StateOpen /\ Renewed(cb, n, StateOpen, clock)
  PROVE  Quarantine'
<1>1. Unread'  BY DEF Unread
<1>2. CASE n.state # StateOpen /\ b.state # StateOpen
  BY <1>1, <1>2, QuarantineCurrent DEF Quarantine, Remember
<1>3. CASE n.state = StateOpen /\ b.state = StateOpen /\ n.expiry = b.expiry
  BY <1>1, <1>3, QuarantineCurrent DEF Quarantine, Remember
<1>4. CASE b = cb /\ cb.state # StateOpen /\ Renewed(cb, n, StateOpen, clock)
  <2>1. n.state = StateOpen /\ n.expiry = clock + Timeout
    BY <1>4 DEF Renewed, Expiry
  <2>2. trippedAt' = clock /\ cb' = n  BY <1>4, <2>1 DEF Remember
  <2>3. clock # Never  BY DEF TypeOK, Never
  <2>4. QED  BY <1>1, <2>1, <2>2, <2>3 DEF Quarantine
<1>5. QED  BY <1>2, <1>3, <1>4

-----------------------------------------------------------------------------
(* The inductive invariant *)

\* The calls of a typed state are calls of finitely many callers.
LEMMA CallsType == TypeOK => call \in CallsOf(Callers) /\ IsFiniteSet(Callers)
BY CallersAssumption DEF TypeOK, CallsOf, NoCall, NotRunning

LEMMA InitIInv == Init => IInv
<1> SUFFICES ASSUME Init PROVE IInv
  OBVIOUS
<1>1. TypeOK
  BY DEF Init, TypeOK, NewCircuitBreaker, Breaker, BreakerState, NoCounts, Counts,
         Time, ZeroTime, ReaderState, NoCall, Never
<1>2. Sound(Callers, cb, call)
  <2>1. cb \in Breaker /\ cb.generation = 0 /\ cb.counts = NoCounts
    BY <1>1 DEF TypeOK, Init, NewCircuitBreaker
  <2>2. call \in CallsOf(Callers) /\ \A c \in Callers : call[c] < 0
    BY DEF Init, CallsOf, NoCall, NotRunning
  <2>3. QED  BY <2>1, <2>2, SoundRenewed, CallersAssumption
<1>3. ReadersLate  BY DEF Init, ReadersLate
<1>4. Quarantine
  BY DEF Init, Quarantine, NewCircuitBreaker, StateOpen, StateClosed, Never
<1>5. QED  BY <1>1, <1>2, <1>3, <1>4 DEF IInv

\* What Remember records is typed if the breaker it stores is.
LEMMA RememberType ==
  ASSUME TypeOK, NEW n \in Breaker, Remember(n), call' \in CallsOf(Callers),
         UNCHANGED <<reader, clock>>
  PROVE  TypeOK'
BY DEF TypeOK, Remember, CallsOf, Never, NoCall, NotRunning

\* Nobody is inside State() after a step taken with the mutex.
LEMMA UnreadLate ==
  ASSUME Unread, UNCHANGED reader
  PROVE  ReadersLate'
BY DEF Unread, ReadersLate

LEMMA BeforeRequestIInv ==
  ASSUME IInv, NEW c \in Callers, beforeRequest(c)
  PROVE  IInv'
<1> DEFINE b == currentState(cb, clock)
<1>1. /\ TypeOK /\ Sound(Callers, cb, call) /\ Quarantine /\ Unread /\ call[c] = NoCall
      /\ UNCHANGED <<reader, clock>>
      /\ cb \in Breaker /\ call \in CallsOf(Callers) /\ clock \in Nat
      /\ IsFiniteSet(Callers)
  BY CallsType DEF IInv, beforeRequest, TypeOK
<1>2. b \in Breaker /\ Sound(Callers, b, call)  BY <1>1, SoundCurrent
<1>3. ReadersLate'  BY <1>1, UnreadLate
<1>4. CASE Admitted(c)
  <2>1. Admits(b) /\ Remember(admitted(b)) /\ call' = [call EXCEPT ![c] = b.generation]
    BY <1>4 DEF Admitted
  <2>2. call[c] = NotRunning /\ call' = With(call, c, b.generation)
    BY <1>1, <2>1 DEF With, NoCall, NotRunning
  <2>3. admitted(b) \in Breaker /\ call' \in CallsOf(Callers)
        /\ Sound(Callers, admitted(b), call')
    BY <1>1, <1>2, <2>1, <2>2, SoundAdmitted
  <2>4. admitted(b).state = b.state /\ admitted(b).expiry = b.expiry
    BY <1>2 DEF admitted, Breaker
  <2>5. Quarantine'  BY <1>1, <2>1, <2>4, QuarantineRemember
  <2>6. cb' = admitted(b)  BY <2>1 DEF Remember
  <2>7. QED  BY <1>1, <1>3, <2>1, <2>3, <2>5, <2>6, RememberType DEF IInv
<1>5. CASE Refused(c)
  <2>1. Remember(b) /\ call' = call  BY <1>5 DEF Refused
  <2>2. Quarantine'  BY <1>1, <2>1, QuarantineRemember
  <2>3. cb' = b      BY <2>1 DEF Remember
  <2>4. QED  BY <1>1, <1>2, <1>3, <2>1, <2>2, <2>3, RememberType DEF IInv
<1>6. QED  BY <1>4, <1>5 DEF beforeRequest

LEMMA AfterRequestIInv ==
  ASSUME IInv, NEW c \in Callers, NEW success \in BOOLEAN, afterRequest(c, success)
  PROVE  IInv'
<1> DEFINE b == currentState(cb, clock)
<1>1. /\ TypeOK /\ Sound(Callers, cb, call) /\ Quarantine /\ Unread
      /\ UNCHANGED <<reader, clock>>
      /\ call' = With(call, c, NotRunning)
      /\ cb \in Breaker /\ call \in CallsOf(Callers) /\ clock \in Nat
      /\ IsFiniteSet(Callers)
  BY CallsType DEF IInv, afterRequest, TypeOK, With, NoCall, NotRunning
<1>2. b \in Breaker /\ Sound(Callers, b, call)  BY <1>1, SoundCurrent
<1>3. ReadersLate'  BY <1>1, UnreadLate
<1>4. SUFFICES ASSUME NEW n \in Breaker, Remember(n), call' \in CallsOf(Callers), Sound(Callers, n, call'),
                      Quarantine'
               PROVE  IInv'
  <2>1. CASE b.generation # call[c]
    <3>1. Remember(b)  BY <2>1 DEF afterRequest
    <3>2. call' \in CallsOf(Callers) /\ Sound(Callers, b, call')  BY <1>1, <1>2, <2>1, SoundLate
    <3>3. Quarantine'  BY <1>1, <3>1, QuarantineRemember
    <3>4. QED  BY <1>2, <1>4, <3>1, <3>2, <3>3
  <2>2. CASE b.generation = call[c] /\ success
    <3>1. Remember(onSuccess(b, clock))  BY <2>2 DEF afterRequest
    <3>2. onSuccess(b, clock) \in Breaker /\ call' \in CallsOf(Callers)
          /\ Sound(Callers, onSuccess(b, clock), call')
      BY <1>1, <1>2, <2>2, SoundSuccess
    <3>3. \/ onSuccess(b, clock).state = b.state /\ onSuccess(b, clock).expiry = b.expiry
          \/ onSuccess(b, clock).state # StateOpen /\ b.state # StateOpen
      BY <1>1, <1>2, OnSuccessCases
         DEF Renewed, Breaker, StateOpen, StateClosed, StateHalfOpen
    <3>4. Quarantine'  BY <1>1, <3>1, <3>3, QuarantineRemember
    <3>5. QED  BY <1>4, <3>1, <3>2, <3>4
  <2>3. CASE b.generation = call[c] /\ ~success
    <3>1. Remember(onFailure(b, clock))  BY <2>3 DEF afterRequest
    <3>2. onFailure(b, clock) \in Breaker /\ call' \in CallsOf(Callers)
          /\ Sound(Callers, onFailure(b, clock), call')
      BY <1>1, <1>2, <2>3, SoundFailure
    <3>3. b = cb  BY <1>1, <2>3, CountedFindsBreaker
    <3>4. \/ onFailure(b, clock).state = b.state /\ onFailure(b, clock).expiry = b.expiry
          \/ cb.state # StateOpen /\ Renewed(cb, onFailure(b, clock), StateOpen, clock)
      BY <1>1, <3>3, OnFailureCases DEF Breaker
    <3>5. Quarantine'  BY <1>1, <3>1, <3>3, <3>4, QuarantineRemember
    <3>6. QED  BY <1>4, <3>1, <3>2, <3>5
  <2>4. QED  BY <2>1, <2>2, <2>3
<1>5. cb' = n  BY <1>4 DEF Remember
<1>6. QED  BY <1>1, <1>3, <1>4, <1>5, RememberType DEF IInv

-----------------------------------------------------------------------------
(* The steps of State *)

LEMMA StateEnterIInv ==
  ASSUME IInv, NEW r \in Readers, StateEnter(r)
  PROVE  IInv'
<1>1. /\ TypeOK /\ Sound(Callers, cb, call) /\ ReadersLate /\ Quarantine
      /\ UNCHANGED <<cb, call, clock, trippedAt, streakFrom>>
      /\ reader' = [reader EXCEPT ![r].pc = "renew", ![r].now = clock]
      /\ Expired(cb, clock)
  BY DEF IInv, StateEnter
<1>2. reader' \in [Readers -> ReaderState]
  BY <1>1 DEF TypeOK, ReaderState
<1>3. TypeOK'  BY <1>1, <1>2 DEF TypeOK
<1>4. \A q \in Readers : reader'[q].pc = IF q = r THEN "renew" ELSE reader[q].pc
  BY <1>1 DEF TypeOK, ReaderState
<1>5. \A q \in Readers : q # r => reader'[q] = reader[q]
  BY <1>1 DEF TypeOK
<1>6. ReadersLate'
  <2>1. cb.state # StateHalfOpen
    BY <1>1 DEF Expired, StateOpen, StateClosed, StateHalfOpen
  <2>2. SUFFICES ASSUME NEW q \in Readers
                 PROVE  /\ reader'[q].pc = "store"
                             => \A c \in Callers : call[c] <= reader'[q].generation
                        /\ reader'[q].pc \in {"store", "leave"} => cb.state # StateOpen
    BY <1>1, <2>1 DEF ReadersLate
  <2>3. CASE q = r  BY <1>4, <2>3
  <2>4. CASE q # r  BY <1>1, <1>5, <2>4 DEF ReadersLate
  <2>5. QED  BY <2>3, <2>4
<1>7. Quarantine'
  BY <1>1 DEF TypeOK, Quarantine, Expired, StateOpen, StateClosed
<1>8. QED  BY <1>1, <1>3, <1>6, <1>7 DEF IInv

LEMMA StateAssignIInv ==
  ASSUME IInv, NEW r \in Readers, StateAssign(r)
  PROVE  IInv'
<1>1. /\ TypeOK /\ Sound(Callers, cb, call) /\ ReadersLate /\ Quarantine
      /\ UNCHANGED <<call, clock, trippedAt, streakFrom>>
      /\ reader[r].pc = "renew"
      /\ cb' = [cb EXCEPT !.state = IF cb.state = StateOpen THEN StateHalfOpen ELSE cb.state]
      /\ reader' = [reader EXCEPT ![r].pc = "store", ![r].generation = cb.generation]
  BY DEF IInv, StateAssign
<1>2. reader' \in [Readers -> ReaderState]
  BY <1>1 DEF TypeOK, ReaderState, Breaker
<1>3. /\ cb' \in Breaker /\ cb'.generation = cb.generation /\ cb'.counts = cb.counts
      /\ cb'.state = IF cb.state = StateOpen THEN StateHalfOpen ELSE cb.state
  BY <1>1 DEF TypeOK, Breaker, BreakerState
<1>4. TypeOK'  BY <1>1, <1>2, <1>3 DEF TypeOK
<1>5. \A q \in Readers : reader'[q] =
        IF q = r THEN [reader[r] EXCEPT !.pc = "store", !.generation = cb.generation]
        ELSE reader[q]
  BY <1>1 DEF TypeOK
<1>6. reader'[r].generation = cb.generation
  BY <1>1, <1>5 DEF TypeOK, ReaderState
<1>7. cb'.state # StateOpen  BY <1>3 DEF StateOpen, StateHalfOpen
<1>8. ReadersLate'
  <2>1. cb'.state = StateHalfOpen => cb.counts = NoCounts
    BY <1>1, <1>3 DEF ReadersLate, Sound
  <2>2. SUFFICES ASSUME NEW q \in Readers
                 PROVE  reader'[q].pc = "store"
                          => \A c \in Callers : call[c] <= reader'[q].generation
    BY <1>1, <1>3, <1>7, <2>1 DEF ReadersLate
  <2>3. CASE q = r  BY <1>1, <1>6, <2>3 DEF Sound
  <2>4. CASE q # r  BY <1>1, <1>5, <2>4 DEF ReadersLate
  <2>5. QED  BY <2>3, <2>4
<1>9. Sound(Callers, cb', call')
  BY <1>1, <1>3, <1>7, BreakerAssumption DEF Sound, NoCounts
<1>10. trippedAt = Never \/ clock > trippedAt + Timeout
  BY <1>1 DEF Quarantine, Unread
<1>11. Quarantine'  BY <1>1, <1>7, <1>10 DEF Quarantine
<1>12. QED  BY <1>4, <1>8, <1>9, <1>11 DEF IInv

LEMMA StateStoreIInv ==
  ASSUME IInv, NEW r \in Readers, StateStore(r)
  PROVE  IInv'
<1>1. /\ TypeOK /\ Sound(Callers, cb, call) /\ ReadersLate /\ Quarantine
      /\ UNCHANGED <<call, clock, trippedAt>> /\ streakFrom' = Never
      /\ reader[r].pc = "store" /\ reader[r].generation \in Nat
      /\ cb' = [cb EXCEPT !.generation = reader[r].generation + 1, !.counts = NoCounts]
      /\ reader' = [reader EXCEPT ![r].pc = "leave"]
  BY DEF IInv, StateStore, TypeOK, ReaderState
<1>2. reader' \in [Readers -> ReaderState]
  BY <1>1 DEF TypeOK, ReaderState
<1>3. /\ cb' \in Breaker /\ cb'.generation = reader[r].generation + 1
      /\ cb'.counts = NoCounts /\ cb'.state = cb.state
  <2>1. cb = [state |-> cb.state, generation |-> cb.generation,
              counts |-> cb.counts, expiry |-> cb.expiry]
    BY <1>1 DEF TypeOK, Breaker
  <2>2. cb' = [state |-> cb.state, generation |-> reader[r].generation + 1,
               counts |-> NoCounts, expiry |-> cb.expiry]
    BY <1>1, <2>1
  <2>3. NoCounts \in Counts  BY DEF NoCounts, Counts
  <2>4. cb.state \in BreakerState /\ cb.expiry \in Time /\ reader[r].generation + 1 \in Nat
    BY <1>1 DEF TypeOK, Breaker
  <2>5. cb' \in Breaker  BY <2>2, <2>3, <2>4 DEF Breaker
  <2>6. QED  BY <2>2, <2>5
<1>4. TypeOK'  BY <1>1, <1>2, <1>3 DEF TypeOK
<1>5. \A q \in Readers : q # r => reader'[q] = reader[q]
  BY <1>1 DEF TypeOK
<1>6. reader'[r].pc = "leave"
  BY <1>1 DEF TypeOK, ReaderState
<1>7. ReadersLate'
  <2>1. SUFFICES ASSUME NEW q \in Readers
                 PROVE  /\ reader'[q].pc = "store"
                             => \A c \in Callers : call[c] <= reader'[q].generation
                        /\ reader'[q].pc \in {"store", "leave"} => cb.state # StateOpen
    BY <1>1, <1>3 DEF ReadersLate
  <2>2. CASE q = r  BY <1>1, <1>6, <2>2 DEF ReadersLate
  <2>3. CASE q # r  BY <1>1, <1>5, <2>3 DEF ReadersLate
  <2>4. QED  BY <2>2, <2>3
<1>8. call' \in CallsOf(Callers) /\ \A c \in Callers : call'[c] < cb'.generation
  BY <1>1, <1>3, CallsType DEF ReadersLate, CallsOf, NotRunning
<1>9. Sound(Callers, cb', call')  BY <1>3, <1>8, SoundRenewed, CallersAssumption
<1>10. cb.state # StateOpen  BY <1>1 DEF ReadersLate
<1>11. Quarantine'  BY <1>1, <1>3, <1>10 DEF Quarantine
<1>12. QED  BY <1>4, <1>7, <1>9, <1>11 DEF IInv

LEMMA StateLeaveIInv ==
  ASSUME IInv, NEW r \in Readers, StateLeave(r)
  PROVE  IInv'
<1>1. /\ TypeOK /\ Sound(Callers, cb, call) /\ ReadersLate /\ Quarantine
      /\ UNCHANGED <<call, clock, trippedAt, streakFrom>>
      /\ reader[r].pc = "leave" /\ reader[r].now \in Nat
      /\ cb' = [cb EXCEPT !.expiry = Expiry(cb.state, reader[r].now)]
      /\ reader' = [reader EXCEPT ![r].pc = "out"]
  BY DEF IInv, StateLeave, TypeOK, ReaderState
<1>2. reader' \in [Readers -> ReaderState]
  BY <1>1 DEF TypeOK, ReaderState
<1>3. Expiry(cb.state, reader[r].now) \in Time
  BY <1>1, ExpiryType DEF TypeOK, Breaker
<1>4. /\ cb' \in Breaker /\ cb'.generation = cb.generation
      /\ cb'.counts = cb.counts /\ cb'.state = cb.state
  BY <1>1, <1>3 DEF TypeOK, Breaker
<1>5. TypeOK'  BY <1>1, <1>2, <1>4 DEF TypeOK
<1>6. \A q \in Readers : q # r => reader'[q] = reader[q]
  BY <1>1 DEF TypeOK
<1>7. reader'[r].pc = "out"  BY <1>1 DEF TypeOK, ReaderState
<1>8. ReadersLate'  BY <1>1, <1>4, <1>6, <1>7 DEF ReadersLate
<1>9. Sound(Callers, cb', call')  BY <1>1, <1>4 DEF Sound
<1>10. cb.state # StateOpen  BY <1>1 DEF ReadersLate
<1>11. Quarantine'  BY <1>1, <1>4, <1>10 DEF Quarantine
<1>12. QED  BY <1>5, <1>8, <1>9, <1>11 DEF IInv

LEMMA TickIInv ==
  ASSUME IInv, Tick
  PROVE  IInv'
<1>1. TypeOK'  BY DEF IInv, Tick, TypeOK
<1>2. Quarantine'
  BY BreakerAssumption DEF IInv, Tick, TypeOK, Quarantine, Unread, Never
<1>3. QED  BY <1>1, <1>2 DEF IInv, Tick, ReadersLate

LEMMA NextIInv == IInv /\ [Next]_vars => IInv'
<1> SUFFICES ASSUME IInv, [Next]_vars PROVE IInv'
  OBVIOUS
<1>1. ASSUME NEW c \in Callers, beforeRequest(c) PROVE IInv'
  BY <1>1, BeforeRequestIInv
<1>2. ASSUME NEW c \in Callers, reqReturns(c) PROVE IInv'
  BY <1>2, AfterRequestIInv DEF reqReturns
<1>3. ASSUME NEW c \in Callers, reqPanics(c) PROVE IInv'
  BY <1>3, AfterRequestIInv DEF reqPanics
<1>4. ASSUME NEW r \in Readers, State(r), ~UNCHANGED vars PROVE IInv'
  BY <1>4, StateEnterIInv, StateAssignIInv, StateStoreIInv, StateLeaveIInv
     DEF State, StateFresh
<1>5. ASSUME Tick PROVE IInv'
  BY <1>5, TickIInv
<1>6. ASSUME UNCHANGED vars PROVE IInv'
  BY <1>6 DEF vars, IInv, TypeOK, ReadersLate, Quarantine, Unread
<1>7. QED  BY <1>1, <1>2, <1>3, <1>4, <1>5, <1>6 DEF Next

\* The inductive invariant holds, whatever callers, readers and the clock do.
THEOREM Inductive == Spec => []IInv
<1>1. QED  BY InitIInv, NextIInv, PTL DEF Spec

-----------------------------------------------------------------------------
(* The theorems *)

\* The model's variables keep their types.
THEOREM TypeCorrect == Spec => []TypeOK
<1>1. IInv => TypeOK  BY DEF IInv
<1>2. QED  BY <1>1, Inductive, PTL

\* However many callers there are and however their calls end, race with
\* renewals or come late, the counters of the current period account for
\* exactly the calls it admitted.
THEOREM Accounting == Spec => []InFlightAccounted
<1>1. IInv => InFlightAccounted
  BY DEF IInv, Sound, In, InFlightAccounted, Pending
<1>2. QED  BY <1>1, Inductive, PTL

\* No request is in flight for the period of an open breaker.
THEOREM OpenIsIdle == Spec => []OpenHasNoCalls
<1>1. ASSUME IInv PROVE OpenHasNoCalls
  <2>1. SUFFICES ASSUME cb.state = StateOpen PROVE Pending = {} /\ cb.counts = NoCounts
    BY DEF OpenHasNoCalls
  <2>2. cb.counts = NoCounts /\ Cardinality(In(Callers, cb.generation, call)) = 0
    BY <1>1, <2>1 DEF IInv, Sound, NoCounts
  <2>3. Pending = In(Callers, cb.generation, call)  BY DEF Pending, In
  <2>4. QED  BY <2>2, <2>3, InFinite, FS_EmptySet, CallersAssumption
<1>2. QED  BY <1>1, Inductive, PTL

\* A half-open breaker that refuses requests always has a trial in flight.
THEOREM NeverStranded == Spec => []HalfOpenNotStranded
<1>1. ASSUME IInv PROVE HalfOpenNotStranded
  <2>1. SUFFICES ASSUME cb.state = StateHalfOpen, cb.counts.Requests >= MaxRequests
                 PROVE  Pending # {}
    BY DEF HalfOpenNotStranded
  <2>2. Cardinality(In(Callers, cb.generation, call)) # 0
    BY <1>1, <2>1, BreakerAssumption DEF IInv, Sound, TypeOK, Breaker, Counts
  <2>3. Pending = In(Callers, cb.generation, call)  BY DEF Pending, In
  <2>4. QED  BY <2>2, <2>3, FS_EmptySet
<1>2. QED  BY <1>1, Inductive, PTL

\* Requests are let through again only after the timeout, whoever renews the
\* breaker: a request or a racing State().
THEOREM QuarantineHolds == Spec => QuarantineRespected
<1> DEFINE Respected(c) ==
      call[c] = NoCall /\ call'[c] # NoCall /\ trippedAt # Never
        => clock > trippedAt + Timeout
<1>1. ASSUME IInv, [Next]_vars, NEW c \in Callers PROVE Respected(c)
  <2>1. SUFFICES ASSUME call[c] = NoCall, call'[c] # NoCall, trippedAt # Never
                 PROVE  clock > trippedAt + Timeout
    OBVIOUS
  <2>2. call \in [Callers -> Nat \cup {NoCall}]  BY <1>1 DEF IInv, TypeOK
  <2>3. PICK d \in Callers : Unread /\ Admitted(d)
    <3>1. ASSUME NEW d \in Callers, NEW success \in BOOLEAN PROVE ~afterRequest(d, success)
      BY <2>1, <2>2 DEF afterRequest
    <3>2. ASSUME NEW d \in Callers PROVE ~reqReturns(d) /\ ~reqPanics(d)
      BY <3>1 DEF reqReturns, reqPanics
    <3>3. call' # call  BY <2>1
    <3>4. ~Tick /\ ~UNCHANGED vars /\ \A r \in Readers : ~State(r)
      BY <3>3 DEF Tick, vars, State, StateFresh, StateEnter, StateAssign, StateStore,
                  StateLeave
    <3>5. PICK d \in Callers : beforeRequest(d)  BY <1>1, <3>2, <3>4 DEF Next
    <3>6. QED  BY <3>3, <3>5 DEF beforeRequest, Refused
  <2>4. currentState(cb, clock).state # StateOpen
    BY <2>3 DEF Admitted, Admits, StateOpen, StateClosed, StateHalfOpen
  <2>5. QED  BY <1>1, <2>1, <2>3, <2>4, QuarantineCurrent DEF IInv
<1>2. IInv /\ [Next]_vars => [\A c \in Callers : Respected(c)]_vars
  BY <1>1
<1>3. QED  BY <1>2, Inductive, PTL DEF Spec, QuarantineRespected

-----------------------------------------------------------------------------
(* How long a streak of failures can be *)

\* A closed period that has an end ends at most one Interval from now and from
\* the first failure of the streak it counts.  Every closed period but the
\* first has one, and so has the one a reader inside State() is renewing; that
\* reader read a time that has passed, and leaves when nothing is counted.
Timely ==
  /\ cb.state = StateClosed =>
       /\ (cb.generation > 0 /\ Interval # 0) \/ ~Unread => cb.expiry # ZeroTime
       /\ cb.expiry # ZeroTime =>
            /\ Interval # 0
            /\ cb.expiry <= clock + Interval
            /\ streakFrom # Never => cb.expiry <= streakFrom + Interval
  /\ \A r \in Readers :
       /\ reader[r].pc # "out" => reader[r].now <= clock
       /\ reader[r].pc = "leave" => streakFrom = Never

\* A critical section leaves the period as it is, or starts one that counts no
\* failure.
LEMMA TimelyRemember ==
  ASSUME TypeOK, Timely, Unread, UNCHANGED <<reader, clock>>,
         NEW n \in Breaker, Remember(n),
         \/ n.state = cb.state /\ n.expiry = cb.expiry /\ n.generation = cb.generation
         \/ n.counts.ConsecutiveFailures = 0 /\ n.expiry = Expiry(n.state, clock)
  PROVE  Timely'
<1>1. Unread' /\ clock \in Nat /\ clock' = clock /\ cb' = n
  BY DEF Unread, TypeOK, Remember
<1>2. \A r \in Readers : reader'[r].pc = "out"  BY DEF Unread
<1>3. CASE n.state = cb.state /\ n.expiry = cb.expiry /\ n.generation = cb.generation
  <2>1. streakFrom' \in {Never, clock, streakFrom}  BY DEF Remember
  <2>2. QED  BY <1>1, <1>2, <1>3, <2>1 DEF Timely
<1>4. CASE n.counts.ConsecutiveFailures = 0 /\ n.expiry = Expiry(n.state, clock)
  <2>1. streakFrom' = Never  BY <1>4 DEF Remember
  <2>2. n.state = StateClosed =>
          n.expiry = IF Interval # 0 THEN clock + Interval ELSE ZeroTime
    BY <1>4 DEF Expiry, StateClosed, StateOpen
  <2>3. QED  BY <1>1, <1>2, <2>1, <2>2, BreakerAssumption DEF Timely, ZeroTime
<1>5. QED  BY <1>3, <1>4

LEMMA TimelyBefore ==
  ASSUME IInv, Timely, NEW c \in Callers, beforeRequest(c)
  PROVE  Timely'
<1> DEFINE b == currentState(cb, clock)
<1>1. /\ TypeOK /\ Unread /\ UNCHANGED <<reader, clock>> /\ cb \in Breaker /\ clock \in Nat
  BY DEF IInv, beforeRequest, TypeOK
<1>2. b \in Breaker
      /\ \/ b = cb
         \/ b.counts.ConsecutiveFailures = 0 /\ b.expiry = Expiry(b.state, clock)
  BY <1>1, CurrentStateCases DEF Renewed, NoCounts
<1>3. CASE Refused(c)
  <2>1. Remember(b)  BY <1>3 DEF Refused
  <2>2. QED  BY <1>1, <1>2, <2>1, TimelyRemember
<1>4. CASE Admitted(c)
  <2>1. Remember(admitted(b))  BY <1>4 DEF Admitted
  <2>2. /\ admitted(b) \in Breaker /\ admitted(b).state = b.state
        /\ admitted(b).expiry = b.expiry /\ admitted(b).generation = b.generation
        /\ admitted(b).counts.ConsecutiveFailures = b.counts.ConsecutiveFailures
    BY <1>2 DEF admitted, Breaker, Counts
  <2>3. QED  BY <1>1, <1>2, <2>1, <2>2, TimelyRemember
<1>5. QED  BY <1>3, <1>4 DEF beforeRequest

LEMMA TimelyAfter ==
  ASSUME IInv, Timely, NEW c \in Callers, NEW success \in BOOLEAN, afterRequest(c, success)
  PROVE  Timely'
<1> DEFINE b == currentState(cb, clock)
<1>1. /\ TypeOK /\ Unread /\ UNCHANGED <<reader, clock>> /\ cb \in Breaker /\ clock \in Nat
      /\ call \in CallsOf(Callers) /\ IsFiniteSet(Callers) /\ Sound(Callers, cb, call)
  BY CallsType DEF IInv, afterRequest, TypeOK
<1>2. b \in Breaker
      /\ \/ b = cb
         \/ b.counts.ConsecutiveFailures = 0 /\ b.expiry = Expiry(b.state, clock)
  BY <1>1, CurrentStateCases DEF Renewed, NoCounts
<1>3. CASE b.generation # call[c]
  <2>1. Remember(b)  BY <1>3 DEF afterRequest
  <2>2. QED  BY <1>1, <1>2, <2>1, TimelyRemember
<1>4. CASE b.generation = call[c]
  <2>1. b = cb  BY <1>1, <1>4, CountedFindsBreaker
  <2>2. CASE success
    <3>1. Remember(onSuccess(cb, clock))  BY <1>4, <2>1, <2>2 DEF afterRequest
    <3>2. onSuccess(cb, clock) \in Breaker  BY <1>1, OnSuccessCases
    <3>3. CASE onSuccess(cb, clock) = [cb EXCEPT !.counts = CountSuccess(@)]
      <4>1. /\ onSuccess(cb, clock).state = cb.state
            /\ onSuccess(cb, clock).expiry = cb.expiry
            /\ onSuccess(cb, clock).generation = cb.generation
        BY <1>1, <3>3 DEF Breaker
      <4>2. QED  BY <1>1, <3>1, <3>2, <4>1, TimelyRemember
    <3>4. CASE Renewed(cb, onSuccess(cb, clock), StateClosed, clock)
      BY <1>1, <3>1, <3>2, <3>4, TimelyRemember DEF Renewed, NoCounts
    <3>5. QED  BY <1>1, <3>3, <3>4, OnSuccessCases
  <2>3. CASE ~success
    <3>1. Remember(onFailure(cb, clock))  BY <1>4, <2>1, <2>3 DEF afterRequest
    <3>2. onFailure(cb, clock) \in Breaker  BY <1>1, OnFailureCases
    <3>3. CASE onFailure(cb, clock) = [cb EXCEPT !.counts = CountFailure(@)]
      <4>1. /\ onFailure(cb, clock).state = cb.state
            /\ onFailure(cb, clock).expiry = cb.expiry
            /\ onFailure(cb, clock).generation = cb.generation
        BY <1>1, <3>3 DEF Breaker
      <4>2. QED  BY <1>1, <3>1, <3>2, <4>1, TimelyRemember
    <3>4. CASE Renewed(cb, onFailure(cb, clock), StateOpen, clock)
      BY <1>1, <3>1, <3>2, <3>4, TimelyRemember DEF Renewed, NoCounts
    <3>5. QED  BY <1>1, <3>3, <3>4, OnFailureCases
  <2>4. QED  BY <2>2, <2>3
<1>5. QED  BY <1>3, <1>4

LEMMA TimelyState ==
  ASSUME IInv, Timely, NEW r \in Readers, State(r), ~UNCHANGED vars
  PROVE  Timely'
<1>1. /\ cb \in Breaker /\ clock \in Nat /\ reader \in [Readers -> ReaderState]
      /\ clock' = clock
  BY DEF IInv, TypeOK, State, StateFresh, StateEnter, StateAssign, StateStore, StateLeave
<1>2. CASE StateEnter(r)
  <2>1. /\ UNCHANGED <<cb, clock, streakFrom>>
        /\ reader' = [reader EXCEPT ![r].pc = "renew", ![r].now = clock]
        /\ Expired(cb, clock)
    BY <1>2 DEF StateEnter
  <2>2. cb.state = StateClosed => cb.expiry # ZeroTime
    BY <2>1 DEF Expired, StateOpen, StateClosed
  <2>3. \A q \in Readers : q # r => reader'[q] = reader[q]  BY <1>1, <2>1
  <2>4. reader'[r].pc = "renew" /\ reader'[r].now = clock
    BY <1>1, <2>1 DEF ReaderState
  <2>5. \A q \in Readers :
          /\ reader'[q].pc # "out" => reader'[q].now <= clock
          /\ reader'[q].pc = "leave" => streakFrom = Never
    BY <1>1, <2>3, <2>4 DEF Timely
  <2>6. QED  BY <2>1, <2>2, <2>5 DEF Timely
<1>3. CASE StateAssign(r)
  <2>1. /\ UNCHANGED <<clock, streakFrom>> /\ reader[r].pc = "renew"
        /\ reader' = [reader EXCEPT ![r].pc = "store", ![r].generation = cb.generation]
        /\ cb' = [cb EXCEPT !.state = IF cb.state = StateOpen THEN StateHalfOpen ELSE cb.state]
    BY <1>3 DEF StateAssign
  <2>2. /\ cb'.generation = cb.generation /\ cb'.expiry = cb.expiry
        /\ cb'.state = IF cb.state = StateOpen THEN StateHalfOpen ELSE cb.state
    BY <1>1, <2>1 DEF Breaker
  <2>3. cb'.state = StateClosed => cb.state = StateClosed
    BY <2>2 DEF StateClosed, StateHalfOpen
  <2>4. ~Unread  BY <2>1 DEF Unread
  <2>5. \A q \in Readers : q # r => reader'[q] = reader[q]  BY <1>1, <2>1
  <2>6. reader'[r].pc = "store" /\ reader'[r].now = reader[r].now
    BY <1>1, <2>1 DEF ReaderState
  <2>7. \A q \in Readers :
          /\ reader'[q].pc # "out" => reader'[q].now <= clock
          /\ reader'[q].pc = "leave" => streakFrom = Never
    BY <1>1, <2>1, <2>5, <2>6 DEF Timely
  <2>8. QED  BY <2>1, <2>2, <2>3, <2>4, <2>7 DEF Timely
<1>4. CASE StateStore(r)
  <2>1. /\ UNCHANGED <<clock>> /\ reader[r].pc = "store" /\ streakFrom' = Never
        /\ reader' = [reader EXCEPT ![r].pc = "leave"]
        /\ cb' = [cb EXCEPT !.generation = reader[r].generation + 1, !.counts = NoCounts]
    BY <1>4 DEF StateStore
  <2>2. cb'.expiry = cb.expiry /\ cb'.state = cb.state
    BY <1>1, <2>1 DEF Breaker
  <2>3. ~Unread  BY <2>1 DEF Unread
  <2>4. \A q \in Readers : reader'[q].pc # "out" => reader'[q].now = reader[q].now
                                                    /\ reader[q].pc # "out"
    BY <1>1, <2>1 DEF ReaderState
  <2>5. QED  BY <2>1, <2>2, <2>3, <2>4 DEF Timely
<1>5. CASE StateLeave(r)
  <2>1. /\ UNCHANGED <<clock, streakFrom>> /\ reader[r].pc = "leave"
        /\ reader' = [reader EXCEPT ![r].pc = "out"]
        /\ cb' = [cb EXCEPT !.expiry = Expiry(cb.state, reader[r].now)]
    BY <1>5 DEF StateLeave
  <2>2. cb'.state = cb.state /\ cb'.expiry = Expiry(cb.state, reader[r].now)
    BY <1>1, <2>1 DEF Breaker
  <2>3. ~Unread /\ streakFrom = Never /\ reader[r].now <= clock /\ reader[r].now \in Nat
    BY <1>1, <2>1 DEF Unread, Timely, ReaderState
  <2>4. cb.state = StateClosed =>
          Interval # 0 /\ cb'.expiry = reader[r].now + Interval
    BY <2>2, <2>3 DEF Timely, Expiry, StateClosed, StateOpen
  <2>5. \A q \in Readers : reader'[q].pc # "out" => reader'[q] = reader[q]
    BY <1>1, <2>1 DEF ReaderState
  <2>6. cb'.state = StateClosed =>
          /\ cb'.expiry # ZeroTime /\ Interval # 0
          /\ cb'.expiry <= clock + Interval
    BY <1>1, <2>2, <2>3, <2>4, BreakerAssumption DEF ZeroTime
  <2>7. QED  BY <2>1, <2>3, <2>5, <2>6 DEF Timely
<1>6. QED  BY <1>2, <1>3, <1>4, <1>5 DEF State, StateFresh

LEMMA TimelyTick ==
  ASSUME IInv, Timely, Tick
  PROVE  Timely'
<1>1. /\ clock' = clock + 1 /\ clock \in Nat /\ UNCHANGED <<cb, reader, streakFrom>>
      /\ cb.expiry \in Time /\ \A r \in Readers : reader[r].now \in Nat
  BY DEF IInv, Tick, TypeOK, Breaker, ReaderState
<1>2. Unread' <=> Unread  BY <1>1 DEF Unread
<1>3. QED  BY <1>1, <1>2, BreakerAssumption DEF Timely, Time, ZeroTime

\* ... and with it what the expiry of a closed period says of its failures.
THEOREM TimelyInductive == Spec => [](IInv /\ Timely)
<1>1. Init => Timely
  BY DEF Init, Timely, NewCircuitBreaker, Unread, ZeroTime
<1>2. ASSUME IInv, Timely, [Next]_vars PROVE Timely'
  <2>1. ASSUME NEW c \in Callers, beforeRequest(c) \/ reqReturns(c) \/ reqPanics(c)
        PROVE  Timely'
    BY <1>2, <2>1, TimelyBefore, TimelyAfter DEF reqReturns, reqPanics
  <2>2. ASSUME NEW r \in Readers, State(r), ~UNCHANGED vars PROVE Timely'
    BY <1>2, <2>2, TimelyState
  <2>3. CASE UNCHANGED vars  BY <1>2, <2>3 DEF vars, Timely, Unread
  <2>4. QED  BY <1>2, <2>1, <2>2, <2>3, TimelyTick DEF Next
<1>3. QED  BY <1>1, <1>2, Inductive, PTL DEF Spec

\* A breaker that trips after its first period does so on failures reported
\* within one Interval, however readers and requests renew its periods.
THEOREM TripsWithinInterval == Spec => TripWithinInterval
<1> DEFINE Recent == Trips /\ Interval # 0 /\ streakFrom # Never /\ cb.generation > 0
                       => clock <= streakFrom + Interval
<1>1. ASSUME IInv, Timely, [Next]_vars PROVE Recent
  <2>1. SUFFICES ASSUME Trips, Interval # 0, streakFrom # Never, cb.generation > 0
                 PROVE  clock <= streakFrom + Interval
    OBVIOUS
  <2>2. /\ cb \in Breaker /\ clock \in Nat /\ streakFrom \in Nat
        /\ call \in CallsOf(Callers) /\ IsFiniteSet(Callers) /\ Sound(Callers, cb, call)
    BY <1>1, <2>1, CallsType DEF IInv, TypeOK
  <2>3. cb.state = StateClosed /\ cb'.state = StateOpen  BY <2>1 DEF Trips
  <2>4. currentState(cb, clock).state = StateClosed
    BY <2>2, <2>3, CurrentStateCases DEF Renewed, StateClosed, StateOpen
  <2>5. PICK c \in Callers, success \in BOOLEAN : afterRequest(c, success)
    <3>1. cb' # cb  BY <2>3 DEF StateClosed, StateOpen
    <3>2. ASSUME NEW c \in Callers, beforeRequest(c) PROVE FALSE
      <4>1. cb'.state = currentState(cb, clock).state
        <5>1. currentState(cb, clock) \in Breaker  BY <2>2, CurrentStateCases
        <5>2. QED  BY <3>2, <5>1 DEF beforeRequest, Admitted, Refused, Remember, admitted, Breaker
      <4>2. QED  BY <2>3, <2>4, <4>1 DEF StateClosed, StateOpen
    <3>3. ASSUME NEW r \in Readers, State(r) PROVE FALSE
      <4>1. cb'.state = cb.state
        BY <2>2, <2>3, <3>3 DEF State, StateFresh, StateEnter, StateAssign, StateStore,
           StateLeave, vars, Breaker, StateClosed, StateOpen
      <4>2. QED  BY <2>3, <4>1 DEF StateClosed, StateOpen
    <3>4. ~Tick /\ ~UNCHANGED vars  BY <3>1 DEF Tick, vars
    <3>5. QED  BY <1>1, <3>2, <3>3, <3>4 DEF Next, reqReturns, reqPanics
  <2>6. currentState(cb, clock).generation = call[c]
    BY <2>3, <2>4, <2>5 DEF afterRequest, Remember, StateClosed, StateOpen
  <2>7. ~Expired(cb, clock)
    <3>1. currentState(cb, clock) = cb  BY <2>2, <2>6, CountedFindsBreaker
    <3>2. Expired(cb, clock) => currentState(cb, clock).generation = cb.generation + 1
      BY <2>2, CurrentStateCases DEF Renewed
    <3>3. cb.generation \in Nat  BY <2>2 DEF Breaker
    <3>4. QED  BY <3>1, <3>2, <3>3
  <2>8. cb.expiry # ZeroTime /\ cb.expiry <= streakFrom + Interval
    BY <1>1, <2>1, <2>3 DEF Timely
  <2>9. clock <= cb.expiry
    BY <2>2, <2>3, <2>7, <2>8 DEF Expired, Breaker, Time, ZeroTime
  <2>10. QED  BY <2>2, <2>8, <2>9, BreakerAssumption DEF Breaker, Time, ZeroTime
<1>2. IInv /\ Timely /\ [Next]_vars => [Recent]_vars
  BY <1>1
<1>3. QED  BY <1>2, TimelyInductive, PTL DEF Spec, TripWithinInterval

-----------------------------------------------------------------------------
(* Refinement of BreakerPromise *)

LEMMA PromisedStep ==
  ASSUME Promised(cb, cb')
  PROVE  [Promise!Next]_(Promise!promiseVars)
<1>1. CASE Kept(cb, cb')
  BY <1>1 DEF Kept, Trials, Promise!promiseVars
<1>2. CASE Tripped(cb, cb')
  BY <1>2 DEF Tripped, Promise!Next, Promise!Trip, StateOpen, StateClosed, StateHalfOpen
<1>3. CASE Probed(cb, cb')
  BY <1>3 DEF Probed, Trials, Promise!Next, Promise!Probe, StateOpen, StateHalfOpen
<1>4. CASE Tried(cb, cb')
  BY <1>4 DEF Tried, Trials, Promise!Next, Promise!Trial, StateHalfOpen
<1>5. CASE Recovered(cb, cb')
  BY <1>5 DEF Recovered, Trials, Promise!Next, Promise!Recover, StateClosed, StateHalfOpen
<1>6. CASE Relapsed(cb, cb')
  BY <1>6 DEF Relapsed, Trials, Promise!Next, Promise!Relapse, StateOpen, StateHalfOpen
<1>7. QED  BY <1>1, <1>2, <1>3, <1>4, <1>5, <1>6 DEF Promised

LEMMA PromisedRequest ==
  ASSUME IInv, NEW c \in Callers, NEW success \in BOOLEAN,
         beforeRequest(c) \/ afterRequest(c, success)
  PROVE  Promised(cb, cb')
<1>1. /\ cb \in Breaker /\ clock \in Nat /\ Sound(Callers, cb, call)
      /\ call \in CallsOf(Callers) /\ IsFiniteSet(Callers)
  BY CallsType DEF IInv, TypeOK
<1>2. CASE beforeRequest(c) /\ Admitted(c)
  BY <1>1, <1>2, PromisedAdmitted DEF Admitted, Remember
<1>3. CASE beforeRequest(c) /\ Refused(c)
  BY <1>1, <1>3, PromisedCurrent DEF Promised, Refused, Remember
<1>4. CASE afterRequest(c, success)
  <2>1. cb' = Outcome(cb, call[c], success, clock)
    BY <1>4 DEF afterRequest, Remember, Outcome
  <2>2. QED  BY <1>1, <2>1, OutcomeSound
<1>5. QED  BY <1>2, <1>3, <1>4 DEF beforeRequest

LEMMA PromisedState ==
  ASSUME IInv, NEW r \in Readers, State(r)
  PROVE  Promised(cb, cb')
<1>1. cb \in Breaker /\ ReadersLate /\ Sound(Callers, cb, call)
  BY DEF IInv, TypeOK
<1>2. CASE StateFresh(r) \/ StateEnter(r)
  BY <1>2 DEF StateFresh, StateEnter, vars, Promised, Kept
<1>3. CASE StateAssign(r)
  <2>1. /\ cb'.counts = cb.counts
        /\ cb'.state = IF cb.state = StateOpen THEN StateHalfOpen ELSE cb.state
    BY <1>1, <1>3 DEF StateAssign, Breaker
  <2>2. CASE cb.state = StateOpen
    <3>1. cb.counts.Requests = 0  BY <1>1, <2>2 DEF Sound, NoCounts
    <3>2. QED  BY <2>1, <2>2, <3>1 DEF Promised, Probed, Trials
  <2>3. CASE cb.state # StateOpen
    BY <2>1, <2>3 DEF Promised, Kept, Trials
  <2>4. QED  BY <2>2, <2>3
<1>4. CASE StateStore(r)
  <2>1. cb'.state = cb.state /\ cb'.counts = NoCounts
    BY <1>1, <1>4 DEF StateStore, Breaker
  <2>2. cb.state = StateHalfOpen => cb.counts = NoCounts
    BY <1>1, <1>4 DEF ReadersLate, StateStore
  <2>3. QED  BY <2>1, <2>2 DEF Promised, Kept, Trials
<1>5. CASE StateLeave(r)
  <2>1. cb'.state = cb.state /\ cb'.counts = cb.counts
    BY <1>1, <1>5 DEF StateLeave, Breaker
  <2>2. QED  BY <2>1 DEF Promised, Kept, Trials
<1>6. QED  BY <1>2, <1>3, <1>4, <1>5 DEF State

\* CircuitBreaker implements BreakerPromise: it goes back to closed only
\* through a half-open phase in which it hands out exactly MaxRequests trials,
\* and back to open only when a trial was handed out.
THEOREM Refinement == Spec => ImplementsPromise
<1>1. Init => Promise!Init
  BY DEF Init, Promise!Init, NewCircuitBreaker, StateClosed, StateHalfOpen
<1>2. ASSUME IInv, [Next]_vars PROVE [Promise!Next]_(Promise!promiseVars)
  <2>1. ASSUME NEW c \in Callers, beforeRequest(c) \/ reqReturns(c) \/ reqPanics(c)
        PROVE  Promised(cb, cb')
    BY <1>2, <2>1, PromisedRequest DEF reqReturns, reqPanics
  <2>2. ASSUME Tick \/ UNCHANGED vars PROVE Promised(cb, cb')
    BY <2>2 DEF Tick, vars, Promised, Kept
  <2>3. Promised(cb, cb')
    BY <1>2, <2>1, <2>2, PromisedState DEF Next
  <2>4. QED  BY <2>3, PromisedStep
<1>3. QED  BY <1>1, <1>2, Inductive, PTL DEF Spec, ImplementsPromise, Promise!Spec

=============================================================================
