---------------------------- MODULE LifecycleProofs ----------------------------
(***************************************************************************)
(* Theorems about Lifecycle, for any static backends, catalogues and       *)
(* capacity of the watch's channel.  The inductive invariant says how far  *)
(* main has come: static backends are left to add until they all are, the  *)
(* health checker has not moved before the server serves, and afterwards   *)
(* the backend it dialed is in the pool, which nobody changes.  Beside it, *)
(* Underway says what the one result that is under way is worth.           *)
(***************************************************************************)
EXTENDS Lifecycle, TLAPS, SequenceTheorems

Idle == [next |-> 1, dialed |-> "none"]

IInv ==
  /\ TypeOK
  /\ boot = "static" => Len(pool) <= Len(Static)
  /\ boot # "serving" => check = Idle
  /\ check.dialed # "none" => check.next \in DOMAIN pool

\* The backends of a list are backends.
LEMMA ToSetType ==
  ASSUME NEW S, NEW list \in Seq(S)
  PROVE  ToSet(list) \subseteq S
BY DEF ToSet

LEMMA InitIInv == Init => IInv
<1> SUFFICES ASSUME Init PROVE IInv
  OBVIOUS
<1>1. TypeOK
  BY LifecycleAssumption DEF Init, HealthInit, TypeOK, HealthTypeOK
<1>2. QED  BY <1>1, LifecycleAssumption DEF Init, HealthInit, IInv, Idle

\* The list of the health checker goes on at an index of the pool.
LEMMA NextInPool ==
  ASSUME NEW S, NEW list \in Seq(S), NEW i \in DOMAIN list
  PROVE  1 + (i % Len(list)) \in DOMAIN list /\ 1 + (i % Len(list)) \in Nat \ {0}
<1>1. DOMAIN list = 1..Len(list) /\ Len(list) \in Nat /\ i \in Nat /\ Len(list) > 0
  OBVIOUS
<1>2. i % Len(list) \in 0..(Len(list) - 1)
  BY <1>1
<1>3. QED  BY <1>1, <1>2

-----------------------------------------------------------------------------
(* main *)

LEMMA AddBackendIInv == IInv /\ AddBackend => IInv'
<1> SUFFICES ASSUME IInv, AddBackend PROVE IInv'
  OBVIOUS
<1>1. /\ TypeOK /\ boot = "static" /\ boot' = boot /\ Len(pool) < Len(Static)
      /\ pool' = Append(pool, Static[Len(pool) + 1])
      /\ UNCHANGED <<consul, policies, engine, watchVars, catalogue, events,
                     alive, reach, check, dialled>>
  BY DEF IInv, AddBackend
<1>2. pool' \in Seq(Backends) /\ Len(pool') = Len(pool) + 1
  <2>1. Len(pool) + 1 \in DOMAIN Static
    BY <1>1, LifecycleAssumption DEF TypeOK
  <2>2. Static[Len(pool) + 1] \in Backends  BY <2>1, LifecycleAssumption
  <2>3. QED  BY <1>1, <2>2 DEF TypeOK
<1>3. TypeOK'  BY <1>1, <1>2 DEF TypeOK, HealthTypeOK, watchVars
<1>4. Len(pool') <= Len(Static)  BY <1>1, <1>2, LifecycleAssumption DEF TypeOK
<1>5. check = Idle  BY <1>1 DEF IInv
<1>6. QED  BY <1>1, <1>3, <1>4, <1>5 DEF IInv, Idle

LEMMA EnableConsulIInv == IInv /\ EnableConsulSupport => IInv'
<1> SUFFICES ASSUME IInv, EnableConsulSupport PROVE IInv'
  OBVIOUS
<1>1. /\ TypeOK /\ boot = "static" /\ boot' \in {"update", "policies"}
      /\ watch' \in {watch, "starting"}
      /\ UNCHANGED <<consul, policies, pool, engine, watchChan, services, catalogue, events,
                     alive, reach, check, dialled>>
  BY DEF IInv, EnableConsulSupport
<1>2. TypeOK'  BY <1>1 DEF TypeOK, HealthTypeOK
<1>3. check = Idle  BY <1>1 DEF IInv
<1>4. QED  BY <1>1, <1>2, <1>3 DEF IInv, Idle

LEMMA UpdateBackendsIInv == IInv /\ UpdateBackendsFromConsul => IInv'
<1> SUFFICES ASSUME IInv, UpdateBackendsFromConsul PROVE IInv'
  OBVIOUS
<1>1. /\ TypeOK /\ boot = "update" /\ boot' = "policies" /\ pool' = services
      /\ alive' = [b \in Backends |-> alive[b] \/ b \in ToSet(services)]
      /\ UNCHANGED <<consul, policies, engine, watchVars, catalogue, events, reach, check, dialled>>
  BY DEF IInv, UpdateBackendsFromConsul
<1>2. alive' \in [Backends -> BOOLEAN]  BY <1>1
<1>3. TypeOK'  BY <1>1, <1>2 DEF TypeOK, HealthTypeOK, watchVars
<1>4. check = Idle  BY <1>1 DEF IInv
<1>5. QED  BY <1>1, <1>3, <1>4 DEF IInv, Idle

LEMMA EnablePoliciesIInv == IInv /\ EnableTrafficPolicies => IInv'
<1> SUFFICES ASSUME IInv, EnableTrafficPolicies PROVE IInv'
  OBVIOUS
<1>1. /\ TypeOK /\ boot = "policies" /\ boot' = "serving"
      /\ engine' = IF policies THEN ToSet(pool) ELSE engine
      /\ UNCHANGED <<consul, policies, pool, watchVars, catalogue, events,
                     alive, reach, check, dialled>>
  BY DEF IInv, EnableTrafficPolicies
<1>2. engine' \subseteq Backends  BY <1>1, ToSetType DEF TypeOK
<1>3. check = Idle  BY <1>1 DEF IInv
<1>4. pool # <<>> => check.next \in DOMAIN pool
  BY <1>1, <1>3 DEF TypeOK, Idle
<1>5. TypeOK'  BY <1>1, <1>2, <1>4 DEF TypeOK, HealthTypeOK, watchVars
<1>6. QED  BY <1>1, <1>3, <1>5 DEF IInv, Idle

-----------------------------------------------------------------------------
(* The watch, the health checker and what is around them *)

LEMMA WatchIInv == IInv /\ (StartWatch \/ WatchServices \/ updateServices) => IInv'
<1> SUFFICES ASSUME IInv, StartWatch \/ WatchServices \/ updateServices PROVE IInv'
  OBVIOUS
<1>1. /\ TypeOK
      /\ UNCHANGED <<boot, consul, policies, pool, engine, catalogue, events,
                     alive, reach, check, dialled>>
  BY DEF IInv, StartWatch, WatchServices, updateServices, mainVars
<1>2. CASE StartWatch
  BY <1>1, <1>2 DEF StartWatch, TypeOK, HealthTypeOK, IInv
<1>3. CASE WatchServices
  <2>1. watchChan' \in Seq(Catalogues) /\ Len(watchChan') <= WatchCap
    BY <1>1, <1>3, LifecycleAssumption DEF WatchServices, TypeOK
  <2>2. UNCHANGED <<watch, services>>  BY <1>3 DEF WatchServices
  <2>3. QED  BY <1>1, <2>1, <2>2 DEF TypeOK, HealthTypeOK, IInv
<1>4. CASE updateServices
  <2>1. /\ watchChan # <<>> /\ services' = Head(watchChan)
        /\ watchChan' = Tail(watchChan) /\ UNCHANGED watch
    BY <1>4 DEF updateServices
  <2>2. watchChan' \in Seq(Catalogues) /\ Len(watchChan') <= WatchCap
    BY <1>1, <2>1, LifecycleAssumption DEF TypeOK
  <2>3. services' \in Catalogues  BY <1>1, <2>1 DEF TypeOK
  <2>4. services' \in Seq(Backends)  BY <2>3, LifecycleAssumption
  <2>5. QED  BY <1>1, <2>1, <2>2, <2>4 DEF TypeOK, HealthTypeOK, IInv
<1>5. QED  BY <1>2, <1>3, <1>4

LEMMA HealthCheckIInv == IInv /\ HealthCheck => IInv'
<1> SUFFICES ASSUME IInv, HealthCheck PROVE IInv'
  OBVIOUS
<1>1. /\ TypeOK /\ boot = "serving" /\ reach' = reach
      /\ UNCHANGED <<boot, consul, policies, pool, engine, watchVars, catalogue, events>>
      /\ dialled' \in [Backends -> {"no", "pending", "stored"}]
  BY DEF IInv, HealthCheck, mainVars, Dial, SetAlive, Advances, TypeOK
<1>2. CASE Dial(pool)
  <2>1. /\ check' = [check EXCEPT !.dialed = IF reach[pool[check.next]] THEN "up" ELSE "down"]
        /\ alive' = alive /\ check.next \in DOMAIN pool
    BY <1>2 DEF Dial
  <2>2. /\ check' \in [next : Nat \ {0}, dialed : {"none", "up", "down"}]
        /\ check'.next = check.next
    BY <1>1, <2>1 DEF TypeOK, HealthTypeOK
  <2>3. TypeOK'  BY <1>1, <2>1, <2>2 DEF TypeOK, HealthTypeOK, watchVars
  <2>4. QED  BY <1>1, <2>1, <2>2, <2>3 DEF IInv
<1>3. CASE SetAlive(pool)
  <2>1. /\ check.dialed # "none"
        /\ alive' = [alive EXCEPT ![pool[check.next]] = check.dialed = "up"]
        /\ check' = [next |-> 1 + (check.next % Len(pool)), dialed |-> "none"]
    BY <1>3 DEF SetAlive
  <2>2. check.next \in DOMAIN pool  BY <2>1 DEF IInv
  <2>3. check'.next \in DOMAIN pool /\ check'.next \in Nat \ {0} /\ check'.dialed = "none"
    BY <1>1, <2>1, <2>2, NextInPool DEF TypeOK
  <2>4. check' \in [next : Nat \ {0}, dialed : {"none", "up", "down"}]
    BY <2>1, <2>3
  <2>5. alive' \in [Backends -> BOOLEAN]
    BY <1>1, <2>1 DEF TypeOK, HealthTypeOK
  <2>6. TypeOK'  BY <1>1, <2>3, <2>4, <2>5 DEF TypeOK, HealthTypeOK, watchVars
  <2>7. QED  BY <1>1, <2>3, <2>6 DEF IInv
<1>4. QED  BY <1>2, <1>3 DEF HealthCheck

LEMMA EnvironmentIInv ==
  IInv /\ (CatalogueChanges \/ (\E b \in Backends : PeerFlaps(b)) \/ UNCHANGED vars) => IInv'
<1> SUFFICES ASSUME IInv,
                    CatalogueChanges \/ (\E b \in Backends : PeerFlaps(b)) \/ UNCHANGED vars
             PROVE  IInv'
  OBVIOUS
<1>1. TypeOK  BY DEF IInv
<1>2. CASE CatalogueChanges
  <2>1. events' \in 0..MaxEvents /\ catalogue' \in Catalogues
        /\ UNCHANGED <<mainVars, watchVars, alive, reach, check, dialled>>
    BY <1>1, <1>2, LifecycleAssumption DEF CatalogueChanges, TypeOK
  <2>2. QED
    BY <1>1, <2>1 DEF TypeOK, HealthTypeOK, IInv, mainVars, watchVars
<1>3. ASSUME NEW b \in Backends, PeerFlaps(b) PROVE IInv'
  <2>1. /\ events' \in 0..MaxEvents /\ reach' = [reach EXCEPT ![b] = ~@]
        /\ dialled' \in [Backends -> {"no", "pending", "stored"}]
        /\ UNCHANGED <<mainVars, watchVars, catalogue, alive, check>>
    BY <1>1, <1>3, LifecycleAssumption DEF PeerFlaps, Flap, TypeOK
  <2>2. reach' \in [Backends -> BOOLEAN]  BY <1>1, <2>1 DEF TypeOK, HealthTypeOK
  <2>3. QED
    BY <1>1, <2>1, <2>2 DEF TypeOK, HealthTypeOK, IInv, mainVars, watchVars
<1>4. CASE UNCHANGED vars
  BY <1>1, <1>4
     DEF vars, TypeOK, HealthTypeOK, IInv, mainVars, watchVars
<1>5. QED  BY <1>2, <1>3, <1>4

\* The inductive invariant holds, whatever the watch and the dials bring.
THEOREM LifecycleInductive == Spec => []IInv
<1>1. IInv /\ [Next]_vars => IInv'
  BY AddBackendIInv, EnableConsulIInv, UpdateBackendsIInv, EnablePoliciesIInv, WatchIInv,
     HealthCheckIInv, EnvironmentIInv DEF Next, Main
<1>2. QED  BY <1>1, InitIInv, PTL DEF Spec

-----------------------------------------------------------------------------
(* What the results of dials are worth *)

\* Only the backend whose result is to be stored may be "pending", and the result
\* is right if the backend has not changed since the dial.
Underway ==
  /\ \A b \in Backends :
       dialled[b] = "pending" => check.dialed # "none" /\ b = pool[check.next]
  /\ check.dialed # "none" /\ dialled[pool[check.next]] # "no"
       => (check.dialed = "up" <=> reach[pool[check.next]])
  /\ boot # "serving" => \A b \in Backends : dialled[b] = "no"

Fresh == AliveIsFresh /\ Underway

LEMMA FreshInit == Init => Fresh
<1> SUFFICES ASSUME Init PROVE Fresh
  OBVIOUS
<1>1. check.dialed = "none" /\ \A b \in Backends : dialled[b] = "no"
  BY DEF Init, HealthInit
<1>2. QED  BY <1>1 DEF Fresh, AliveIsFresh, Underway

\* The backend under way is one of the pool's.
LEMMA UnderwayType ==
  ASSUME IInv, check.next \in DOMAIN pool
  PROVE  pool[check.next] \in Backends
BY DEF IInv, TypeOK

LEMMA FreshDial ==
  ASSUME IInv, Fresh, boot = "serving", Dial(pool), Advances("no", "pending"), UNCHANGED mainVars
  PROVE  Fresh'
<1> DEFINE d == pool[check.next]
<1>1. /\ check.dialed = "none" /\ check.next \in DOMAIN pool
      /\ check' = [check EXCEPT !.dialed = IF reach[d] THEN "up" ELSE "down"]
      /\ UNCHANGED <<alive, reach, boot, pool>>
  BY DEF Dial, mainVars
<1>2. d \in Backends /\ reach[d] \in BOOLEAN
  BY <1>1, UnderwayType DEF IInv, TypeOK, HealthTypeOK
<1>3. check'.next = check.next /\ check'.dialed = IF reach[d] THEN "up" ELSE "down"
  BY <1>1 DEF IInv, TypeOK, HealthTypeOK
<1>4. pool'[check'.next] = d /\ reach' = reach  BY <1>1, <1>3
<1>5. \A b \in Backends : b # d => dialled'[b] = dialled[b]
  BY <1>2 DEF Advances, IInv, TypeOK
<1>6. dialled'[d] = "stored" => dialled[d] = "stored"
  BY <1>2 DEF Advances, IInv, TypeOK
<1>7. \A b \in Backends : dialled[b] # "pending"  BY <1>1 DEF Fresh, Underway
<1>8. AliveIsFresh'  BY <1>1, <1>2, <1>5, <1>6 DEF Fresh, AliveIsFresh
<1>9. check'.dialed # "none" /\ (check'.dialed = "up" <=> reach[d])
  BY <1>2, <1>3
<1>10. \A b \in Backends : dialled'[b] = "pending" => b = d  BY <1>5, <1>7
<1>11. boot' = "serving"  BY <1>1
<1>12. Underway'  BY <1>4, <1>9, <1>10, <1>11 DEF Underway
<1>13. QED  BY <1>8, <1>12 DEF Fresh

LEMMA FreshSetAlive ==
  ASSUME IInv, Fresh, boot = "serving", SetAlive(pool), Advances("pending", "stored"),
         UNCHANGED mainVars
  PROVE  Fresh'
<1> DEFINE d == pool[check.next]
<1>1. /\ check.dialed # "none" /\ check.next \in DOMAIN pool
      /\ check'.dialed = "none"
      /\ alive' = [alive EXCEPT ![d] = check.dialed = "up"]
      /\ UNCHANGED <<reach, boot, pool>>
  BY DEF SetAlive, IInv, mainVars
<1>2. d \in Backends  BY <1>1, UnderwayType
<1>3. \A b \in Backends : b # d => dialled'[b] = dialled[b] /\ alive'[b] = alive[b]
  BY <1>1, <1>2 DEF Advances, IInv, TypeOK, HealthTypeOK
<1>4. dialled'[d] # "pending" /\ (dialled'[d] = "stored" => dialled[d] # "no")
  BY <1>2 DEF Advances, IInv, TypeOK
<1>5. alive'[d] <=> check.dialed = "up"
  BY <1>1, <1>2 DEF IInv, TypeOK, HealthTypeOK
<1>6. dialled'[d] = "stored" => (alive'[d] <=> reach[d])
  BY <1>1, <1>4, <1>5 DEF Fresh, Underway
<1>7. alive'[d] \in BOOLEAN /\ reach[d] \in BOOLEAN
  BY <1>1, <1>2 DEF IInv, TypeOK, HealthTypeOK
<1>8. dialled'[d] = "stored" => alive'[d] = reach[d]  BY <1>6, <1>7
<1>9. AliveIsFresh'  BY <1>1, <1>3, <1>8 DEF Fresh, AliveIsFresh
<1>10. \A b \in Backends : dialled[b] = "pending" => b = d  BY DEF Fresh, Underway
<1>11. \A b \in Backends : dialled'[b] # "pending"  BY <1>3, <1>4, <1>10
<1>12. Underway'  BY <1>1, <1>11 DEF Underway
<1>13. QED  BY <1>9, <1>12 DEF Fresh

\* A backend that changes is one that was not dialled.
LEMMA FreshFlap ==
  ASSUME IInv, Fresh, NEW b \in Backends, PeerFlaps(b)
  PROVE  Fresh'
<1>1. UNCHANGED <<boot, pool, alive, check>>  BY DEF PeerFlaps, Flap, mainVars
<1>2. /\ dialled'[b] = "no" /\ \A c \in Backends : c # b => dialled'[c] = dialled[c]
      /\ \A c \in Backends : c # b => reach'[c] = reach[c]
  BY DEF PeerFlaps, Flap, IInv, TypeOK, HealthTypeOK
<1>3. AliveIsFresh'  BY <1>1, <1>2 DEF Fresh, AliveIsFresh
<1>4. check.dialed # "none" => pool[check.next] \in Backends
  BY UnderwayType DEF IInv
<1>5. Underway'  BY <1>1, <1>2, <1>4 DEF Fresh, Underway
<1>6. QED  BY <1>3, <1>5 DEF Fresh

\* While main boots nothing was dialled; other steps touch none of it.
LEMMA FreshMain == IInv /\ Fresh /\ Main => Fresh'
<1> SUFFICES ASSUME IInv, Fresh, Main PROVE Fresh'
  OBVIOUS
<1>1. boot # "serving" /\ UNCHANGED <<check, dialled>>
  BY DEF Main, AddBackend, EnableConsulSupport, UpdateBackendsFromConsul, EnableTrafficPolicies
<1>2. check.dialed = "none" /\ \A b \in Backends : dialled[b] = "no"
  BY <1>1 DEF IInv, Idle, Fresh, Underway
<1>3. QED  BY <1>1, <1>2 DEF Fresh, AliveIsFresh, Underway

LEMMA FreshStays ==
  ASSUME Fresh, UNCHANGED <<boot, pool, alive, reach, check, dialled>>
  PROVE  Fresh'
BY DEF Fresh, AliveIsFresh, Underway

LEMMA FreshNext == IInv /\ Fresh /\ [Next]_vars => Fresh'
<1> SUFFICES ASSUME IInv, Fresh, [Next]_vars PROVE Fresh'
  OBVIOUS
<1>1. CASE HealthCheck
  BY <1>1, FreshDial, FreshSetAlive DEF HealthCheck
<1>2. CASE StartWatch \/ WatchServices \/ updateServices \/ CatalogueChanges \/ UNCHANGED vars
  <2>1. UNCHANGED <<boot, pool, alive, reach, check, dialled>>
    BY <1>2 DEF StartWatch, WatchServices, updateServices, CatalogueChanges, vars, mainVars
  <2>2. QED  BY <2>1, FreshStays
<1>3. QED  BY <1>1, <1>2, FreshMain, FreshFlap DEF Next

-----------------------------------------------------------------------------
(* The theorems *)

\* The model's variables keep their types; the channel of the watch never holds
\* more than it can, and the health checker's index is one of the pool's.
THEOREM LifecycleTypeCorrect == Spec => []TypeOK
<1>1. IInv => TypeOK  BY DEF IInv
<1>2. QED  BY <1>1, LifecycleInductive, PTL

\* AliveIsFresh, for any pool, duplicates included, and however often backends
\* change while they are dialled.
THEOREM ResultsAreFresh == Spec => []AliveIsFresh
<1>1. Fresh => AliveIsFresh  BY DEF Fresh
<1>2. QED  BY <1>1, FreshInit, FreshNext, LifecycleInductive, PTL DEF Spec

=============================================================================
