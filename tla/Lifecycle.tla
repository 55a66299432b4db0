------------------------------ MODULE Lifecycle -------------------------------
(***************************************************************************)
(* How main builds the pool, and who may change it afterwards: the static  *)
(* backends, the discovery client's watch (consul.go), the one call of     *)
(* UpdateBackendsFromConsul, the policy engine's copy of the pool, and     *)
(* then the health checker beside the server.  main is one goroutine; the  *)
(* watch is two more, which it starts and does not wait for.               *)
(*                                                                         *)
(* A service is the backend at its address and port.  A list of services   *)
(* reaches the manager through a bounded channel, and is thrown away when  *)
(* the channel is full.  MockConsulClient answers every question with one  *)
(* list; here the answer may change, as it does in a catalogue.            *)
(***************************************************************************)
EXTENDS HealthChecking, SequencesExt

CONSTANTS
  Static,      \* backendConfigs
  Catalogues,  \* lists that GetServicesByService may answer
  WatchCap,    \* capacity of watchChan
  MaxEvents    \* bound: changes of the environment

ASSUME LifecycleAssumption ==
  /\ Static \in Seq(Backends)
  /\ Catalogues \subseteq Seq(Backends) /\ Catalogues # {}
  /\ WatchCap \in Nat \ {0}
  /\ MaxEvents \in Nat

VARIABLES
  boot,       \* where main is
  consul,     \* CONSUL_ENABLED
  policies,   \* TRAFFIC_POLICIES_ENABLED
  pool,       \* ServerPool.backends
  engine,     \* TrafficPolicyEngine.backendMap: the backends it knows
  watch,      \* the watch: "off", "starting", "on"
  watchChan,  \* lists sent and not yet received
  services,   \* ConsulServiceManager.services
  catalogue,  \* what GetServicesByService answers
  events,     \* changes of the environment so far
  dialled     \* history: dialled[b]: since b's reachability last changed, was it
              \* dialled ("pending"), and the result of such a dial stored ("stored")

mainVars  == <<boot, consul, policies, pool, engine>>
watchVars == <<watch, watchChan, services>>
vars      == <<mainVars, watchVars, catalogue, events, alive, reach, check, dialled>>

TypeOK ==
  /\ HealthTypeOK
  /\ boot \in {"static", "update", "policies", "serving"}
  /\ consul \in BOOLEAN /\ policies \in BOOLEAN
  /\ pool \in Seq(Backends) /\ services \in Seq(Backends)
  /\ boot = "serving" /\ pool # <<>> => check.next \in DOMAIN pool
  /\ engine \subseteq Backends
  /\ watch \in {"off", "starting", "on"}
  /\ watchChan \in Seq(Catalogues) /\ Len(watchChan) <= WatchCap
  /\ catalogue \in Catalogues
  /\ events \in 0..MaxEvents
  /\ dialled \in [Backends -> {"no", "pending", "stored"}]

Init ==
  /\ HealthInit
  /\ boot = "static"
  /\ consul \in BOOLEAN /\ policies \in BOOLEAN
  /\ pool = <<>>
  /\ engine = {}
  /\ watch = "off"
  /\ watchChan = <<>>
  /\ services = <<>>
  /\ catalogue \in Catalogues
  /\ events = 0
  /\ dialled = [b \in Backends |-> "no"]

-----------------------------------------------------------------------------
(* main *)

\* The next of the static backends is added.
AddBackend ==
  /\ boot = "static" /\ Len(pool) < Len(Static)
  /\ pool' = Append(pool, Static[Len(pool) + 1])
  /\ UNCHANGED <<boot, consul, policies, engine, watchVars, catalogue, events,
                 alive, reach, check, dialled>>

\* EnableConsulSupport starts the watch in a goroutine and returns.
EnableConsulSupport ==
  /\ boot = "static" /\ Len(pool) = Len(Static)
  /\ IF consul THEN boot' = "update" /\ watch' = "starting"
     ELSE boot' = "policies" /\ UNCHANGED watch
  /\ UNCHANGED <<consul, policies, pool, engine, watchChan, services, catalogue, events,
                 alive, reach, check, dialled>>

\* The pool is cleared and made of new backends, one for each service of the
\* list the manager holds now.
UpdateBackendsFromConsul ==
  /\ boot = "update"
  /\ pool' = services
  /\ alive' = [b \in Backends |-> alive[b] \/ b \in ToSet(services)]
  /\ boot' = "policies"
  /\ UNCHANGED <<consul, policies, engine, watchVars, catalogue, events, reach, check, dialled>>

\* createBackendMap copies the pool.  The server and the health checker start.
EnableTrafficPolicies ==
  /\ boot = "policies"
  /\ engine' = IF policies THEN ToSet(pool) ELSE engine
  /\ boot' = "serving"
  /\ UNCHANGED <<consul, policies, pool, watchVars, catalogue, events, alive, reach, check, dialled>>

Main ==
  AddBackend \/ EnableConsulSupport \/ UpdateBackendsFromConsul \/ EnableTrafficPolicies

-----------------------------------------------------------------------------
(* The watch *)

StartWatch ==
  /\ watch = "starting"
  /\ watch' = "on"
  /\ UNCHANGED <<mainVars, watchChan, services, catalogue, events, alive, reach, check, dialled>>

WatchServicesOneMore ==  \* mutant: off by one on the room left
  /\ watch = "on"
  /\ watchChan' = IF Len(watchChan) <= WatchCap THEN Append(watchChan, catalogue) ELSE watchChan
  /\ UNCHANGED <<mainVars, watch, services, catalogue, events, alive, reach, check, dialled>>

\* Every five seconds the client sends what it is answered, if there is room.
WatchServices ==
  /\ watch = "on"
  /\ watchChan' = IF Len(watchChan) < WatchCap THEN Append(watchChan, catalogue) ELSE watchChan
  /\ UNCHANGED <<mainVars, watch, services, catalogue, events, alive, reach, check, dialled>>

updateServicesOnce ==  \* mutant: the list is taken only while there is none
  /\ watchChan # <<>>
  /\ services' = IF services = <<>> THEN Head(watchChan) ELSE services
  /\ watchChan' = Tail(watchChan)
  /\ UNCHANGED <<mainVars, watch, catalogue, events, alive, reach, check, dialled>>

\* The manager's loop receives a list and keeps it.  Nobody has asked to be
\* notified.
updateServices ==
  /\ watchChan # <<>>
  /\ services' = Head(watchChan)
  /\ watchChan' = Tail(watchChan)
  /\ UNCHANGED <<mainVars, watch, catalogue, events, alive, reach, check, dialled>>

-----------------------------------------------------------------------------
(* Around them *)

\* The history of the backend that is dialled goes from one stage to the next.
Advances(from, to) ==
  dialled' = [dialled EXCEPT ![pool[check.next]] = IF @ = from THEN to ELSE @]

HealthCheck ==
  /\ boot = "serving"
  /\ \/ Dial(pool) /\ Advances("no", "pending")
     \/ SetAlive(pool) /\ Advances("pending", "stored")
  /\ UNCHANGED <<mainVars, watchVars, catalogue, events>>

CatalogueChanges ==
  /\ events < MaxEvents
  /\ catalogue' \in Catalogues \ {catalogue}
  /\ events' = events + 1
  /\ UNCHANGED <<mainVars, watchVars, alive, reach, check, dialled>>

PeerFlaps(b) ==
  /\ events < MaxEvents
  /\ Flap(b)
  /\ dialled' = [dialled EXCEPT ![b] = "no"]
  /\ events' = events + 1
  /\ UNCHANGED <<mainVars, watchVars, catalogue>>

Next ==
  \/ Main
  \/ StartWatch \/ WatchServices \/ updateServices
  \/ HealthCheck
  \/ CatalogueChanges
  \/ \E b \in Backends : PeerFlaps(b)

Spec == Init /\ [][Next]_vars

\* The goroutines are scheduled, and the ticker ticks for ever.  Nothing is
\* assumed of the catalogue and of the backends' processes.
FairSpec ==
  /\ Spec
  /\ WF_vars(Main) /\ WF_vars(StartWatch) /\ WF_vars(WatchServices)
  /\ WF_vars(updateServices) /\ WF_vars(HealthCheck)

-----------------------------------------------------------------------------
(* Properties *)

InPool(b) == boot = "serving" /\ b \in ToSet(pool)

\* A result is at most one dial old: once the result of a dial that began after the
\* last change of a backend is stored, Alive is right until the next change.  No
\* result that was under way before overwrites it, and none is stored for another
\* backend (HealthCheck, from DialTimeout to SetAlive).
AliveIsFresh ==
  \A b \in Backends : dialled[b] = "stored" => alive[b] = reach[b]

\* Once the reachability of a backend of the pool stops changing, Alive follows
\* it for good, whatever stale result of a dial was still to be stored
\* (HealthCheck, SetAlive).
HealthConverges ==
  \A b \in Backends :
    /\ <>[](InPool(b) /\ reach[b]) => <>[](alive[b])
    /\ <>[](InPool(b) /\ ~reach[b]) => <>[](~alive[b])

\* Once the catalogue stops changing the manager's services follow it for good,
\* although lists are lost when the channel is full and stale ones wait in it
\* (WatchServices, updateServices).
DiscoveryConverges ==
  \A list \in Catalogues : <>[](consul /\ catalogue = list) => <>[](services = list)

-----------------------------------------------------------------------------
(* What the documentation says and the code does not do *)

\* readme.md:43: "Consul integration for dynamic backend registration".  Once
\* services are discovered, the server that asked for them gets backends.
DiscoveryReachesPool == boot = "serving" /\ services # <<>> ~> pool # <<>>

=============================================================================
