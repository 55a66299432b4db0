------------------------- MODULE StickySessionsProofs --------------------------
(***************************************************************************)
(* Theorems about StickySessions, for any backends, instances and requests *)
(* and whatever calls of Redis fail.  Types, and that a settled session    *)
(* stays, need nothing more.  That Redis remembers and that an assignment  *)
(* is kept, for a client that awaits each answer, are proved for instances *)
(* that see one Redis, as main's single instance does and as several do    *)
(* that share one.  The inductive invariant is then IInv.                  *)
(***************************************************************************)
EXTENDS StickySessions, TLAPS

\* One Redis for all: it is shared, or there is one instance.
OneStore == Shared \/ \A i, j \in Instances : i = j

OneRedis == \A i, j \in Instances : redis[i] = redis[j]

\* One request is open at a time.
OneRequest ==
  \A p, q \in Requests : req[p].pc # "idle" /\ req[q].pc # "idle" => p = q

\* Redis holds the backend of the last answer, if that one was assigned ...
LastStored ==
  last.assigned => \A i \in Instances : redis[i] = last.backend /\ last.backend \in alive[i]

\* ... and the backend that the open request has read from it or stored in it.
ReadStored ==
  \A q \in Requests :
    req[q].pc \in {"touch", "find", "stored"} => \A i \in Instances : redis[i] = req[q].got

\* While the last answer counts, the open request does not leave the path that
\* leads to its backend, and so it stores nothing else.
OnPath ==
  last.assigned =>
    \A q \in Requests : req[q].pc \in {"idle", "get", "touch", "find", "stored"}

ExpectsLast ==
  \A q \in Requests : expect[q].assigned => expect[q] = last /\ req[q].pc # "idle"

\* What holds as long as the client has awaited each answer.
Awaited ==
  TypeOK /\ OneRedis /\ OneRequest /\ LastStored /\ ReadStored /\ OnPath /\ ExpectsLast

IInv == TypeOK /\ (~overlap => Awaited)

-----------------------------------------------------------------------------
(* Types *)

ReqState == [pc : PCs, at : Instances, got : Assigned]

\* The places at which a request holds a backend.
Holding == {"touch", "find", "refresh", "assign", "store"} \cup Proxying

LEMMA NoneIsAnswer == None \in Answers /\ ~None.assigned
BY DEF None, Answers, Assigned

LEMMA GotoMoves ==
  ASSUME TypeOK, NEW q \in Requests, NEW pc \in PCs, NEW got \in Assigned, Goto(q, pc, got)
  PROVE  /\ req' \in [Requests -> ReqState]
         /\ req'[q].pc = pc /\ req'[q].got = got /\ req'[q].at = req[q].at
         /\ \A p \in Requests : p # q => req'[p] = req[p]
<1> DEFINE r == [req[q] EXCEPT !.pc = pc, !.got = got]
<1>1. req[q] \in ReqState /\ req \in [Requests -> ReqState]  BY DEF TypeOK, ReqState
<1>2. req' = [req EXCEPT ![q] = r]  BY DEF Goto
<1>3. r \in ReqState  BY <1>1 DEF ReqState
<1>4. r.pc = pc /\ r.got = got /\ r.at = req[q].at  BY <1>1 DEF ReqState
<1> HIDE DEF r
<1>5. QED  BY <1>1, <1>2, <1>3, <1>4

LEMMA SetStores ==
  ASSUME TypeOK, NEW i \in Instances, NEW b \in Assigned, NEW ok \in BOOLEAN, Set(i, b, ok)
  PROVE  /\ redis' \in [Instances -> Assigned]
         /\ OneStore /\ ok => \A j \in Instances : redis'[j] = b
         /\ OneStore => redis' = redis \/ \A j \in Instances : redis'[j] = b
         /\ (\A j \in Instances : redis[j] = b) => \A j \in Instances : redis'[j] = b
<1> DEFINE stored == [j \in Instances |-> IF Shared \/ j = i THEN b ELSE redis[j]]
<1>1. stored \in [Instances -> Assigned]  BY DEF TypeOK
<1>2. OneStore => \A j \in Instances : stored[j] = b  BY DEF OneStore
<1>3. (\A j \in Instances : redis[j] = b) => \A j \in Instances : stored[j] = b  OBVIOUS
<1> HIDE DEF stored
<1>4. redis' = stored \/ (~ok /\ redis' = redis)  BY DEF Set, stored
<1>5. QED  BY <1>1, <1>2, <1>3, <1>4 DEF TypeOK

\* A step that leads request q to pc keeps the types.
LEMMA GotoType ==
  ASSUME TypeOK, NEW q \in Requests, NEW pc \in PCs, NEW got \in Assigned,
         Goto(q, pc, got), pc \in Holding => got # Nil,
         redis' \in [Instances -> Assigned], local' \in [Instances -> Assigned],
         UNCHANGED <<alive, overlap>>, last' \in Answers, expect' \in [Requests -> Answers]
  PROVE  TypeOK'
<1>1. req' \in [Requests -> ReqState]  BY GotoMoves
<1>2. \A p \in Requests : req'[p].pc \in Holding => req'[p].got # Nil
  <2>1. SUFFICES ASSUME NEW p \in Requests, req'[p].pc \in Holding PROVE req'[p].got # Nil
    OBVIOUS
  <2>2. CASE p = q  BY <2>1, <2>2, GotoMoves
  <2>3. CASE p # q  BY <2>1, <2>3, GotoMoves DEF TypeOK, Holding
  <2>4. QED  BY <2>2, <2>3
<1>3. QED  BY <1>1, <1>2 DEF TypeOK, ReqState, Holding

LEMMA InitType == Init => TypeOK
<1>1. SUFFICES ASSUME Init PROVE TypeOK  OBVIOUS
<1> DEFINE r == [pc |-> "idle", at |-> CHOOSE i \in Instances : TRUE, got |-> Nil]
<1>2. (CHOOSE i \in Instances : TRUE) \in Instances  BY SessionAssumption
<1>3. r \in ReqState /\ r.pc = "idle"  BY <1>2 DEF ReqState, PCs, Assigned
<1>4. req = [q \in Requests |-> r]  BY <1>1 DEF Init
<1> HIDE DEF r
<1>5. req \in [Requests -> ReqState] /\ \A q \in Requests : req[q].pc = "idle"
  BY <1>3, <1>4
<1>6. QED  BY <1>1, <1>5, NoneIsAnswer DEF Init, TypeOK, ReqState, Assigned, Proxying

LEMMA ServeType ==
  ASSUME TypeOK, NEW q \in Requests, Serve(q)
  PROVE  TypeOK'
<1>1. /\ req[q].at \in Instances /\ req[q].got \in Assigned
      /\ req[q].pc \in Holding => req[q].got \in Backends
      /\ redis \in [Instances -> Assigned] /\ local \in [Instances -> Assigned]
      /\ alive \in [Instances -> SUBSET Backends]
      /\ last \in Answers /\ expect \in [Requests -> Answers]
      /\ Nil \in Assigned /\ Backends \subseteq Assigned /\ Nil \notin Backends
  BY SessionAssumption DEF TypeOK, Holding, Assigned
<1> DEFINE i == req[q].at
           g == req[q].got
<1>2. ASSUME NEW pc \in PCs \ Holding, NEW b \in Assigned, Goto(q, pc, b),
             UNCHANGED <<redis, local, alive, last, expect, overlap>>
      PROVE  TypeOK'
  BY <1>1, <1>2, GotoType
<1>3. ASSUME NEW pc \in PCs, NEW b \in Backends, Goto(q, pc, b),
             redis' \in [Instances -> Assigned], local' \in [Instances -> Assigned],
             UNCHANGED <<alive, last, expect, overlap>>
      PROVE  TypeOK'
  <2>1. b \in Assigned /\ b # Nil  BY <1>1
  <2>2. QED  BY <1>1, <1>3, <2>1, GotoType
<1>4. /\ {"local", "check", "select", "fallback", "idle"} \subseteq PCs \ Holding
      /\ {"touch", "find", "refresh", "assign", "store", "stored", "unstored"} \subseteq PCs
      /\ {"touch", "find", "refresh", "assign", "store", "stored", "unstored"} \subseteq Holding
  BY DEF PCs, Holding, Proxying
<1>5. CASE RedisGet(q)
  <2>1. CASE redis[i] # Nil /\ Goto(q, "touch", redis[i])
    <3>1. redis[i] \in Backends  BY <1>1, <2>1 DEF Assigned
    <3>2. QED  BY <1>1, <1>3, <1>4, <1>5, <2>1, <3>1 DEF RedisGet
  <2>2. CASE Goto(q, "local", Nil)  BY <1>1, <1>2, <1>4, <1>5, <2>2 DEF RedisGet
  <2>3. QED  BY <1>5, <2>1, <2>2 DEF RedisGet
<1>6. CASE RedisGetFails(q)
  <2>1. last' \in Answers /\ expect' \in [Requests -> Answers]
    BY <1>6, NoneIsAnswer DEF RedisGetFails
  <2>2. QED  BY <1>1, <1>4, <1>6, <2>1, GotoType DEF RedisGetFails
<1>7. CASE RedisTouch(q)
  <2>1. PICK ok \in BOOLEAN : Set(i, g, ok)  BY <1>7 DEF RedisTouch
  <2>2. g \in Backends  BY <1>1, <1>4, <1>7 DEF RedisTouch
  <2>3. redis' \in [Instances -> Assigned]  BY <1>1, <2>1, SetStores
  <2>4. QED  BY <1>1, <1>3, <1>4, <1>7, <2>2, <2>3 DEF RedisTouch
<1>8. CASE Find(q)
  <2>1. g \in Backends  BY <1>1, <1>4, <1>8 DEF Find
  <2>2. QED  BY <1>1, <1>2, <1>3, <1>4, <1>8, <2>1 DEF Find
<1>9. CASE LocalGet(q)
  <2>1. local[i] \in Assigned  BY <1>1
  <2>2. QED  BY <1>2, <1>4, <1>9, <2>1 DEF LocalGet
<1>10. CASE LocalCheck(q)
  <2>1. CASE g \in alive[i] /\ Goto(q, "refresh", g)
    <3>1. g \in Backends  BY <1>1, <2>1
    <3>2. QED  BY <1>1, <1>3, <1>4, <1>10, <2>1, <3>1 DEF LocalCheck
  <2>2. CASE Goto(q, "select", Nil)  BY <1>1, <1>2, <1>4, <1>10, <2>2 DEF LocalCheck
  <2>3. QED  BY <1>10, <2>1, <2>2 DEF LocalCheck
<1>11. ASSUME NEW ok \in BOOLEAN, Set(i, g, ok), req[q].pc \in Holding,
              Goto(q, IF ok THEN "stored" ELSE "unstored", g),
              UNCHANGED <<local, alive, last, expect, overlap>>
       PROVE  TypeOK'
  <2>1. redis' \in [Instances -> Assigned] /\ g \in Backends  BY <1>1, <1>11, SetStores
  <2>2. (IF ok THEN "stored" ELSE "unstored") \in PCs  BY <1>4
  <2>3. QED  BY <1>1, <1>3, <1>11, <2>1, <2>2
<1>12. CASE LocalRefresh(q)  BY <1>4, <1>11, <1>12 DEF LocalRefresh
<1>13. CASE Select(q)
  <2>1. \A b \in alive[i] : b \in Backends  BY <1>1
  <2>2. QED  BY <1>1, <1>2, <1>3, <1>4, <1>13, <2>1 DEF Select
<1>14. CASE SetLocal(q)
  <2>1. local' \in [Instances -> Assigned]  BY <1>1, <1>14 DEF SetLocal
  <2>2. g \in Backends  BY <1>1, <1>4, <1>14 DEF SetLocal
  <2>3. QED  BY <1>1, <1>3, <1>4, <1>14, <2>1, <2>2 DEF SetLocal
<1>15. CASE SetRedis(q)  BY <1>4, <1>11, <1>15 DEF SetRedis
<1>16. CASE Fallback(q)
  <2>1. \A b \in alive[i] : b \in Backends  BY <1>1
  <2>2. CASE \E b \in alive[i] : Goto(q, "unstored", b) /\ UNCHANGED expect
    BY <1>1, <1>3, <1>4, <1>16, <2>1, <2>2 DEF Fallback
  <2>3. CASE Goto(q, "idle", Nil) /\ expect' = [expect EXCEPT ![q] = None]
    <3>1. expect' \in [Requests -> Answers]  BY <1>1, <2>3, NoneIsAnswer
    <3>2. QED  BY <1>1, <1>4, <1>16, <2>3, <3>1, GotoType DEF Fallback
  <2>4. QED  BY <1>16, <2>2, <2>3 DEF Fallback
<1>17. CASE Answer(q)
  <2>1. expect' \in [Requests -> Answers]  BY <1>1, <1>17, NoneIsAnswer DEF Answer
  <2>2. last' \in Answers
    <3> DEFINE a == [backend |-> g, assigned |-> req[q].pc = "stored"]
    <3>1. a \in Answers  BY <1>1 DEF Answers
    <3> HIDE DEF a
    <3>2. last' \in {a, None, last}  BY <1>17 DEF Answer, a
    <3>3. QED  BY <1>1, <3>1, <3>2, NoneIsAnswer
  <2>3. QED  BY <1>1, <1>4, <1>17, <2>1, <2>2, GotoType DEF Answer
<1>18. QED
  BY <1>5, <1>6, <1>7, <1>8, <1>9, <1>10, <1>12, <1>13, <1>14, <1>15, <1>16, <1>17 DEF Serve

\* Where an arrival leaves the requests.
LEMMA ArriveMoves ==
  ASSUME TypeOK, NEW q \in Requests, NEW i \in Instances, Arrive(q, i)
  PROVE  /\ req' \in [Requests -> ReqState]
         /\ req'[q].pc = "get"
         /\ \A p \in Requests : p # q => req'[p] = req[p]
         /\ expect' \in [Requests -> Answers]
         /\ expect'[q] = last
         /\ \A p \in Requests : p # q => expect'[p] = expect[p]
<1> DEFINE r == [pc |-> "get", at |-> i, got |-> Nil]
<1>1. r \in ReqState /\ r.pc = "get"  BY DEF ReqState, PCs, Assigned
<1>2. req' = [req EXCEPT ![q] = r] /\ req \in [Requests -> ReqState]
  BY DEF Arrive, TypeOK, ReqState
<1> HIDE DEF r
<1>3. expect' = [expect EXCEPT ![q] = last] /\ expect \in [Requests -> Answers] /\ last \in Answers
  BY DEF Arrive, TypeOK
<1>4. QED  BY <1>1, <1>2, <1>3

LEMMA ArriveType ==
  ASSUME TypeOK, NEW q \in Requests, NEW i \in Instances, Arrive(q, i)
  PROVE  TypeOK'
<1>1. \A p \in Requests : req'[p].pc \in Holding => req'[p].got # Nil
  BY ArriveMoves DEF TypeOK, Holding, Proxying
<1>2. QED  BY <1>1, ArriveMoves DEF TypeOK, Arrive, ReqState, Holding

LEMMA WithoutType ==
  ASSUME NEW b \in Backends, NEW a \in Answers
  PROVE  Without(b, a) \in Answers
BY NoneIsAnswer DEF Without

LEMMA DownType ==
  ASSUME TypeOK, NEW i \in Instances, NEW b \in Backends, Down(i, b)
  PROVE  TypeOK'
<1>1. alive' \in [Instances -> SUBSET Backends]  BY DEF TypeOK, Down
<1>2. last' \in Answers /\ expect' \in [Requests -> Answers]
  BY WithoutType DEF TypeOK, Down
<1>3. QED  BY <1>1, <1>2 DEF TypeOK, Down

LEMMA UpType ==
  ASSUME TypeOK, NEW i \in Instances, NEW b \in Backends, Up(i, b)
  PROVE  TypeOK'
<1>1. alive' \in [Instances -> SUBSET Backends]  BY DEF TypeOK, Up
<1>2. QED  BY <1>1 DEF TypeOK, Up

\* Where a restart leaves the requests.
LEMMA RestartMoves ==
  ASSUME TypeOK, NEW i \in Instances, Restart(i)
  PROVE  /\ req' \in [Requests -> ReqState]
         /\ \A q \in Requests : req[q].at = i => req'[q].pc = "idle"
         /\ \A q \in Requests : req[q].at # i => req'[q] = req[q]
<1> DEFINE r(q) == [req[q] EXCEPT !.pc = "idle", !.got = Nil]
<1>1. \A q \in Requests : req[q] \in ReqState  BY DEF TypeOK, ReqState
<1>2. \A q \in Requests : r(q) \in ReqState /\ r(q).pc = "idle"
  BY <1>1 DEF ReqState, PCs, Assigned
<1>3. req' = [q \in Requests |-> IF req[q].at = i THEN r(q) ELSE req[q]]  BY DEF Restart
<1> HIDE DEF r
<1>4. QED  BY <1>1, <1>2, <1>3

LEMMA RestartType ==
  ASSUME TypeOK, NEW i \in Instances, Restart(i)
  PROVE  TypeOK'
<1>1. local' \in [Instances -> Assigned] /\ alive' \in [Instances -> SUBSET Backends]
  BY DEF TypeOK, Restart, Assigned
<1>2. redis' \in [Instances -> Assigned]  BY DEF TypeOK, Restart, Assigned
<1>3. \A q \in Requests : req'[q].pc \in Holding => req'[q].got # Nil
  BY RestartMoves DEF TypeOK, Holding, Proxying
<1>4. last' \in Answers /\ expect' \in [Requests -> Answers] /\ overlap' = overlap
  BY NoneIsAnswer DEF TypeOK, Restart
<1>5. QED  BY <1>1, <1>2, <1>3, <1>4, RestartMoves DEF TypeOK, ReqState, Holding

LEMMA NextType == TypeOK /\ [Next]_vars => TypeOK'
<1>1. SUFFICES ASSUME TypeOK, [Next]_vars PROVE TypeOK'  OBVIOUS
<1>2. CASE UNCHANGED vars  BY <1>1, <1>2 DEF TypeOK, vars
<1>3. CASE Next
  BY <1>1, <1>3, ArriveType, ServeType, DownType, UpType, RestartType DEF Next
<1>4. QED  BY <1>1, <1>2, <1>3

\* TypeOK, and with it: no request ever passes on, stores or is proxied to a
\* backend that is not there, whatever fails and however many are open.
THEOREM SessionsTypeCorrect == Spec => []TypeOK
<1>1. Init => TypeOK  BY InitType
<1>2. TypeOK /\ [Next]_vars => TypeOK'  BY NextType
<1>3. QED  BY <1>1, <1>2, PTL DEF Spec

-----------------------------------------------------------------------------
(* One request at a time, one Redis *)

\* What a step of the open request q does to the invariant, if it leads q to pc
\* with backend got, and leaves the history alone.
LEMMA GotoKeeps ==
  ASSUME Awaited, NEW q \in Requests, req[q].pc # "idle",
         NEW pc \in PCs \ {"idle"}, NEW got \in Assigned, Goto(q, pc, got),
         UNCHANGED <<last, expect>>,
         pc \in {"touch", "find", "stored"} => \A i \in Instances : redis'[i] = got,
         last.assigned => pc \in {"get", "touch", "find", "stored"}
  PROVE  OneRequest' /\ ReadStored' /\ OnPath' /\ ExpectsLast'
<1>1. /\ req'[q].pc = pc /\ req'[q].got = got
      /\ \A p \in Requests : p # q => req'[p] = req[p]
  BY GotoMoves DEF Awaited
<1>2. \A p \in Requests : p # q => req'[p].pc = "idle"
  BY <1>1 DEF Awaited, OneRequest
<1>3. OneRequest'  BY <1>2 DEF OneRequest
<1>4. ReadStored'
  <2>1. SUFFICES ASSUME NEW p \in Requests, req'[p].pc \in {"touch", "find", "stored"},
                        NEW i \in Instances
                 PROVE  redis'[i] = req'[p].got
    BY DEF ReadStored
  <2>2. p = q  BY <1>2, <2>1
  <2>3. QED  BY <1>1, <2>1, <2>2
<1>5. OnPath'
  <2>1. SUFFICES ASSUME last.assigned, NEW p \in Requests
                 PROVE  req'[p].pc \in {"idle", "get", "touch", "find", "stored"}
    BY DEF OnPath
  <2>2. CASE p = q  BY <1>1, <2>1, <2>2
  <2>3. CASE p # q  BY <1>2, <2>3
  <2>4. QED  BY <2>2, <2>3
<1>6. ExpectsLast'
  <2>1. SUFFICES ASSUME NEW p \in Requests, expect[p].assigned
                 PROVE  expect[p] = last /\ req'[p].pc # "idle"
    BY DEF ExpectsLast
  <2>2. expect[p] = last /\ req[p].pc # "idle"  BY <2>1 DEF Awaited, ExpectsLast
  <2>3. p = q  BY <2>2 DEF Awaited, OneRequest
  <2>4. QED  BY <1>1, <2>2, <2>3
<1>7. QED  BY <1>3, <1>4, <1>5, <1>6

\* When the open request leaves, nothing is in flight and nothing is expected.
LEMMA LeaveKeeps ==
  ASSUME Awaited, NEW q \in Requests, req[q].pc # "idle", Goto(q, "idle", Nil),
         expect' = [expect EXCEPT ![q] = None]
  PROVE  OneRequest' /\ ReadStored' /\ OnPath' /\ ExpectsLast'
<1>1. req'[q].pc = "idle" /\ \A p \in Requests : p # q => req'[p] = req[p]
  BY GotoMoves DEF Awaited, PCs, Assigned
<1>2. \A p \in Requests : p # q => req[p].pc = "idle" /\ ~expect[p].assigned
  BY DEF Awaited, OneRequest, ExpectsLast
<1>3. \A p \in Requests : req'[p].pc = "idle"  BY <1>1, <1>2
<1>4. \A p \in Requests : ~expect'[p].assigned
  <2>1. TAKE p \in Requests
  <2>2. expect'[p] = IF p = q THEN None ELSE expect[p]  BY DEF Awaited, TypeOK
  <2>3. QED  BY <1>2, <2>2, NoneIsAnswer
<1>5. QED  BY <1>3, <1>4 DEF OneRequest, ReadStored, OnPath, ExpectsLast

\* Redis does not change.
LEMMA RedisStays ==
  ASSUME Awaited, UNCHANGED <<redis, alive, last>>
  PROVE  OneRedis' /\ LastStored'
BY DEF Awaited, OneRedis, LastStored

\* Redis is told of b, or may have been told; the last answer does not count, or
\* came from b.
LEMMA SetKeeps ==
  ASSUME Awaited, OneStore, NEW i \in Instances, NEW b \in Assigned, NEW ok \in BOOLEAN,
         Set(i, b, ok), UNCHANGED <<alive, last>>,
         last.assigned => \A j \in Instances : redis[j] = b
  PROVE  /\ OneRedis' /\ LastStored'
         /\ ok => \A j \in Instances : redis'[j] = b
<1>1. /\ ok => \A j \in Instances : redis'[j] = b
      /\ redis' = redis \/ \A j \in Instances : redis'[j] = b
      /\ (\A j \in Instances : redis[j] = b) => \A j \in Instances : redis'[j] = b
  BY SetStores DEF Awaited
<1>2. OneRedis'  BY <1>1 DEF Awaited, OneRedis
<1>3. LastStored'
  <2>1. SUFFICES ASSUME last.assigned, NEW j \in Instances
                 PROVE  redis'[j] = last.backend /\ last.backend \in alive[j]
    BY DEF LastStored
  <2>2. redis[j] = last.backend /\ last.backend \in alive[j]  BY <2>1 DEF Awaited, LastStored
  <2>3. QED  BY <1>1, <2>1, <2>2
<1>4. QED  BY <1>1, <1>2, <1>3

LEMMA ServeKeeps ==
  ASSUME Awaited, OneStore, NEW q \in Requests, Serve(q)
  PROVE  OneRedis' /\ OneRequest' /\ LastStored' /\ ReadStored' /\ OnPath' /\ ExpectsLast'
<1> DEFINE i == req[q].at
           g == req[q].got
<1>1. /\ i \in Instances /\ g \in Assigned
      /\ redis \in [Instances -> Assigned] /\ local \in [Instances -> Assigned]
      /\ alive \in [Instances -> SUBSET Backends]
      /\ Nil \in Assigned /\ Backends \subseteq Assigned /\ Nil \notin Backends
  BY SessionAssumption DEF Awaited, TypeOK, Assigned
<1>2. /\ last.assigned => req[q].pc \in {"idle", "get", "touch", "find", "stored"}
      /\ last.assigned => \A j \in Instances : redis[j] = last.backend /\ last.backend \in alive[j]
      /\ \A j, k \in Instances : redis[j] = redis[k]
      /\ req[q].pc \in {"touch", "find", "stored"} => \A j \in Instances : redis[j] = g
  BY DEF Awaited, OnPath, LastStored, OneRedis, ReadStored
\* Off the path the last answer does not count, and no step reads Redis.
<1>3. ASSUME NEW pc \in {"local", "check", "refresh", "select", "assign", "store",
                         "fallback", "unstored"},
             NEW b \in Assigned, Goto(q, pc, b), UNCHANGED <<redis, alive, last, expect>>,
             req[q].pc # "idle", ~last.assigned
      PROVE  OneRedis' /\ OneRequest' /\ LastStored' /\ ReadStored' /\ OnPath' /\ ExpectsLast'
  <2>1. pc \in PCs \ {"idle"} /\ pc \notin {"touch", "find", "stored"}  BY DEF PCs
  <2>2. OneRequest' /\ ReadStored' /\ OnPath' /\ ExpectsLast'
    BY <1>3, <2>1, GotoKeeps
  <2>3. QED  BY <1>3, <2>2, RedisStays
<1>4. CASE RedisGet(q)
  <2>1. UNCHANGED <<redis, local, alive, last, expect>> /\ req[q].pc = "get"
    BY <1>4 DEF RedisGet
  <2>2. CASE Goto(q, "touch", redis[i])
    <3>1. (\A j \in Instances : redis'[j] = redis[i]) /\ redis[i] \in Assigned
      BY <1>1, <1>2, <2>1
    <3>2. OneRequest' /\ ReadStored' /\ OnPath' /\ ExpectsLast'
      BY <2>1, <2>2, <3>1, GotoKeeps DEF PCs
    <3>3. QED  BY <2>1, <3>2, RedisStays
  <2>3. CASE redis[i] = Nil /\ Goto(q, "local", Nil)
    <3>1. ~last.assigned  BY <1>1, <1>2, <2>3
    <3>2. QED  BY <1>1, <1>3, <2>1, <2>3, <3>1
  <2>4. QED  BY <1>4, <2>2, <2>3 DEF RedisGet
<1>5. CASE RedisGetFails(q)
  <2>1. /\ UNCHANGED redis /\ last' = None /\ ~last'.assigned
        /\ \A p \in Requests : ~expect'[p].assigned
    BY <1>5, NoneIsAnswer DEF RedisGetFails
  <2>2. req'[q].pc = "local" /\ \A p \in Requests : p # q => req'[p] = req[p]
    BY <1>1, <1>5, GotoMoves DEF RedisGetFails, Awaited, PCs
  <2>3. \A p \in Requests : p # q => req'[p].pc = "idle"
    BY <1>5, <2>2 DEF RedisGetFails, Awaited, OneRequest
  <2>4. OneRedis' /\ LastStored' /\ OnPath' /\ ExpectsLast'
    BY <2>1 DEF Awaited, OneRedis, LastStored, OnPath, ExpectsLast
  <2>5. OneRequest' /\ ReadStored'
    BY <2>2, <2>3 DEF OneRequest, ReadStored
  <2>6. QED  BY <2>4, <2>5
<1>6. CASE RedisTouch(q)
  <2>1. PICK ok \in BOOLEAN : Set(i, g, ok)  BY <1>6 DEF RedisTouch
  <2>2. /\ UNCHANGED <<alive, last, expect>> /\ req[q].pc = "touch" /\ Goto(q, "find", g)
    BY <1>6 DEF RedisTouch
  <2>3. OneRedis' /\ LastStored'  BY <1>1, <1>2, <2>1, <2>2, SetKeeps
  <2>4. \A j \in Instances : redis'[j] = g  BY <1>1, <1>2, <2>1, <2>2, SetStores DEF Awaited
  <2>5. OneRequest' /\ ReadStored' /\ OnPath' /\ ExpectsLast'
    BY <1>1, <2>2, <2>4, GotoKeeps DEF PCs
  <2>6. QED  BY <2>3, <2>5
<1>7. CASE Find(q)
  <2>1. UNCHANGED <<redis, local, alive, last, expect>> /\ req[q].pc = "find"
    BY <1>7 DEF Find
  <2>2. CASE Goto(q, "stored", g)
    <3>1. OneRequest' /\ ReadStored' /\ OnPath' /\ ExpectsLast'
      BY <1>1, <1>2, <2>1, <2>2, GotoKeeps DEF PCs
    <3>2. QED  BY <2>1, <3>1, RedisStays
  <2>3. CASE g \notin alive[i] /\ Goto(q, "local", Nil)
    <3>1. ~last.assigned  BY <1>1, <1>2, <2>1, <2>3
    <3>2. QED  BY <1>1, <1>3, <2>1, <2>3, <3>1
  <2>4. QED  BY <1>7, <2>2, <2>3 DEF Find
<1>8. CASE LocalGet(q)
  <2>1. local[i] \in Assigned  BY <1>1
  <2>2. QED  BY <1>2, <1>3, <1>8, <2>1 DEF LocalGet
<1>9. CASE LocalCheck(q)  BY <1>1, <1>2, <1>3, <1>9 DEF LocalCheck
<1>10. ASSUME NEW ok \in BOOLEAN, Set(i, g, ok), req[q].pc \in {"refresh", "store"},
              Goto(q, IF ok THEN "stored" ELSE "unstored", g),
              UNCHANGED <<alive, last, expect>>
       PROVE  OneRedis' /\ OneRequest' /\ LastStored' /\ ReadStored' /\ OnPath' /\ ExpectsLast'
  <2>1. ~last.assigned  BY <1>2, <1>10
  <2>2. OneRedis' /\ LastStored' /\ (ok => \A j \in Instances : redis'[j] = g)
    BY <1>1, <1>10, <2>1, SetKeeps
  <2>3. OneRequest' /\ ReadStored' /\ OnPath' /\ ExpectsLast'
    <3>1. CASE ok  BY <1>1, <1>10, <2>1, <2>2, <3>1, GotoKeeps DEF PCs
    <3>2. CASE ~ok  BY <1>1, <1>10, <2>1, <3>2, GotoKeeps DEF PCs
    <3>3. QED  BY <3>1, <3>2
  <2>4. QED  BY <2>2, <2>3
<1>11. CASE LocalRefresh(q)  BY <1>10, <1>11 DEF LocalRefresh
<1>12. CASE Select(q)
  <2>1. \A b \in alive[i] : b \in Assigned  BY <1>1
  <2>2. QED  BY <1>1, <1>2, <1>3, <1>12, <2>1 DEF Select
<1>13. CASE SetLocal(q)  BY <1>1, <1>2, <1>3, <1>13 DEF SetLocal
<1>14. CASE SetRedis(q)  BY <1>10, <1>14 DEF SetRedis
<1>15. CASE Fallback(q)
  <2>1. ~last.assigned /\ req[q].pc # "idle" /\ UNCHANGED <<redis, alive, last>>
    BY <1>2, <1>15 DEF Fallback
  <2>2. CASE \E b \in alive[i] : Goto(q, "unstored", b) /\ UNCHANGED expect
    <3>1. \A b \in alive[i] : b \in Assigned  BY <1>1
    <3>2. QED  BY <1>3, <2>1, <2>2, <3>1
  <2>3. CASE Goto(q, "idle", Nil) /\ expect' = [expect EXCEPT ![q] = None]
    BY <2>1, <2>3, LeaveKeeps, RedisStays
  <2>4. QED  BY <1>15, <2>2, <2>3 DEF Fallback
<1>16. CASE Answer(q)
  <2>1. /\ req[q].pc \in Proxying /\ Goto(q, "idle", Nil)
        /\ expect' = [expect EXCEPT ![q] = None] /\ UNCHANGED <<redis, alive>>
    BY <1>16 DEF Answer
  <2>2. OneRequest' /\ ReadStored' /\ OnPath' /\ ExpectsLast'
    BY <2>1, LeaveKeeps DEF Proxying
  <2>3. OneRedis'  BY <2>1 DEF Awaited, OneRedis
  <2>4. LastStored'
    <3>1. CASE UNCHANGED last  BY <2>1, <3>1, RedisStays
    <3>2. CASE last' = None  BY <3>2, NoneIsAnswer DEF LastStored
    <3>3. CASE /\ last' = [backend |-> g, assigned |-> req[q].pc = "stored"]
               /\ \A j \in Instances : g \in alive[j]
      <4>1. last'.backend = g /\ (last'.assigned <=> req[q].pc = "stored")  BY <3>3
      <4>2. QED  BY <1>2, <2>1, <3>3, <4>1 DEF LastStored
    <3>4. QED  BY <1>16, <3>1, <3>2, <3>3 DEF Answer
  <2>5. QED  BY <2>2, <2>3, <2>4
<1>17. QED
  BY <1>4, <1>5, <1>6, <1>7, <1>8, <1>9, <1>11, <1>12, <1>13, <1>14, <1>15, <1>16 DEF Serve

\* A request that arrives is the only one, or from now on two are open.
LEMMA ArriveKeeps ==
  ASSUME Awaited, NEW q \in Requests, NEW i \in Instances, Arrive(q, i), ~overlap'
  PROVE  OneRedis' /\ OneRequest' /\ LastStored' /\ ReadStored' /\ OnPath' /\ ExpectsLast'
<1>1. \A p \in Requests : req[p].pc = "idle"  BY DEF Arrive
<1>2. \A p \in Requests : req[p].pc = "idle" /\ ~expect[p].assigned
  BY <1>1 DEF Awaited, ExpectsLast
<1>3. UNCHANGED <<redis, alive, last>>  BY DEF Arrive
<1>4. /\ req'[q].pc = "get" /\ expect'[q] = last
      /\ \A p \in Requests : p # q => req'[p].pc = "idle" /\ ~expect'[p].assigned
  BY <1>2, ArriveMoves DEF Awaited
<1>5. OneRedis' /\ LastStored'  BY <1>3, RedisStays
<1>6. OneRequest' /\ ReadStored' /\ OnPath'  BY <1>4 DEF OneRequest, ReadStored, OnPath
<1>7. ExpectsLast'  BY <1>3, <1>4 DEF ExpectsLast
<1>8. QED  BY <1>5, <1>6, <1>7

\* The answers of a backend that is held for dead are forgotten.
LEMMA DownKeeps ==
  ASSUME Awaited, NEW i \in Instances, NEW b \in Backends, Down(i, b)
  PROVE  OneRedis' /\ OneRequest' /\ LastStored' /\ ReadStored' /\ OnPath' /\ ExpectsLast'
<1>1. UNCHANGED <<redis, req>>  BY DEF Down
<1>2. \A j \in Instances : alive'[j] = IF j = i THEN alive[j] \ {b} ELSE alive[j]
  BY DEF Down, Awaited, TypeOK
<1>3. last'.assigned => last' = last /\ last.backend # b
  BY NoneIsAnswer DEF Down, Without
<1>4. OneRedis' /\ OneRequest' /\ ReadStored'
  BY <1>1 DEF Awaited, OneRedis, OneRequest, ReadStored
<1>5. LastStored'  BY <1>1, <1>2, <1>3 DEF Awaited, LastStored
<1>6. OnPath'  BY <1>1, <1>3 DEF Awaited, OnPath
<1>7. ExpectsLast'
  <2>1. SUFFICES ASSUME NEW q \in Requests, expect'[q].assigned
                 PROVE  expect'[q] = last' /\ req[q].pc # "idle"
    BY <1>1 DEF ExpectsLast
  <2>2. expect'[q] = Without(b, expect[q])  BY DEF Down
  <2>3. expect'[q] = expect[q] /\ expect[q].backend # b
    BY <2>1, <2>2, NoneIsAnswer DEF Without
  <2>4. expect[q] = last /\ req[q].pc # "idle"  BY <2>1, <2>3 DEF Awaited, ExpectsLast
  <2>5. QED  BY <2>3, <2>4 DEF Down, Without
<1>8. QED  BY <1>4, <1>5, <1>6, <1>7

LEMMA UpKeeps ==
  ASSUME Awaited, NEW i \in Instances, NEW b \in Backends, Up(i, b)
  PROVE  OneRedis' /\ OneRequest' /\ LastStored' /\ ReadStored' /\ OnPath' /\ ExpectsLast'
<1>1. UNCHANGED <<redis, req, last, expect>>  BY DEF Up
<1>2. \A j \in Instances : alive[j] \subseteq alive'[j]  BY DEF Up, Awaited, TypeOK
<1>3. OneRedis' /\ OneRequest' /\ ReadStored' /\ OnPath' /\ ExpectsLast'
  BY <1>1 DEF Awaited, OneRedis, OneRequest, ReadStored, OnPath, ExpectsLast
<1>4. LastStored'  BY <1>1, <1>2 DEF Awaited, LastStored
<1>5. QED  BY <1>3, <1>4

\* A shared Redis outlives the instance; another one is lost with all it was told.
LEMMA RestartKeeps ==
  ASSUME Awaited, OneStore, NEW i \in Instances, Restart(i)
  PROVE  OneRedis' /\ OneRequest' /\ LastStored' /\ ReadStored' /\ OnPath' /\ ExpectsLast'
<1>1. \A q \in Requests : req'[q].pc = "idle" \/ (req'[q] = req[q] /\ req[q].at # i)
  BY RestartMoves DEF Awaited
<1>2. OneRequest'  BY <1>1 DEF Awaited, OneRequest
<1>3. CASE Shared
  <2>1. /\ UNCHANGED <<redis, last>>
        /\ \A q \in Requests : expect'[q] = IF req[q].at = i THEN None ELSE expect[q]
    BY <1>3 DEF Restart
  <2>2. last.assigned => last.backend \in Backends
    <3>1. PICK j \in Instances : TRUE  BY SessionAssumption
    <3>2. alive[j] \subseteq Backends  BY DEF Awaited, TypeOK
    <3>3. QED  BY <3>2 DEF Awaited, LastStored
  <2>3. \A j \in Instances : alive'[j] = IF j = i THEN Backends ELSE alive[j]
    BY DEF Restart, Awaited, TypeOK
  <2>4. OneRedis' /\ LastStored'  BY <2>1, <2>2, <2>3 DEF Awaited, OneRedis, LastStored
  <2>5. ReadStored' /\ OnPath'  BY <1>1, <2>1 DEF Awaited, ReadStored, OnPath
  <2>6. ExpectsLast'
    <3>1. SUFFICES ASSUME NEW q \in Requests, expect'[q].assigned
                   PROVE  expect'[q] = last /\ req'[q].pc # "idle"
      BY <2>1 DEF ExpectsLast
    <3>2. req[q].at # i /\ expect'[q] = expect[q]  BY <2>1, <3>1, NoneIsAnswer
    <3>3. req'[q] = req[q]  BY <3>2, RestartMoves DEF Awaited
    <3>4. QED  BY <3>1, <3>2, <3>3 DEF Awaited, ExpectsLast
  <2>7. QED  BY <1>2, <2>4, <2>5, <2>6
<1>4. CASE ~Shared
  <2>1. /\ redis' = [redis EXCEPT ![i] = Nil] /\ ~last'.assigned
        /\ \A q \in Requests : ~expect'[q].assigned
    BY <1>4, NoneIsAnswer DEF Restart
  <2>2. \A j \in Instances : j = i  BY <1>4 DEF OneStore
  <2>3. \A q \in Requests : req'[q].pc = "idle"
    BY <2>2, RestartMoves DEF Awaited, TypeOK
  <2>4. OneRedis' /\ LastStored' /\ OnPath' /\ ExpectsLast'
    BY <2>1, <2>2 DEF OneRedis, LastStored, OnPath, ExpectsLast
  <2>5. ReadStored'  BY <2>3 DEF ReadStored
  <2>6. QED  BY <1>2, <2>4, <2>5
<1>5. QED  BY <1>3, <1>4 DEF OneStore

\* A client that has not awaited an answer has not awaited it for good.
LEMMA OverlapStays ==
  ASSUME IInv, [Next]_vars, ~overlap'
  PROVE  ~overlap
<1>1. \A q \in Requests : Serve(q) => overlap' = overlap
  BY DEF Serve, RedisGet, RedisGetFails, RedisTouch, Find, LocalGet, LocalCheck,
         LocalRefresh, Select, SetLocal, SetRedis, Fallback, Answer
<1>2. QED  BY <1>1 DEF Next, Arrive, Down, Up, Restart, vars

\* With one Redis, every step of a client that awaits each answer keeps what Redis
\* holds in agreement with the last answer and with what the request has read of it.
THEOREM SessionsInductive ==
  OneStore => (Init => IInv) /\ (IInv /\ [Next]_vars => IInv')
<1>1. SUFFICES ASSUME OneStore PROVE (Init => IInv) /\ (IInv /\ [Next]_vars => IInv')
  OBVIOUS
<1>2. Init => IInv
  <2>1. SUFFICES ASSUME Init PROVE IInv  OBVIOUS
  <2>2. TypeOK  BY <2>1, InitType
  <2>3. ~last.assigned /\ \A q \in Requests : req[q].pc = "idle" /\ ~expect[q].assigned
    BY <2>1, NoneIsAnswer DEF Init
  <2>4. OneRedis  BY <2>1 DEF Init, OneRedis
  <2>5. OneRequest /\ LastStored /\ ReadStored /\ OnPath /\ ExpectsLast
    BY <2>3 DEF OneRequest, LastStored, ReadStored, OnPath, ExpectsLast
  <2>6. QED  BY <2>2, <2>4, <2>5 DEF IInv, Awaited
<1>3. ASSUME IInv, [Next]_vars PROVE IInv'
  <2>1. TypeOK'  BY <1>3, NextType DEF IInv
  <2>2. SUFFICES ASSUME ~overlap' PROVE Awaited'  BY <2>1 DEF IInv
  <2>3. Awaited  BY <1>3, <2>2, OverlapStays DEF IInv
  <2>4. OneRedis' /\ OneRequest' /\ LastStored' /\ ReadStored' /\ OnPath' /\ ExpectsLast'
    <3>1. CASE UNCHANGED vars
      BY <2>3, <3>1
      DEF Awaited, OneRedis, OneRequest, LastStored, ReadStored, OnPath, ExpectsLast, vars
    <3>2. CASE Next
      BY <1>1, <2>2, <2>3, <3>2, ArriveKeeps, ServeKeeps, DownKeeps, UpKeeps, RestartKeeps
      DEF Next
    <3>3. QED  BY <1>3, <3>1, <3>2
  <2>5. QED  BY <2>1, <2>4 DEF Awaited
<1>4. QED  BY <1>2, <1>3

LEMMA SessionsInvariant == OneStore => (Spec => []IInv)
<1>1. SUFFICES ASSUME OneStore PROVE Spec => []IInv  OBVIOUS
<1>2. (Init => IInv) /\ (IInv /\ [Next]_vars => IInv')  BY <1>1, SessionsInductive
<1>3. QED  BY <1>2, PTL DEF Spec

\* For a client that awaits each answer and instances that see one Redis: when
\* nothing is in flight, Redis holds the backend of the last answer, if it was told
\* of it, through every failed store and every crash, those between a store and
\* the answer included.
THEOREM SessionsSurviveInstances == OneStore => (Spec => []RedisRemembers)
<1>1. SUFFICES ASSUME OneStore PROVE Spec => []RedisRemembers  OBVIOUS
<1>2. IInv => RedisRemembers  BY DEF IInv, Awaited, LastStored, RedisRemembers
<1>3. Spec => []IInv  BY <1>1, SessionsInvariant
<1>4. QED  BY <1>2, <1>3, PTL

\* ... and the next request goes to that backend, whichever instances serve the
\* two and whatever restarts lie between.
THEOREM SessionsKeepTheirBackend == OneStore => (Spec => []AssignmentKept)
<1>1. SUFFICES ASSUME OneStore PROVE Spec => []AssignmentKept  OBVIOUS
<1>2. IInv => AssignmentKept
  <2>1. SUFFICES ASSUME IInv, ~overlap, NEW q \in Requests,
                        req[q].pc \in Proxying, expect[q].assigned
                 PROVE  req[q].got = expect[q].backend
    BY DEF AssignmentKept, Kept
  <2>2. Awaited  BY <2>1 DEF IInv
  <2>3. expect[q] = last /\ last.assigned  BY <2>1, <2>2 DEF Awaited, ExpectsLast
  <2>4. req[q].pc = "stored"  BY <2>1, <2>2, <2>3 DEF Awaited, OnPath, Proxying
  <2>5. req[q].at \in Instances  BY <2>2 DEF Awaited, TypeOK
  <2>6. redis[req[q].at] = req[q].got  BY <2>2, <2>4, <2>5 DEF Awaited, ReadStored
  <2>7. redis[req[q].at] = last.backend  BY <2>2, <2>3, <2>5 DEF Awaited, LastStored
  <2>8. QED  BY <2>3, <2>6, <2>7
<1>3. Spec => []IInv  BY <1>1, SessionsInvariant
<1>4. QED  BY <1>2, <1>3, PTL

-----------------------------------------------------------------------------
(* A settled session, for any number of requests and any Redis *)

\* Where an open request of a settled session may be.
Quiet == {"idle", "get", "fallback"} \cup Proxying

\* A step of request q, with nothing but b to store.
LEMMA SettledGoto ==
  ASSUME TypeOK, NEW b \in Backends, Settled(b), NEW q \in Requests,
         NEW pc \in PCs, NEW got \in Assigned, Goto(q, pc, got),
         UNCHANGED alive, \A i \in Instances : redis'[i] = b,
         pc \in Quiet \/ (pc \in {"touch", "find"} /\ got = b),
         req[q].pc \notin Proxying \cup {"fallback"} /\ pc \in Proxying => got = b
  PROVE  /\ Settled(b)'
         /\ \A p \in Requests :
              req[p].pc \notin Proxying \cup {"fallback"} /\ req'[p].pc \in Proxying
                => req'[p].got = b
<1>1. /\ req'[q].pc = pc /\ req'[q].got = got
      /\ \A p \in Requests : p # q => req'[p] = req[p]
  BY GotoMoves
<1>2. Settled(b)'
  <2>1. \A p \in Requests :
          req'[p].pc \in Quiet \/ (req'[p].pc \in {"touch", "find"} /\ req'[p].got = b)
    <3>1. TAKE p \in Requests
    <3>2. CASE p = q  BY <1>1, <3>2
    <3>3. CASE p # q  BY <1>1, <3>3 DEF Settled, Quiet
    <3>4. QED  BY <3>2, <3>3
  <2>2. QED  BY <2>1 DEF Settled, Quiet
<1>3. ASSUME NEW p \in Requests, req[p].pc \notin Proxying \cup {"fallback"},
             req'[p].pc \in Proxying
      PROVE  req'[p].got = b
  <2>1. p = q  BY <1>1, <1>3
  <2>2. QED  BY <1>1, <1>3, <2>1
<1>4. QED  BY <1>2, <1>3

\* What a step keeps of a settled session (the body of SettledStays).
SettledStep(b) ==
  /\ Settled(b)'
  /\ \A q \in Requests :
       /\ req[q].pc \notin Proxying \cup {"fallback"} /\ req'[q].pc \in Proxying
       => req'[q].got = b

LEMMA SettledServe ==
  ASSUME TypeOK, NEW b \in Backends, Settled(b), NEW q \in Requests, Serve(q), ~RedisGetFails(q)
  PROVE  SettledStep(b)
<1> DEFINE i == req[q].at
           g == req[q].got
<1>1. /\ i \in Instances /\ g \in Assigned /\ Nil \in Assigned /\ Nil \notin Backends
      /\ alive[i] \subseteq Backends /\ Backends \subseteq Assigned
  BY SessionAssumption DEF TypeOK, Assigned
<1>2. /\ \A j \in Instances : redis[j] = b /\ b \in alive[j]
      /\ req[q].pc \in Quiet \/ (req[q].pc \in {"touch", "find"} /\ g = b)
  BY DEF Settled, Quiet
<1>3. Quiet \subseteq PCs /\ {"touch", "find"} \subseteq PCs
      /\ {"idle", "stored", "unstored"} \subseteq Quiet
  BY DEF Quiet, PCs, Proxying
<1>4. ASSUME NEW pc \in PCs, NEW got \in Assigned, Goto(q, pc, got),
             UNCHANGED alive, \A j \in Instances : redis'[j] = b,
             pc \in Quiet \/ (pc \in {"touch", "find"} /\ got = b),
             req[q].pc \notin Proxying \cup {"fallback"} /\ pc \in Proxying => got = b
      PROVE  SettledStep(b)
  BY <1>4, SettledGoto DEF SettledStep
<1>5. CASE RedisGet(q)
  <2>1. redis[i] = b /\ b # Nil /\ b \in Assigned  BY <1>1, <1>2
  <2>2. Goto(q, "touch", b) /\ UNCHANGED <<redis, alive>>  BY <1>5, <2>1 DEF RedisGet
  <2>3. "touch" \notin Proxying  BY DEF Proxying
  <2>4. QED  BY <1>2, <1>3, <1>4, <2>1, <2>2, <2>3
<1>6. CASE RedisTouch(q)
  <2>1. PICK ok \in BOOLEAN : Set(i, g, ok)  BY <1>6 DEF RedisTouch
  <2>2. g = b /\ Goto(q, "find", g) /\ UNCHANGED alive
    BY <1>2, <1>6 DEF RedisTouch, Quiet, Proxying
  <2>3. \A j \in Instances : redis'[j] = b  BY <1>1, <1>2, <2>1, <2>2, SetStores
  <2>4. "find" \notin Proxying  BY DEF Proxying
  <2>5. QED  BY <1>1, <1>3, <1>4, <2>2, <2>3, <2>4
<1>7. CASE Find(q)
  <2>1. g = b /\ UNCHANGED <<redis, alive>>  BY <1>2, <1>7 DEF Find, Quiet, Proxying
  <2>2. Goto(q, "stored", g)  BY <1>1, <1>2, <1>7, <2>1 DEF Find
  <2>3. QED  BY <1>1, <1>2, <1>3, <1>4, <2>1, <2>2
<1>8. CASE Fallback(q)
  <2>1. req[q].pc = "fallback" /\ UNCHANGED <<redis, alive>>  BY <1>8 DEF Fallback
  <2>2. PICK c \in alive[i] : Goto(q, "unstored", c)  BY <1>1, <1>2, <1>8 DEF Fallback
  <2>3. c \in Assigned  BY <1>1
  <2>4. QED  BY <1>2, <1>3, <1>4, <2>1, <2>2, <2>3
<1>9. CASE Answer(q)
  <2>1. UNCHANGED <<redis, alive>> /\ Goto(q, "idle", Nil)  BY <1>9 DEF Answer
  <2>2. "idle" \notin Proxying  BY DEF Proxying
  <2>3. QED  BY <1>1, <1>2, <1>3, <1>4, <2>1, <2>2
<1>10. req[q].pc \in {"get", "touch", "find", "fallback"} \cup Proxying \cup {"idle"}
  BY <1>2 DEF Quiet
<1>11. QED
  BY <1>5, <1>6, <1>7, <1>8, <1>9, <1>10
  DEF Serve, LocalGet, LocalCheck, LocalRefresh, Select, SetLocal, SetRedis, Proxying

LEMMA SettledNext ==
  ASSUME TypeOK, [Next]_vars, NEW b \in Backends, Settled(b),
         ~(\E q \in Requests : RedisGetFails(q)),
         ~(\E i \in Instances : Down(i, b) \/ (~Shared /\ Restart(i)))
  PROVE  SettledStep(b)
<1>1. CASE UNCHANGED vars  BY <1>1 DEF Settled, SettledStep, vars
<1>2. ASSUME NEW q \in Requests, NEW i \in Instances, Arrive(q, i) PROVE SettledStep(b)
  <2>1. req'[q].pc = "get" /\ (\A p \in Requests : p # q => req'[p] = req[p])
        /\ UNCHANGED <<redis, alive>>
    BY <1>2, ArriveMoves DEF Arrive
  <2>2. "get" \notin Proxying  BY DEF Proxying
  <2>3. QED  BY <2>1, <2>2 DEF Settled, SettledStep
<1>3. ASSUME NEW i \in Instances, NEW c \in Backends, Down(i, c) PROVE SettledStep(b)
  <2>1. c # b /\ UNCHANGED <<redis, req>>  BY <1>3 DEF Down
  <2>2. \A j \in Instances : b \in alive[j] => b \in alive'[j]
    BY <1>3, <2>1 DEF Down, TypeOK
  <2>3. QED  BY <2>1, <2>2 DEF Settled, SettledStep
<1>4. ASSUME NEW i \in Instances, NEW c \in Backends, Up(i, c) PROVE SettledStep(b)
  <2>1. UNCHANGED <<redis, req>> /\ \A j \in Instances : b \in alive[j] => b \in alive'[j]
    BY <1>4 DEF Up, TypeOK
  <2>2. QED  BY <2>1 DEF Settled, SettledStep
<1>5. ASSUME NEW i \in Instances, Restart(i), Shared PROVE SettledStep(b)
  <2>1. UNCHANGED redis /\ \A j \in Instances : b \in alive[j] => b \in alive'[j]
    BY <1>5 DEF Restart, TypeOK
  <2>2. \A q \in Requests : req'[q].pc = "idle" \/ req'[q] = req[q]
    BY <1>5, RestartMoves
  <2>3. "idle" \notin Proxying  BY DEF Proxying
  <2>4. QED  BY <2>1, <2>2, <2>3 DEF Settled, SettledStep
<1>6. QED  BY <1>1, <1>2, <1>3, <1>4, <1>5, SettledServe DEF Next

\* SettledStays, whatever the Redis and however many requests: once nothing in
\* flight can store another backend, no interleaving of reads, write-backs, maps
\* and restarts takes the session from its backend.
THEOREM SettledSessionsStay == Spec => SettledStays
<1> DEFINE Stays ==
      \A b \in Backends :
        /\ Settled(b)
        /\ ~(\E q \in Requests : RedisGetFails(q))
        /\ ~(\E i \in Instances : Down(i, b) \/ (~Shared /\ Restart(i)))
        => SettledStep(b)
<1>1. TypeOK /\ [Next]_vars => [Stays]_vars  BY SettledNext
<1>2. [Stays]_vars => [\A b \in Backends :
        /\ Settled(b)
        /\ ~(\E q \in Requests : RedisGetFails(q))
        /\ ~(\E i \in Instances : Down(i, b) \/ (~Shared /\ Restart(i)))
        => /\ Settled(b)'
           /\ \A q \in Requests :
                /\ req[q].pc \notin Proxying \cup {"fallback"} /\ req'[q].pc \in Proxying
                => req'[q].got = b]_vars
  BY DEF SettledStep
<1>3. Spec => []TypeOK  BY SessionsTypeCorrect
<1>4. QED  BY <1>1, <1>2, <1>3, PTL DEF Spec, SettledStays

=============================================================================
