--------------------------- MODULE ServerPoolProofs ---------------------------
(***************************************************************************)
(* Theorems about ServerPool, for any pool, weights, regions and number of *)
(* handlers.  Three things carry them: what AddBackend has listed, which   *)
(* needs an induction over the pool; Sound, what a choice knows of the     *)
(* backends it has already read, kept by every step of its own and by      *)
(* every change of the environment; and Counted, the count of the tickets  *)
(* as long as nothing has gone wrong.                                      *)
(***************************************************************************)
EXTENDS ServerPool, TLAPS, FiniteSetTheorems, WellFoundedInduction

L == Len(weighted)

\* A choice, with the types of its parts.
Choice ==
  [pc : PCs, region : Regions \cup {Default}, list : Seq(Backends), found : Seq(Backends),
   best : Backends \cup {Nil}, start : 0..L, i : 0..L, second : BOOLEAN,
   steady : SUBSET Backends, good : SUBSET Backends, shut : SUBSET Backends]

\* The backends a choice must not pass over.
Wanted(p) == {b \in p.good : InRegion(b, p.region)}

AllIn(s, r) == \A b \in ToSet(s) : InRegion(b, r)

\* The slot read k slots after the first.
SlotAt(p, k) == weighted[1 + ((p.start - 1 + k) % L)]

\* The histories are what they say, given which backends are alive (a) and whose
\* breakers are open (o) now.
Observed(p, a, o) ==
  /\ \A b \in p.steady : a[b]
  /\ \A b \in p.good : a[b] /\ ~o[b]
  /\ \A b \in p.shut : o[b]

\* The scans of getHealthyByRegion have missed no wanted backend, the scores
\* lead to one of the region, and the rest is done only if there is none.
Selecting(p) ==
  /\ p.pc = "regional" =>
       /\ AllIn(p.list, p.region) /\ AllIn(p.found, p.region)
       /\ Wanted(p) \subseteq ToSet(p.list) \cup ToSet(p.found)
  /\ p.pc \in {"regional", "pool"} => p.best = Nil
  /\ p.pc = "score" /\ Wanted(p) # {} =>
       /\ AllIn(p.list, p.region)
       /\ p.best = Nil => Wanted(p) \subseteq ToSet(p.list)
  /\ p.pc \in {"score", "routed"} /\ Wanted(p) # {} =>
       /\ p.best # Nil => InRegion(p.best, p.region)
       /\ p.best \notin p.shut
  /\ p.pc \in {"pool", "ticket", "weighted"} => Wanted(p) = {}

\* The slots read so far held no backend that has stayed alive.
Drawing(p) ==
  /\ p.pc = "weighted" => /\ p.start > 0
                          /\ \A k \in 0..(p.i - 1) : SlotAt(p, k) \notin p.steady
  /\ p.pc = "unavailable" => p.steady = {}
  /\ p.pc = "routed" => p.best \in Backends

Sound(p, a, o) == p \in Choice /\ Observed(p, a, o) /\ Selecting(p) /\ Drawing(p)

Typed ==
  /\ HealthTypeOK /\ check.next \in DOMAIN Pool
  /\ open \in [Backends -> BOOLEAN]
  /\ current \in 0..MaxTickets /\ events \in 0..MaxEvents
  /\ tally \in [Backends -> Nat]
  /\ DOMAIN pick = Handlers

\* The first n tickets that are b's.
Tickets(b, n) == {t \in 0..(n - 1) : weighted[1 + (t % L)] = b}

\* Nothing has gone wrong: then every backend is alive, the first slot a ticket
\* leads to is taken, and every ticket drawn is counted or still pending.
Calm == (\A b \in Backends : reach[b]) /\ events = 0

Waiting(b, pk) == {h \in Handlers : pk[h].pc = "weighted" /\ SlotAt(pk[h], pk[h].i) = b}

Counted ==
  Calm =>
    /\ \A b \in Backends : alive[b]
    /\ check.dialed # "down"
    /\ \A h \in Handlers : pick[h].pc = "weighted" => pick[h].i = 0
    /\ \A b \in Backends :
         tally[b] + Cardinality(Waiting(b, pick)) = Cardinality(Tickets(b, current))

IInv == Typed /\ (\A h \in Handlers : Sound(pick[h], alive, open)) /\ Counted

-----------------------------------------------------------------------------
(* What AddBackend has listed *)

Less == {ss \in Nat \X Nat : ss[1] < ss[2]}

\* Induction over the naturals, for a set: the library's theorems take an
\* operator instead.
LEMMA SetInduction ==
  ASSUME NEW T, 0 \in T, \A n \in Nat : n \in T => n + 1 \in T
  PROVE  Nat \subseteq T
<1> DEFINE Z == Nat \ T
<1>1. SUFFICES ASSUME Z # {} PROVE FALSE  OBVIOUS
<1>2. PICK x \in Z : \A y \in Z : <<y, x>> \notin Less
  <2>1. IsWellFoundedOn(Less, Nat)  BY NatLessThanWellFounded DEF OpToRel, Less
  <2>2. Z \subseteq Nat  OBVIOUS
  <2> HIDE DEF Z
  <2>3. QED  BY <1>1, <2>1, <2>2, WFMin
<1>3. \A y \in Nat : y < x => <<y, x>> \in Less  BY <1>2 DEF Less
<1>4. x # 0  BY <1>2
<1>5. x - 1 \in Nat /\ x - 1 < x  BY <1>2, <1>4
<1>6. x - 1 \in T  BY <1>2, <1>3, <1>5
<1>7. QED  BY <1>2, <1>5, <1>6

LEMMA PoolFacts ==
  /\ Pool \in Seq(Backends) /\ Len(Pool) \in Nat \ {0} /\ DOMAIN Pool = 1..Len(Pool)
  /\ \A n \in 1..Len(Pool) : Pool[n] \in Backends
  /\ \A b \in Backends : \E n \in 1..Len(Pool) : Pool[n] = b
  /\ \A b \in Backends : Weight[b] \in Nat \ {0} /\ Region[b] \in Regions /\ b # Nil
  /\ Default \notin Regions
<1>1. Pool \in Seq(Backends) /\ Backends = ToSet(Pool)  BY PoolAssumption
<1>2. Len(Pool) \in Nat \ {0} /\ DOMAIN Pool = 1..Len(Pool)  BY <1>1, PoolAssumption
<1>3. QED  BY <1>1, <1>2, PoolAssumption DEF ToSet

NoLists == [weighted |-> <<>>, regions |-> [r \in Regions |-> <<>>]]

\* The lists after n calls of AddBackend, f, are given by the recursion.
Recurs(f, n) ==
  f = [i \in 0..n |-> IF i = 0 THEN NoLists ELSE AddBackend(f[i - 1], Pool[i])]

LEMMA ListsExist == \A n \in Nat : \E f : Recurs(f, n)
<1> DEFINE T == {n \in Nat : \E f : Recurs(f, n)}
<1>1. 0 \in T
  <2>1. Recurs([i \in 0..0 |-> NoLists], 0)  BY DEF Recurs
  <2>2. QED  BY <2>1
<1>2. ASSUME NEW n \in Nat, n \in T PROVE n + 1 \in T
  <2>1. PICK f : Recurs(f, n)  BY <1>2
  <2> DEFINE g == [i \in 0..(n + 1) |-> IF i = n + 1 THEN AddBackend(f[n], Pool[i]) ELSE f[i]]
             h == [i \in 0..(n + 1) |-> IF i = 0 THEN NoLists ELSE AddBackend(g[i - 1], Pool[i])]
  <2>2. ASSUME NEW i \in 0..(n + 1) PROVE g[i] = h[i]
    <3>1. CASE i = 0  BY <2>1, <3>1 DEF Recurs
    <3>2. CASE i \in 1..n
      <4>1. f[i] = AddBackend(f[i - 1], Pool[i])  BY <2>1, <3>2 DEF Recurs
      <4>2. g[i] = f[i] /\ g[i - 1] = f[i - 1]  BY <3>2
      <4>3. h[i] = AddBackend(g[i - 1], Pool[i])  BY <3>2
      <4>4. QED  BY <4>1, <4>2, <4>3
    <3>3. CASE i = n + 1
      <4>1. g[i] = AddBackend(f[n], Pool[i]) /\ g[i - 1] = f[n]  BY <3>3
      <4>2. h[i] = AddBackend(g[i - 1], Pool[i])  BY <3>3
      <4>3. QED  BY <4>1, <4>2
    <3>4. QED  BY <3>1, <3>2, <3>3
  <2>3. g = h  BY <2>2
  <2>4. Recurs(g, n + 1)  BY <2>3 DEF Recurs
  <2>5. QED  BY <2>4
<1> HIDE DEF T
<1>3. Nat \subseteq T  BY <1>1, <1>2, SetInduction
<1>4. QED  BY <1>3 DEF T

LEMMA ListsRecur == Recurs(lists, Len(Pool))
<1>1. \E f : Recurs(f, Len(Pool))  BY ListsExist, PoolFacts
<1>2. lists = CHOOSE f : Recurs(f, Len(Pool))  BY DEF lists, Recurs, NoLists
<1>3. QED  BY <1>1, <1>2

LEMMA SetOfSeq ==
  ASSUME NEW S, NEW s \in Seq(S)
  PROVE  /\ ToSet(s) = {s[i] : i \in 1..Len(s)}
         /\ ToSet(s) \subseteq S
         /\ s = <<>> => ToSet(s) = {}
BY DEF ToSet

LEMMA SetOfAppend ==
  ASSUME NEW S, NEW s \in Seq(S), NEW e \in S
  PROVE  Append(s, e) \in Seq(S) /\ ToSet(Append(s, e)) = ToSet(s) \cup {e}
<1> DEFINE t == Append(s, e)
<1>1. /\ t \in Seq(S) /\ Len(t) = Len(s) + 1 /\ t[Len(s) + 1] = e
      /\ \A i \in 1..Len(s) : t[i] = s[i]
  OBVIOUS
<1>2. Len(s) \in Nat  OBVIOUS
<1> HIDE DEF t
<1>3. ToSet(s) = {s[i] : i \in 1..Len(s)} /\ ToSet(t) = {t[i] : i \in 1..Len(t)}
  BY <1>1, SetOfSeq
<1>4. \A x : x \in ToSet(t) => x \in ToSet(s) \cup {e}
  <2>1. SUFFICES ASSUME NEW i \in 1..Len(t) PROVE t[i] \in ToSet(s) \cup {e}  BY <1>3
  <2>2. CASE i \in 1..Len(s)  BY <1>1, <1>3, <2>2
  <2>3. CASE i = Len(s) + 1  BY <1>1, <2>3
  <2>4. QED  BY <1>1, <1>2, <2>2, <2>3
<1>5. e \in ToSet(t)  BY <1>1, <1>2, <1>3
<1>6. \A x : x \in ToSet(s) => x \in ToSet(t)
  <2>1. SUFFICES ASSUME NEW i \in 1..Len(s) PROVE s[i] \in ToSet(t)  BY <1>3
  <2>2. i \in 1..Len(t) /\ t[i] = s[i]  BY <1>1, <1>2
  <2>3. QED  BY <1>3, <2>2
<1>7. QED  BY <1>1, <1>4, <1>5, <1>6 DEF t

LEMMA SetOfTail ==
  ASSUME NEW S, NEW s \in Seq(S), s # <<>>
  PROVE  /\ Head(s) \in S /\ Tail(s) \in Seq(S)
         /\ ToSet(s) = {Head(s)} \cup ToSet(Tail(s))
<1> DEFINE t == Tail(s)
<1>1. /\ Len(s) \in Nat \ {0} /\ t \in Seq(S) /\ Len(t) = Len(s) - 1
      /\ \A i \in 1..Len(t) : t[i] = s[i + 1]
      /\ Head(s) = s[1] /\ Head(s) \in S
  OBVIOUS
<1> HIDE DEF t
<1>2. ToSet(s) = {s[i] : i \in 1..Len(s)} /\ ToSet(t) = {t[i] : i \in 1..Len(t)}
  BY <1>1, SetOfSeq
<1>3. \A x : x \in ToSet(s) => x \in {Head(s)} \cup ToSet(t)
  <2>1. SUFFICES ASSUME NEW i \in 1..Len(s) PROVE s[i] \in {Head(s)} \cup ToSet(t)  BY <1>2
  <2>2. CASE i = 1  BY <1>1, <2>2
  <2>3. CASE i # 1
    <3>1. i - 1 \in 1..Len(t) /\ t[i - 1] = s[i]  BY <1>1, <2>3
    <3>2. QED  BY <1>2, <3>1
  <2>4. QED  BY <2>2, <2>3
<1>4. Head(s) \in ToSet(s)  BY <1>1, <1>2
<1>5. \A x : x \in ToSet(t) => x \in ToSet(s)
  <2>1. SUFFICES ASSUME NEW i \in 1..Len(t) PROVE t[i] \in ToSet(s)  BY <1>2
  <2>2. i + 1 \in 1..Len(s) /\ t[i] = s[i + 1]  BY <1>1
  <2>3. QED  BY <1>2, <2>2
<1>6. QED  BY <1>1, <1>3, <1>4, <1>5 DEF t

\* What the lists hold after n calls of AddBackend.
Listed(lst, n) ==
  /\ lst.weighted \in Seq(Backends)
  /\ \A m \in 1..n : \E s \in 1..Len(lst.weighted) : lst.weighted[s] = Pool[m]
  /\ \A r \in Regions : lst.regions[r] \in Seq(Backends) /\ AllIn(lst.regions[r], r)
  /\ \A m \in 1..n : Pool[m] \in ToSet(lst.regions[Region[Pool[m]]])

LEMMA AddBackendLists ==
  ASSUME NEW n \in Nat, NEW lst, n + 1 <= Len(Pool), Listed(lst, n)
  PROVE  Listed(AddBackend(lst, Pool[n + 1]), n + 1)
<1> DEFINE b == Pool[n + 1]
           w == lst.weighted
           t == [k \in 1..Weight[b] |-> b]
           new == AddBackend(lst, b)
<1>1. b \in Backends /\ Weight[b] \in Nat \ {0} /\ Region[b] \in Regions  BY PoolFacts
<1>2. \A m \in 1..(n + 1) : m \in 1..n \/ m = n + 1  OBVIOUS
<1>3. /\ new.weighted = w \o t
      /\ \A r \in Regions : new.regions[r] = IF InRegion(b, r) THEN Append(lst.regions[r], b)
                                             ELSE lst.regions[r]
  BY DEF AddBackend
<1> HIDE DEF new, b
<1>4. w \in Seq(Backends) /\ t \in Seq(Backends) /\ Len(t) = Weight[b] /\ t[1] = b
  BY <1>1 DEF Listed
<1> HIDE DEF w, t
<1>5. /\ w \o t \in Seq(Backends) /\ Len(w \o t) = Len(w) + Len(t)
      /\ \A s \in 1..Len(w) : (w \o t)[s] = w[s]
      /\ (w \o t)[Len(w) + 1] = b
  BY <1>1, <1>4
<1>6. Len(w) \in Nat /\ Len(t) \in Nat \ {0}  BY <1>1, <1>4
<1>7. \A m \in 1..(n + 1) : \E s \in 1..Len(w \o t) : (w \o t)[s] = Pool[m]
  <2>1. TAKE m \in 1..(n + 1)
  <2>2. CASE m \in 1..n
    <3>1. PICK s \in 1..Len(w) : w[s] = Pool[m]  BY <2>2 DEF Listed, w
    <3>2. s \in 1..Len(w \o t) /\ (w \o t)[s] = Pool[m]  BY <1>5, <1>6, <3>1
    <3>3. QED  BY <3>2
  <2>3. CASE m = n + 1
    <3>1. Len(w) + 1 \in 1..Len(w \o t) /\ (w \o t)[Len(w) + 1] = Pool[m]
      BY <1>5, <1>6, <2>3 DEF b
    <3>2. QED  BY <3>1
  <2>4. QED  BY <1>2, <2>2, <2>3
<1>8. ASSUME NEW r \in Regions
      PROVE  /\ new.regions[r] \in Seq(Backends) /\ AllIn(new.regions[r], r)
             /\ ToSet(lst.regions[r]) \subseteq ToSet(new.regions[r])
             /\ InRegion(b, r) => b \in ToSet(new.regions[r])
  <2>1. lst.regions[r] \in Seq(Backends) /\ AllIn(lst.regions[r], r)  BY DEF Listed
  <2>2. CASE InRegion(b, r)
    <3>1. /\ Append(lst.regions[r], b) \in Seq(Backends)
          /\ ToSet(Append(lst.regions[r], b)) = ToSet(lst.regions[r]) \cup {b}
      BY <1>1, <2>1, SetOfAppend
    <3>2. new.regions[r] = Append(lst.regions[r], b)  BY <1>3, <2>2
    <3>3. QED  BY <2>1, <2>2, <3>1, <3>2 DEF AllIn
  <2>3. CASE ~InRegion(b, r)  BY <1>3, <2>1, <2>3
  <2>4. QED  BY <2>2, <2>3
<1>9. \A m \in 1..(n + 1) : Pool[m] \in ToSet(new.regions[Region[Pool[m]]])
  <2>1. TAKE m \in 1..(n + 1)
  <2>2. Region[Pool[m]] \in Regions  BY PoolFacts
  <2>3. CASE m \in 1..n  BY <1>8, <2>2, <2>3 DEF Listed
  <2>4. CASE m = n + 1  BY <1>8, <2>2, <2>4 DEF b, InRegion
  <2>5. QED  BY <1>2, <2>3, <2>4
<1>10. QED  BY <1>3, <1>5, <1>7, <1>8, <1>9 DEF Listed, new, b

LEMMA AllListed == Listed(lists[Len(Pool)], Len(Pool))
<1> DEFINE T == {n \in Nat : n <= Len(Pool) => Listed(lists[n], n)}
<1>1. /\ lists[0] = NoLists
      /\ \A n \in Nat : n + 1 <= Len(Pool) => lists[n + 1] = AddBackend(lists[n], Pool[n + 1])
  BY ListsRecur, PoolFacts DEF Recurs
<1>2. Listed(NoLists, 0)
  <2>1. <<>> \in Seq(Backends)  OBVIOUS
  <2>2. ToSet(<<>>) = {}  BY <2>1, SetOfSeq
  <2>3. QED  BY <2>1, <2>2 DEF Listed, NoLists, AllIn
<1>3. 0 \in T  BY <1>1, <1>2
<1>4. ASSUME NEW n \in Nat, n \in T PROVE n + 1 \in T
  BY <1>1, <1>4, AddBackendLists, PoolFacts
<1> HIDE DEF T
<1>5. Len(Pool) \in T  BY <1>3, <1>4, SetInduction, PoolFacts
<1>6. QED  BY <1>5, PoolFacts DEF T

\* Every backend has a slot, and is listed in its region and in no other.
LEMMA WeightedFacts ==
  /\ weighted \in Seq(Backends) /\ L \in Nat \ {0}
  /\ \A s \in 1..L : weighted[s] \in Backends
  /\ \A b \in Backends : \E s \in 1..L : weighted[s] = b
<1>1. weighted \in Seq(Backends)  BY AllListed DEF Listed, weighted
<1>2. \A m \in 1..Len(Pool) : \E s \in 1..L : weighted[s] = Pool[m]
  BY AllListed DEF Listed, weighted, L
<1>3. L \in Nat /\ \A s \in 1..L : weighted[s] \in Backends  BY <1>1 DEF L
<1>4. \A b \in Backends : \E s \in 1..L : weighted[s] = b
  <2>1. TAKE b \in Backends
  <2>2. PICK n \in 1..Len(Pool) : Pool[n] = b  BY PoolFacts
  <2>3. QED  BY <1>2, <2>2
<1>5. L # 0
  <2>1. 1 \in 1..Len(Pool)  BY PoolFacts
  <2>2. PICK s \in 1..L : weighted[s] = Pool[1]  BY <1>2, <2>1
  <2>3. QED  BY <1>3, <2>2
<1>6. QED  BY <1>1, <1>3, <1>4, <1>5

LEMMA RegionFacts ==
  ASSUME NEW r \in Regions
  PROVE  /\ regions(r) \in Seq(Backends) /\ AllIn(regions(r), r)
         /\ \A b \in Backends : InRegion(b, r) => b \in ToSet(regions(r))
<1>1. regions(r) \in Seq(Backends) /\ AllIn(regions(r), r)
  BY AllListed DEF Listed, regions
<1>2. ASSUME NEW b \in Backends, InRegion(b, r) PROVE b \in ToSet(regions(r))
  <2>1. PICK n \in 1..Len(Pool) : Pool[n] = b  BY PoolFacts
  <2>2. Pool[n] \in ToSet(lists[Len(Pool)].regions[Region[Pool[n]]])
    BY AllListed DEF Listed
  <2>3. QED  BY <1>2, <2>1, <2>2 DEF regions, InRegion
<1>3. QED  BY <1>1, <1>2

-----------------------------------------------------------------------------
(* Slots *)

LEMMA Mod ==
  ASSUME NEW m \in Nat \ {0}, NEW x \in Nat
  PROVE  x % m \in 0..(m - 1) /\ (x < m => x % m = x /\ (x + m) % m = x)
<1>1. x % m \in 0..(m - 1)  OBVIOUS
<1>2. x < m => x % m = x  OBVIOUS
<1>3. x < m => (x + m) % m = x  OBVIOUS
<1>4. QED  BY <1>1, <1>2, <1>3

\* L slots, from whichever one on, are all slots.
LEMMA SlotFacts ==
  ASSUME NEW p, p.start \in 1..L
  PROVE  /\ \A k \in Nat : SlotAt(p, k) \in Backends
         /\ \A b \in Backends : \E k \in 0..(L - 1) : SlotAt(p, k) = b
<1> DEFINE st == p.start
<1>1. L \in Nat \ {0} /\ st \in 1..L  BY WeightedFacts
<1> HIDE DEF st
<1>2. ASSUME NEW k \in Nat PROVE SlotAt(p, k) \in Backends
  <2>1. st - 1 + k \in Nat  BY <1>1
  <2>2. 1 + ((st - 1 + k) % L) \in 1..L  BY <1>1, <2>1, Mod
  <2>3. QED  BY <2>2, WeightedFacts DEF SlotAt, st
<1>3. ASSUME NEW b \in Backends PROVE \E k \in 0..(L - 1) : SlotAt(p, k) = b
  <2>1. PICK s \in 1..L : weighted[s] = b  BY WeightedFacts
  <2> DEFINE k == IF s >= st THEN s - st ELSE s - st + L
  <2>2. k \in 0..(L - 1)  BY <1>1
  <2>3. st - 1 + k = s - 1 \/ st - 1 + k = (s - 1) + L  BY <1>1
  <2>4. s - 1 \in Nat /\ s - 1 < L  BY <1>1
  <2> HIDE DEF k
  <2>5. (st - 1 + k) % L = s - 1  BY <1>1, <2>3, <2>4, Mod
  <2>6. SlotAt(p, k) = b  BY <1>1, <2>1, <2>5 DEF SlotAt, st
  <2>7. QED  BY <2>2, <2>6
<1>4. QED  BY <1>2, <1>3

-----------------------------------------------------------------------------
(* The steps of a choice *)

\* What a choice begins with, for the region r.
Begun(r, a, o) ==
  [Idle EXCEPT !.pc = IF r = Default THEN "ticket" ELSE "regional",
               !.region = r,
               !.list = IF r = Default THEN <<>> ELSE regions(r),
               !.steady = {b \in Backends : a[b]},
               !.good = {b \in Backends : a[b] /\ ~o[b]},
               !.shut = {b \in Backends : o[b]}]

LEMMA IdleSound == ASSUME NEW a, NEW o PROVE Sound(Idle, a, o)
<1>1. Idle \in Choice  BY WeightedFacts DEF Idle, Choice, PCs
<1>2. /\ Idle.pc = "idle" /\ Idle.steady = {} /\ Idle.good = {} /\ Idle.shut = {}
  BY DEF Idle
<1>3. QED  BY <1>1, <1>2 DEF Sound, Observed, Selecting, Drawing

LEMMA BegunSound ==
  ASSUME NEW a, NEW o, NEW r \in Regions \cup {Default}
  PROVE  Sound(Begun(r, a, o), a, o)
<1> DEFINE p == Begun(r, a, o)
<1>1. Idle \in Choice  BY IdleSound DEF Sound
<1>2. /\ p.pc = IF r = Default THEN "ticket" ELSE "regional"
      /\ p.region = r /\ p.found = <<>> /\ p.best = Nil
      /\ p.list = IF r = Default THEN <<>> ELSE regions(r)
      /\ p.steady = {b \in Backends : a[b]}
      /\ p.good = {b \in Backends : a[b] /\ ~o[b]}
      /\ p.shut = {b \in Backends : o[b]}
  BY DEF Begun, Idle
<1>3. p.list \in Seq(Backends)
  <2>1. <<>> \in Seq(Backends)  OBVIOUS
  <2>2. r # Default => regions(r) \in Seq(Backends)  BY RegionFacts
  <2>3. QED  BY <1>2, <2>1, <2>2
<1>4. p \in Choice
  <2>1. p = [Idle EXCEPT !.pc = p.pc, !.region = r, !.list = p.list, !.steady = p.steady,
                         !.good = p.good, !.shut = p.shut]
    BY <1>2 DEF Begun
  <2>2. /\ p.pc \in PCs /\ p.steady \in SUBSET Backends /\ p.good \in SUBSET Backends
        /\ p.shut \in SUBSET Backends
    BY <1>2 DEF PCs
  <2> HIDE DEF p
  <2>3. QED  BY <1>1, <1>3, <2>1, <2>2 DEF Choice
<1> HIDE DEF p
<1>5. Observed(p, a, o) /\ Drawing(p)  BY <1>2 DEF Observed, Drawing
<1>6. Selecting(p)
  <2>1. CASE r = Default
    <3>1. Wanted(p) = {}  BY <1>2, <2>1, PoolFacts DEF Wanted, InRegion
    <3>2. QED  BY <1>2, <2>1, <3>1 DEF Selecting
  <2>2. CASE r # Default
    <3>1. AllIn(p.list, r) /\ Wanted(p) \subseteq ToSet(p.list)
      BY <1>2, <2>2, RegionFacts DEF Wanted
    <3>2. AllIn(p.found, r)
      <4>1. <<>> \in Seq(Backends)  OBVIOUS
      <4>2. ToSet(<<>>) = {}  BY <4>1, SetOfSeq
      <4>3. QED  BY <1>2, <4>2 DEF AllIn
    <3>3. QED  BY <1>2, <2>2, <3>1, <3>2 DEF Selecting
  <2>3. QED  BY <2>1, <2>2
<1>7. QED  BY <1>4, <1>5, <1>6 DEF Sound, p

\* The parts of a choice, and what is left of them after a step that keeps the
\* histories.
LEMMA ChoiceParts ==
  ASSUME NEW p \in Choice
  PROVE  /\ p.pc \in PCs /\ p.region \in Regions \cup {Default}
         /\ p.list \in Seq(Backends) /\ p.found \in Seq(Backends)
         /\ p.best \in Backends \cup {Nil} /\ p.start \in 0..L /\ p.i \in 0..L
         /\ p.second \in BOOLEAN /\ p.steady \in SUBSET Backends
         /\ p.good \in SUBSET Backends /\ p.shut \in SUBSET Backends
BY DEF Choice

\* q has the region and the histories of p.
Continues(p, q) ==
  /\ q.region = p.region
  /\ q.steady = p.steady /\ q.good = p.good /\ q.shut = p.shut

LEMMA ContinuesSound ==
  ASSUME NEW p, NEW q \in Choice, NEW a, NEW o, Sound(p, a, o), Continues(p, q)
  PROVE  Observed(q, a, o) /\ Wanted(q) = Wanted(p)
BY DEF Continues, Sound, Observed, Wanted

LEMMA ScanSound ==
  ASSUME NEW p, NEW a, NEW o, Sound(p, a, o), p.pc \in {"regional", "pool"}, p.list # <<>>
  PROVE  Sound([p EXCEPT !.list = Tail(@),
                         !.found = IF a[Head(p.list)] THEN Append(@, Head(p.list)) ELSE @], a, o)
<1> DEFINE x == Head(p.list)
           fnd == IF a[x] THEN Append(p.found, x) ELSE p.found
           q == [p EXCEPT !.list = Tail(p.list), !.found = fnd]
<1>1. p \in Choice /\ p.list \in Seq(Backends) /\ p.found \in Seq(Backends)
  BY ChoiceParts DEF Sound
<1>2. /\ x \in Backends /\ Tail(p.list) \in Seq(Backends)
      /\ ToSet(p.list) = {x} \cup ToSet(Tail(p.list))
  BY <1>1, SetOfTail
<1> HIDE DEF x
<1>3. /\ fnd \in Seq(Backends)
      /\ a[x] => ToSet(fnd) = ToSet(p.found) \cup {x}
      /\ ~a[x] => ToSet(fnd) = ToSet(p.found)
  BY <1>1, <1>2, SetOfAppend
<1> HIDE DEF fnd
<1>4. q \in Choice  BY <1>1, <1>2, <1>3 DEF Choice
<1>5. /\ Continues(p, q) /\ q.pc = p.pc /\ q.list = Tail(p.list) /\ q.found = fnd
      /\ q.best = p.best
  BY <1>1 DEF Choice, Continues
<1> HIDE DEF q
<1>6. Observed(q, a, o) /\ Wanted(q) = Wanted(p)  BY <1>4, <1>5, ContinuesSound
<1>7. Drawing(q)  BY <1>5 DEF Drawing
<1>8. Selecting(q)
  <2>1. CASE p.pc = "pool"  BY <1>5, <1>6, <2>1 DEF Sound, Selecting
  <2>2. CASE p.pc = "regional"
    <3>1. /\ AllIn(p.list, p.region) /\ AllIn(p.found, p.region) /\ p.best = Nil
          /\ Wanted(p) \subseteq ToSet(p.list) \cup ToSet(p.found)
      BY <2>2 DEF Sound, Selecting
    <3>2. AllIn(q.list, q.region) /\ AllIn(q.found, q.region)
      BY <1>2, <1>3, <1>5, <3>1 DEF AllIn, Continues
    <3>3. x \in Wanted(p) => a[x]  BY DEF Wanted, Sound, Observed
    <3>4. Wanted(q) \subseteq ToSet(q.list) \cup ToSet(q.found)
      BY <1>2, <1>3, <1>5, <1>6, <3>1, <3>3
    <3>5. QED  BY <1>5, <2>2, <3>1, <3>2, <3>4 DEF Selecting
  <2>3. QED  BY <2>1, <2>2
<1>9. Sound(q, a, o)  BY <1>4, <1>6, <1>7, <1>8 DEF Sound
<1>10. QED  BY <1>9 DEF q, fnd, x

\* The region's candidates are scored, or the pool is scanned, or a ticket is
\* drawn: each only if no wanted backend is lost by it.
LEMMA ScanEndsSound ==
  ASSUME NEW p, NEW a, NEW o, Sound(p, a, o), p.pc \in {"regional", "pool"}, p.list = <<>>
  PROVE  /\ Sound([p EXCEPT !.pc = "score", !.list = p.found], a, o)
         /\ p.found = <<>> => /\ p.pc = "regional" => Sound([p EXCEPT !.pc = "pool", !.list = Pool], a, o)
                              /\ p.pc = "pool" => Sound([p EXCEPT !.pc = "ticket"], a, o)
<1>1. /\ p \in Choice /\ p.list \in Seq(Backends) /\ p.found \in Seq(Backends)
      /\ p.best = Nil /\ p.shut \in SUBSET Backends /\ Nil \notin Backends
      /\ Pool \in Seq(Backends)
  BY ChoiceParts, PoolFacts DEF Sound, Selecting
<1>2. ToSet(p.list) = {}  BY <1>1, SetOfSeq
<1>3. p.pc = "regional" => AllIn(p.found, p.region) /\ Wanted(p) \subseteq ToSet(p.found)
  BY <1>2 DEF Sound, Selecting
<1>4. p.pc = "pool" => Wanted(p) = {}  BY DEF Sound, Selecting
<1>5. p.found = <<>> => Wanted(p) = {}
  <2>1. p.found = <<>> => ToSet(p.found) = {}  BY <1>1, SetOfSeq
  <2>2. QED  BY <1>3, <1>4, <2>1
<1>6. Sound([p EXCEPT !.pc = "score", !.list = p.found], a, o)
  <2> DEFINE q == [p EXCEPT !.pc = "score", !.list = p.found]
  <2>1. q \in Choice  BY <1>1 DEF Choice, PCs
  <2>2. /\ Continues(p, q) /\ q.pc = "score" /\ q.list = p.found /\ q.best = Nil
    BY <1>1 DEF Choice, Continues
  <2> HIDE DEF q
  <2>3. Observed(q, a, o) /\ Wanted(q) = Wanted(p)  BY <2>1, <2>2, ContinuesSound
  <2>4. Drawing(q)  BY <2>2 DEF Drawing
  <2>5. Selecting(q)
    BY <1>1, <1>3, <1>4, <2>2, <2>3 DEF Selecting, Continues
  <2>6. Sound(q, a, o)  BY <2>1, <2>3, <2>4, <2>5 DEF Sound
  <2>7. QED  BY <2>6 DEF q
<1>7. ASSUME p.found = <<>>
      PROVE  Sound([p EXCEPT !.pc = "pool", !.list = Pool], a, o)
  <2> DEFINE q == [p EXCEPT !.pc = "pool", !.list = Pool]
  <2>1. q \in Choice  BY <1>1 DEF Choice, PCs
  <2>2. Continues(p, q) /\ q.pc = "pool" /\ q.best = Nil  BY <1>1 DEF Choice, Continues
  <2> HIDE DEF q
  <2>3. Observed(q, a, o) /\ Wanted(q) = Wanted(p)  BY <2>1, <2>2, ContinuesSound
  <2>4. Drawing(q) /\ Selecting(q)  BY <1>5, <1>7, <2>2, <2>3 DEF Drawing, Selecting
  <2>5. Sound(q, a, o)  BY <2>1, <2>3, <2>4 DEF Sound
  <2>6. QED  BY <2>5 DEF q
<1>8. ASSUME p.found = <<>> PROVE Sound([p EXCEPT !.pc = "ticket"], a, o)
  <2> DEFINE q == [p EXCEPT !.pc = "ticket"]
  <2>1. q \in Choice  BY <1>1 DEF Choice, PCs
  <2>2. Continues(p, q) /\ q.pc = "ticket"  BY <1>1 DEF Choice, Continues
  <2> HIDE DEF q
  <2>3. Observed(q, a, o) /\ Wanted(q) = Wanted(p)  BY <2>1, <2>2, ContinuesSound
  <2>4. Drawing(q) /\ Selecting(q)  BY <1>5, <1>8, <2>2, <2>3 DEF Drawing, Selecting
  <2>5. Sound(q, a, o)  BY <2>1, <2>3, <2>4 DEF Sound
  <2>6. QED  BY <2>5 DEF q
<1>9. QED  BY <1>6, <1>7, <1>8

\* A wanted backend is not open, so that its score makes it or a better one of
\* the region the best.
LEMMA ScoreSound ==
  ASSUME NEW p, NEW a, NEW o, Sound(p, a, o), p.pc = "score", p.list # <<>>,
         NEW best \in IF o[Head(p.list)] THEN {p.best} ELSE {Head(p.list)} \cup ({p.best} \ {Nil})
  PROVE  Sound([p EXCEPT !.list = Tail(@), !.best = best], a, o)
<1> DEFINE x == Head(p.list)
           q == [p EXCEPT !.list = Tail(p.list), !.best = best]
<1>1. /\ p \in Choice /\ p.list \in Seq(Backends) /\ p.best \in Backends \cup {Nil}
      /\ p.shut \in SUBSET Backends /\ Nil \notin Backends
  BY ChoiceParts, PoolFacts DEF Sound
<1>2. /\ x \in Backends /\ Tail(p.list) \in Seq(Backends)
      /\ ToSet(p.list) = {x} \cup ToSet(Tail(p.list))
  BY <1>1, SetOfTail
<1>3. /\ o[x] => best = p.best
      /\ ~o[x] => best = x \/ (best = p.best /\ p.best # Nil)
  OBVIOUS
<1> HIDE DEF x
<1>4. best \in Backends \cup {Nil}  BY <1>1, <1>2, <1>3
<1>5. q \in Choice  BY <1>1, <1>2, <1>4 DEF Choice
<1>6. Continues(p, q) /\ q.pc = "score" /\ q.list = Tail(p.list) /\ q.best = best
  BY <1>1 DEF Choice, Continues
<1> HIDE DEF q
<1>7. Observed(q, a, o) /\ Wanted(q) = Wanted(p)  BY <1>5, <1>6, ContinuesSound
<1>8. Drawing(q)  BY <1>6 DEF Drawing
<1>9. ASSUME Wanted(p) # {}
      PROVE  /\ AllIn(q.list, q.region)
             /\ q.best = Nil => Wanted(q) \subseteq ToSet(q.list)
             /\ q.best # Nil => InRegion(q.best, q.region)
             /\ q.best \notin q.shut
  <2>1. /\ AllIn(p.list, p.region)
        /\ p.best = Nil => Wanted(p) \subseteq ToSet(p.list)
        /\ p.best # Nil => InRegion(p.best, p.region)
        /\ p.best \notin p.shut
    BY <1>9 DEF Sound, Selecting
  <2>2. InRegion(x, p.region) /\ AllIn(Tail(p.list), p.region)  BY <1>2, <2>1 DEF AllIn
  <2>3. (o[x] => x \notin Wanted(p)) /\ (x \in p.shut => o[x])
    BY DEF Wanted, Sound, Observed
  <2>4. q.region = p.region /\ q.shut = p.shut  BY <1>6 DEF Continues
  <2>5. CASE o[x]
    <3>1. q.best = p.best  BY <1>3, <1>6, <2>5
    <3>2. Wanted(p) \subseteq ToSet(p.list) => Wanted(p) \subseteq ToSet(q.list)
      BY <1>2, <1>6, <2>3, <2>5
    <3>3. QED  BY <1>6, <1>7, <2>1, <2>2, <2>4, <3>1, <3>2
  <2>6. CASE ~o[x]
    <3>1. q.best # Nil  BY <1>1, <1>2, <1>3, <1>6, <2>6
    <3>2. q.best = x \/ q.best = p.best  BY <1>3, <1>6
    <3>3. QED  BY <1>6, <2>1, <2>2, <2>3, <2>4, <2>6, <3>1, <3>2
  <2>7. QED  BY <2>5, <2>6
<1>10. Selecting(q)  BY <1>6, <1>7, <1>9 DEF Selecting
<1>11. Sound(q, a, o)  BY <1>5, <1>7, <1>8, <1>10 DEF Sound
<1>12. QED  BY <1>11 DEF q

LEMMA ScoreEndsSound ==
  ASSUME NEW p, NEW a, NEW o, Sound(p, a, o), p.pc = "score", p.list = <<>>
  PROVE  /\ p.best # Nil => Sound([p EXCEPT !.pc = "routed", !.found = <<>>], a, o)
         /\ p.best = Nil => Sound([p EXCEPT !.pc = "ticket", !.second = TRUE, !.found = <<>>], a, o)
<1>1. /\ p \in Choice /\ p.list \in Seq(Backends) /\ p.best \in Backends \cup {Nil}
      /\ <<>> \in Seq(Backends)
  BY ChoiceParts DEF Sound
<1>2. ToSet(p.list) = {}  BY <1>1, SetOfSeq
<1>3. ASSUME p.best # Nil PROVE Sound([p EXCEPT !.pc = "routed", !.found = <<>>], a, o)
  <2> DEFINE q == [p EXCEPT !.pc = "routed", !.found = <<>>]
  <2>1. q \in Choice  BY <1>1 DEF Choice, PCs
  <2>2. Continues(p, q) /\ q.pc = "routed" /\ q.best = p.best
    BY <1>1 DEF Choice, Continues
  <2> HIDE DEF q
  <2>3. Observed(q, a, o) /\ Wanted(q) = Wanted(p)  BY <2>1, <2>2, ContinuesSound
  <2>4. Drawing(q)  BY <1>1, <1>3, <2>2 DEF Drawing
  <2>5. Selecting(q)  BY <2>2, <2>3 DEF Selecting, Sound, Continues
  <2>6. Sound(q, a, o)  BY <2>1, <2>3, <2>4, <2>5 DEF Sound
  <2>7. QED  BY <2>6 DEF q
<1>4. ASSUME p.best = Nil
      PROVE  Sound([p EXCEPT !.pc = "ticket", !.second = TRUE, !.found = <<>>], a, o)
  <2> DEFINE q == [p EXCEPT !.pc = "ticket", !.second = TRUE, !.found = <<>>]
  <2>1. q \in Choice  BY <1>1 DEF Choice, PCs
  <2>2. Continues(p, q) /\ q.pc = "ticket"  BY <1>1 DEF Choice, Continues
  <2> HIDE DEF q
  <2>3. Observed(q, a, o) /\ Wanted(q) = Wanted(p)  BY <2>1, <2>2, ContinuesSound
  <2>4. Wanted(p) = {}  BY <1>2, <1>4 DEF Sound, Selecting
  <2>5. Drawing(q) /\ Selecting(q)  BY <2>2, <2>3, <2>4 DEF Drawing, Selecting
  <2>6. Sound(q, a, o)  BY <2>1, <2>3, <2>5 DEF Sound
  <2>7. QED  BY <2>6 DEF q
<1>5. QED  BY <1>3, <1>4

\* The choice p with ticket n.
Drawn(p, n) == [p EXCEPT !.pc = "weighted", !.i = 0, !.start = 1 + (n % L)]

LEMMA TicketSound ==
  ASSUME NEW p, NEW a, NEW o, Sound(p, a, o), p.pc = "ticket", NEW n \in Nat
  PROVE  /\ Sound(Drawn(p, n), a, o)
         /\ Drawn(p, n).pc = "weighted" /\ Drawn(p, n).i = 0
         /\ SlotAt(Drawn(p, n), 0) = weighted[1 + (n % L)]
<1> DEFINE m == n % L
           q == [p EXCEPT !.pc = "weighted", !.i = 0, !.start = 1 + m]
<1>1. p \in Choice /\ L \in Nat \ {0}  BY WeightedFacts DEF Sound
<1>2. m \in 0..(L - 1) /\ m % L = m
  <2>1. m \in 0..(L - 1)  BY <1>1, Mod
  <2> HIDE DEF m
  <2>2. m \in Nat /\ m < L  BY <1>1, <2>1
  <2>3. m % L = m  BY <1>1, <2>2, Mod
  <2>4. QED  BY <2>1, <2>3
<1> HIDE DEF m
<1>3. q \in Choice
  <2>1. 0 \in 0..L /\ 1 + m \in 0..L  BY <1>1, <1>2
  <2>2. QED  BY <1>1, <2>1 DEF Choice, PCs
<1>4. Continues(p, q) /\ q.pc = "weighted" /\ q.i = 0 /\ q.start = 1 + m
  BY <1>1 DEF Choice, Continues
<1> HIDE DEF q
<1>5. Observed(q, a, o) /\ Wanted(q) = Wanted(p)  BY <1>3, <1>4, ContinuesSound
<1>6. Wanted(p) = {}  BY DEF Sound, Selecting
<1>7. Drawing(q)  BY <1>2, <1>4 DEF Drawing
<1>8. Selecting(q)  BY <1>4, <1>5, <1>6 DEF Selecting
<1>9. SlotAt(q, 0) = weighted[1 + m]
  <2>1. q.start - 1 + 0 = m  BY <1>2, <1>4
  <2>2. QED  BY <1>2, <2>1 DEF SlotAt
<1>10. Sound(q, a, o)  BY <1>3, <1>5, <1>7, <1>8 DEF Sound
<1>11. QED  BY <1>4, <1>9, <1>10 DEF q, m, Drawn

\* A slot that is not alive is not one that stayed alive.
LEMMA WeightedScanSound ==
  ASSUME NEW p, NEW a, NEW o, Sound(p, a, o), p.pc = "weighted", p.i < L
  PROVE  /\ SlotAt(p, p.i) \in Backends
         /\ a[SlotAt(p, p.i)] => Sound([p EXCEPT !.pc = "routed", !.best = SlotAt(p, p.i)], a, o)
         /\ ~a[SlotAt(p, p.i)] => Sound([p EXCEPT !.i = @ + 1], a, o)
<1> DEFINE x == SlotAt(p, p.i)
<1>1. /\ p \in Choice /\ p.i \in 0..(L - 1) /\ p.start \in 1..L /\ Wanted(p) = {}
      /\ \A k \in 0..(p.i - 1) : SlotAt(p, k) \notin p.steady
      /\ \A b \in p.steady : a[b]
  <2>1. p \in Choice /\ p.i \in 0..L /\ p.start \in 0..L /\ L \in Nat
    BY ChoiceParts, WeightedFacts DEF Sound
  <2>2. QED  BY <2>1 DEF Sound, Drawing, Selecting, Observed
<1>2. x \in Backends  BY <1>1, SlotFacts
<1> HIDE DEF x
<1>3. ASSUME a[x] PROVE Sound([p EXCEPT !.pc = "routed", !.best = x], a, o)
  <2> DEFINE q == [p EXCEPT !.pc = "routed", !.best = x]
  <2>1. q \in Choice  BY <1>1, <1>2 DEF Choice, PCs
  <2>2. Continues(p, q) /\ q.pc = "routed" /\ q.best = x  BY <1>1 DEF Choice, Continues
  <2> HIDE DEF q
  <2>3. Observed(q, a, o) /\ Wanted(q) = Wanted(p)  BY <2>1, <2>2, ContinuesSound
  <2>4. Drawing(q) /\ Selecting(q)  BY <1>1, <1>2, <2>2, <2>3 DEF Drawing, Selecting
  <2>5. Sound(q, a, o)  BY <2>1, <2>3, <2>4 DEF Sound
  <2>6. QED  BY <2>5 DEF q
<1>4. ASSUME ~a[x] PROVE Sound([p EXCEPT !.i = @ + 1], a, o)
  <2> DEFINE q == [p EXCEPT !.i = p.i + 1]
  <2>1. p.i + 1 \in 0..L /\ p.i \in Nat /\ L \in Nat  BY <1>1, WeightedFacts
  <2>2. q \in Choice  BY <1>1, <2>1 DEF Choice
  <2>3. Continues(p, q) /\ q.pc = "weighted" /\ q.i = p.i + 1 /\ q.start = p.start
    BY <1>1 DEF Choice, Continues
  <2> HIDE DEF q
  <2>4. Observed(q, a, o) /\ Wanted(q) = Wanted(p)  BY <2>2, <2>3, ContinuesSound
  <2>5. x \notin p.steady  BY <1>1, <1>4
  <2>6. \A k \in 0..(q.i - 1) : SlotAt(q, k) \notin q.steady
    <3>1. TAKE k \in 0..(q.i - 1)
    <3>2. k \in 0..(p.i - 1) \/ k = p.i  BY <2>1, <2>3
    <3>3. SlotAt(q, k) = SlotAt(p, k) /\ q.steady = p.steady
      BY <2>3 DEF SlotAt, Continues
    <3>4. QED  BY <1>1, <2>5, <3>2, <3>3 DEF x
  <2>7. Drawing(q)  BY <1>1, <2>3, <2>6 DEF Drawing
  <2>8. Selecting(q)  BY <1>1, <2>3, <2>4 DEF Selecting
  <2>9. Sound(q, a, o)  BY <2>2, <2>4, <2>7, <2>8 DEF Sound
  <2>10. QED  BY <2>9 DEF q
<1>5. QED  BY <1>2, <1>3, <1>4 DEF x

\* All slots read, and every backend has one.
LEMMA WeightedEndsSound ==
  ASSUME NEW p, NEW a, NEW o, Sound(p, a, o), p.pc = "weighted", p.i = L
  PROVE  /\ Sound([p EXCEPT !.pc = "unavailable"], a, o)
         /\ Sound([p EXCEPT !.pc = "ticket", !.second = TRUE], a, o)
<1>1. /\ p \in Choice /\ p.start \in 1..L /\ Wanted(p) = {}
      /\ \A k \in 0..(L - 1) : SlotAt(p, k) \notin p.steady
      /\ p.steady \subseteq Backends
  <2>1. p \in Choice /\ p.start \in 0..L /\ p.steady \subseteq Backends  BY ChoiceParts DEF Sound
  <2>2. QED  BY <2>1, WeightedFacts DEF Sound, Drawing, Selecting
<1>2. p.steady = {}
  <2>1. \A b \in p.steady : \E k \in 0..(L - 1) : SlotAt(p, k) = b  BY <1>1, SlotFacts
  <2>2. QED  BY <1>1, <2>1
<1>3. Sound([p EXCEPT !.pc = "unavailable"], a, o)
  <2> DEFINE q == [p EXCEPT !.pc = "unavailable"]
  <2>1. q \in Choice  BY <1>1 DEF Choice, PCs
  <2>2. Continues(p, q) /\ q.pc = "unavailable" /\ q.steady = {}
    BY <1>1, <1>2 DEF Choice, Continues
  <2> HIDE DEF q
  <2>3. Observed(q, a, o)  BY <2>1, <2>2, ContinuesSound
  <2>4. Drawing(q) /\ Selecting(q)  BY <2>2 DEF Drawing, Selecting
  <2>5. Sound(q, a, o)  BY <2>1, <2>3, <2>4 DEF Sound
  <2>6. QED  BY <2>5 DEF q
<1>4. Sound([p EXCEPT !.pc = "ticket", !.second = TRUE], a, o)
  <2> DEFINE q == [p EXCEPT !.pc = "ticket", !.second = TRUE]
  <2>1. q \in Choice  BY <1>1 DEF Choice, PCs
  <2>2. Continues(p, q) /\ q.pc = "ticket"  BY <1>1 DEF Choice, Continues
  <2> HIDE DEF q
  <2>3. Observed(q, a, o) /\ Wanted(q) = Wanted(p)  BY <2>1, <2>2, ContinuesSound
  <2>4. Drawing(q) /\ Selecting(q)  BY <1>1, <2>2, <2>3 DEF Drawing, Selecting
  <2>5. Sound(q, a, o)  BY <2>1, <2>3, <2>4 DEF Sound
  <2>6. QED  BY <2>5 DEF q
<1>5. QED  BY <1>3, <1>4

\* Every step of handler h leads to a sound choice, and moves no other.
LEMMA HandleMoves ==
  ASSUME Typed, \A k \in Handlers : Sound(pick[k], alive, open), NEW h \in Handlers,
         (\E r \in Regions \cup {Default} : Arrive(h, r)) \/ Handle(h)
  PROVE  \E q : Step(h, q) /\ Sound(q, alive, open)
<1> DEFINE p == pick[h]
<1>1. Sound(p, alive, open)  OBVIOUS
<1>2. CASE \E r \in Regions \cup {Default} : Arrive(h, r)
  <2>1. PICK r \in Regions \cup {Default} : Arrive(h, r)  BY <1>2
  <2>2. Step(h, Begun(r, alive, open))  BY <2>1 DEF Arrive, Begun
  <2>3. QED  BY <2>2, BegunSound
<1>3. CASE Scan(h)
  <2>1. p.pc \in {"regional", "pool"} /\ p.list # <<>>  BY <1>3 DEF Scan
  <2>2. QED  BY <1>1, <1>3, <2>1, ScanSound DEF Scan
<1>4. CASE ScanEnds(h)
  <2>1. p.pc \in {"regional", "pool"} /\ p.list = <<>>  BY <1>4 DEF ScanEnds
  <2>2. QED  BY <1>1, <1>4, <2>1, ScanEndsSound DEF ScanEnds
<1>5. CASE Score(h)
  <2>1. p.pc = "score" /\ p.list # <<>>  BY <1>5 DEF Score
  <2>2. PICK best \in IF open[Head(p.list)] THEN {p.best}
                      ELSE {Head(p.list)} \cup ({p.best} \ {Nil}) :
          Step(h, [p EXCEPT !.list = Tail(@), !.best = best])
    BY <1>5 DEF Score
  <2>3. QED  BY <1>1, <2>1, <2>2, ScoreSound
<1>6. CASE ScoreEnds(h)
  <2>1. p.pc = "score" /\ p.list = <<>>  BY <1>6 DEF ScoreEnds
  <2>2. QED  BY <1>1, <1>6, <2>1, ScoreEndsSound DEF ScoreEnds
<1>7. CASE Ticket(h)
  <2>1. p.pc = "ticket" /\ current \in Nat  BY <1>7 DEF Ticket, Typed
  <2>2. Step(h, Drawn(p, current))  BY <1>7 DEF Ticket, Drawn, L
  <2>3. QED  BY <1>1, <2>1, <2>2, TicketSound
<1>8. CASE WeightedScan(h)
  <2>1. p.pc = "weighted" /\ p.i < L /\ Slot(p) = SlotAt(p, p.i)
    BY <1>8 DEF WeightedScan, L, Slot, SlotAt
  <2>2. Step(h, IF alive[SlotAt(p, p.i)] THEN [p EXCEPT !.pc = "routed", !.best = SlotAt(p, p.i)]
                ELSE [p EXCEPT !.i = @ + 1])
    BY <1>8, <2>1 DEF WeightedScan
  <2>3. QED  BY <1>1, <2>1, <2>2, WeightedScanSound
<1>9. CASE WeightedEnds(h)
  <2>1. p.pc = "weighted" /\ p.i = L  BY <1>9 DEF WeightedEnds, L
  <2>2. QED  BY <1>1, <1>9, <2>1, WeightedEndsSound DEF WeightedEnds
<1>10. CASE Finish(h)  BY <1>10, IdleSound DEF Finish
<1>11. QED
  BY <1>2, <1>3, <1>4, <1>5, <1>6, <1>7, <1>8, <1>9, <1>10 DEF Handle

LEMMA StepMoves ==
  ASSUME DOMAIN pick = Handlers, NEW h \in Handlers, NEW q, Step(h, q)
  PROVE  /\ DOMAIN pick' = Handlers
         /\ pick'[h] = q /\ \A k \in Handlers : k # h => pick'[k] = pick[k]
BY DEF Step

-----------------------------------------------------------------------------
(* The steps of the environment *)

\* q is p after a change of the environment: less is left of its histories.
Shrinks(p, q) ==
  \E S \in SUBSET p.steady, G \in SUBSET p.good, U \in SUBSET p.shut :
    q = [p EXCEPT !.steady = S, !.good = G, !.shut = U]

LEMMA ShrinksSound ==
  ASSUME NEW p, NEW q, NEW a, NEW o, NEW a2, NEW o2, Sound(p, a, o), Shrinks(p, q),
         Observed(q, a2, o2)
  PROVE  /\ Sound(q, a2, o2)
         /\ q.pc = p.pc /\ q.i = p.i /\ q.start = p.start
<1>1. p \in Choice /\ p.steady \in SUBSET Backends /\ p.good \in SUBSET Backends
      /\ p.shut \in SUBSET Backends
  BY ChoiceParts DEF Sound
<1>2. PICK S \in SUBSET p.steady, G \in SUBSET p.good, U \in SUBSET p.shut :
        q = [p EXCEPT !.steady = S, !.good = G, !.shut = U]
  BY DEF Shrinks
<1>3. q \in Choice  BY <1>1, <1>2 DEF Choice
<1>4. /\ q.pc = p.pc /\ q.region = p.region /\ q.list = p.list /\ q.found = p.found
      /\ q.best = p.best /\ q.start = p.start /\ q.i = p.i
      /\ q.steady \subseteq p.steady /\ q.good \subseteq p.good /\ q.shut \subseteq p.shut
  BY <1>1, <1>2 DEF Choice
<1>5. Wanted(q) \subseteq Wanted(p)  BY <1>4 DEF Wanted
<1>6. Drawing(q)
  <2>1. \A k : SlotAt(q, k) = SlotAt(p, k)  BY <1>4 DEF SlotAt
  <2>2. QED  BY <1>4, <2>1 DEF Drawing, Sound
<1>7. Selecting(q)
  <2>1. q.pc = "regional" => /\ AllIn(q.list, q.region) /\ AllIn(q.found, q.region)
                             /\ Wanted(q) \subseteq ToSet(q.list) \cup ToSet(q.found)
    BY <1>4, <1>5 DEF Selecting, Sound
  <2>2. q.pc \in {"regional", "pool"} => q.best = Nil  BY <1>4 DEF Selecting, Sound
  <2>3. q.pc = "score" /\ Wanted(q) # {} =>
          AllIn(q.list, q.region) /\ (q.best = Nil => Wanted(q) \subseteq ToSet(q.list))
    BY <1>4, <1>5 DEF Selecting, Sound
  <2>4. q.pc \in {"score", "routed"} /\ Wanted(q) # {} =>
          (q.best # Nil => InRegion(q.best, q.region)) /\ q.best \notin q.shut
    BY <1>4, <1>5 DEF Selecting, Sound
  <2>5. q.pc \in {"pool", "ticket", "weighted"} => Wanted(q) = {}
    BY <1>4, <1>5 DEF Selecting, Sound
  <2>6. QED  BY <2>1, <2>2, <2>3, <2>4, <2>5 DEF Selecting
<1>8. QED  BY <1>3, <1>4, <1>6, <1>7 DEF Sound

\* The health checker's steps.
LEMMA StayAliveMoves ==
  ASSUME Typed, \A h \in Handlers : Sound(pick[h], alive, open), StayAlive, UNCHANGED open
  PROVE  /\ DOMAIN pick' = Handlers
         /\ \A h \in Handlers : Shrinks(pick[h], pick'[h]) /\ Observed(pick'[h], alive', open')
<1>1. DOMAIN pick' = Handlers  BY DEF StayAlive
<1>2. ASSUME NEW h \in Handlers
      PROVE  Shrinks(pick[h], pick'[h]) /\ Observed(pick'[h], alive', open')
  <2> DEFINE p == pick[h]
             S == {b \in p.steady : alive'[b]}
             G == {b \in p.good : alive'[b]}
             q == [p EXCEPT !.steady = S, !.good = G]
  <2>1. p \in Choice /\ Observed(p, alive, open)  BY DEF Sound
  <2>2. pick'[h] = q  BY DEF StayAlive
  <2> HIDE DEF p
  <2>3. q = [p EXCEPT !.steady = S, !.good = G, !.shut = p.shut]  BY <2>1 DEF Choice
  <2>4. S \in SUBSET p.steady /\ G \in SUBSET p.good /\ p.shut \in SUBSET p.shut  OBVIOUS
  <2>5. q.steady = S /\ q.good = G /\ q.shut = p.shut  BY <2>1 DEF Choice
  <2>6. Observed(q, alive', open')  BY <2>1, <2>5 DEF Observed
  <2> HIDE DEF q, S, G
  <2>7. Shrinks(p, q)  BY <2>3, <2>4 DEF Shrinks
  <2>8. QED  BY <2>2, <2>6, <2>7 DEF p
<1>3. QED  BY <1>1, <1>2

LEMMA BreakerMovesMoves ==
  ASSUME Typed, \A h \in Handlers : Sound(pick[h], alive, open), NEW b \in Backends,
         BreakerMoves(b)
  PROVE  /\ DOMAIN pick' = Handlers
         /\ \A h \in Handlers : Shrinks(pick[h], pick'[h]) /\ Observed(pick'[h], alive', open')
<1>1. DOMAIN pick' = Handlers  BY DEF BreakerMoves
<1>2. \A x \in Backends : open'[x] = IF x = b THEN ~open[b] ELSE open[x]
  BY DEF BreakerMoves, Typed
<1>3. ASSUME NEW h \in Handlers
      PROVE  Shrinks(pick[h], pick'[h]) /\ Observed(pick'[h], alive', open')
  <2> DEFINE p == pick[h]
             G == IF open[b] THEN p.good ELSE p.good \ {b}
             U == IF open[b] THEN p.shut \ {b} ELSE p.shut
             q == [p EXCEPT !.good = G, !.shut = U]
  <2>1. /\ p \in Choice /\ Observed(p, alive, open)
        /\ p.good \in SUBSET Backends /\ p.shut \in SUBSET Backends
    BY ChoiceParts DEF Sound
  <2>2. pick'[h] = IF open[b] THEN [p EXCEPT !.shut = @ \ {b}] ELSE [p EXCEPT !.good = @ \ {b}]
    BY DEF BreakerMoves
  <2> HIDE DEF p
  <2>3. q = [p EXCEPT !.steady = p.steady, !.good = G, !.shut = U]  BY <2>1 DEF Choice
  <2>4. pick'[h] = q  BY <2>1, <2>2 DEF Choice
  <2>5. p.steady \in SUBSET p.steady /\ G \in SUBSET p.good /\ U \in SUBSET p.shut  OBVIOUS
  <2>6. q.steady = p.steady /\ q.good = G /\ q.shut = U  BY <2>1 DEF Choice
  <2>7. alive' = alive  BY DEF BreakerMoves
  <2>8. Observed(q, alive', open')  BY <1>2, <2>1, <2>6, <2>7 DEF Observed
  <2> HIDE DEF q, G, U
  <2>9. Shrinks(p, q)  BY <2>3, <2>5 DEF Shrinks
  <2>10. QED  BY <2>4, <2>8, <2>9 DEF p
<1>4. QED  BY <1>1, <1>3

-----------------------------------------------------------------------------
(* Types *)

LEMMA HandleTyped ==
  ASSUME Typed, NEW h \in Handlers,
         (\E r \in Regions \cup {Default} : Arrive(h, r)) \/ Handle(h)
  PROVE  Typed'
<1> DEFINE Rest == UNCHANGED <<alive, reach, open, check, events>>
<1>1. /\ Rest
      /\ UNCHANGED current \/ (current' = current + 1 /\ current < MaxTickets)
      /\ UNCHANGED tally \/ \E b : tally' = [tally EXCEPT ![b] = @ + 1]
      /\ \E q : Step(h, q)
  BY DEF Handle, Arrive, Scan, ScanEnds, Score, ScoreEnds, Ticket, WeightedScan,
         WeightedEnds, Finish
<1>2. current' \in 0..MaxTickets  BY <1>1, PoolAssumption DEF Typed
<1>3. tally' \in [Backends -> Nat]
  <2>1. CASE UNCHANGED tally  BY <2>1 DEF Typed
  <2>2. CASE \E b : tally' = [tally EXCEPT ![b] = @ + 1]
    <3>1. PICK b : tally' = [tally EXCEPT ![b] = @ + 1]  BY <2>2
    <3>2. tally \in [Backends -> Nat]  BY DEF Typed
    <3>3. CASE b \in Backends  BY <3>1, <3>2, <3>3
    <3>4. CASE b \notin Backends  BY <3>1, <3>2, <3>4
    <3>5. QED  BY <3>3, <3>4
  <2>3. QED  BY <1>1, <2>1, <2>2
<1>4. DOMAIN pick' = Handlers  BY <1>1, StepMoves DEF Typed
<1>5. QED  BY <1>1, <1>2, <1>3, <1>4 DEF Typed, HealthTypeOK

LEMMA HealthCheckTyped ==
  ASSUME Typed, HealthCheck
  PROVE  Typed'
<1>1. /\ check \in [next : 1..Len(Pool), dialed : {"none", "up", "down"}]
      /\ alive \in [Backends -> BOOLEAN] /\ Len(Pool) \in Nat \ {0}
      /\ check.next \in Nat /\ check.next \in 1..Len(Pool)
  BY PoolFacts DEF Typed, HealthTypeOK
<1>2. /\ check' \in [next : 1..Len(Pool), dialed : {"none", "up", "down"}]
      /\ alive' \in [Backends -> BOOLEAN]
      /\ UNCHANGED reach
  <2>1. CASE Dial(Pool)  BY <1>1, <2>1 DEF Dial
  <2>2. CASE SetAlive(Pool)
    <3> DEFINE n == check.next % Len(Pool)
    <3>1. n \in 0..(Len(Pool) - 1)  BY <1>1, Mod
    <3>2. check' = [next |-> 1 + n, dialed |-> "none"]  BY <2>2 DEF SetAlive
    <3> HIDE DEF n
    <3>3. 1 + n \in 1..Len(Pool)  BY <1>1, <3>1
    <3>4. alive' \in [Backends -> BOOLEAN]  BY <1>1, <2>2 DEF SetAlive
    <3>5. QED  BY <2>2, <3>2, <3>3, <3>4 DEF SetAlive
  <2>3. QED  BY <2>1, <2>2 DEF HealthCheck
<1>3. check'.next \in DOMAIN Pool /\ check' \in [next : Nat \ {0}, dialed : {"none", "up", "down"}]
  BY <1>2, PoolFacts
<1>4. DOMAIN pick' = Handlers  BY DEF HealthCheck, StayAlive
<1>5. QED  BY <1>2, <1>3, <1>4 DEF Typed, HealthTypeOK, HealthCheck

LEMMA EventTyped ==
  ASSUME Typed, NEW b \in Backends, PeerFlaps(b) \/ BreakerMoves(b)
  PROVE  Typed' /\ events' # 0
<1>1. events' \in 0..MaxEvents /\ events' # 0
  BY PoolAssumption DEF Typed, PeerFlaps, BreakerMoves
<1>2. reach' \in [Backends -> BOOLEAN]  BY DEF Typed, HealthTypeOK, PeerFlaps, Flap, BreakerMoves
<1>3. open' \in [Backends -> BOOLEAN]  BY DEF Typed, PeerFlaps, BreakerMoves
<1>4. DOMAIN pick' = Handlers  BY DEF Typed, PeerFlaps, BreakerMoves
<1>5. QED  BY <1>1, <1>2, <1>3, <1>4 DEF Typed, HealthTypeOK, PeerFlaps, Flap, BreakerMoves

-----------------------------------------------------------------------------
(* Tickets *)

\* One more ticket is drawn.
LEMMA TicketsGrow ==
  ASSUME NEW b, NEW n \in Nat
  PROVE  /\ Cardinality(Tickets(b, n)) \in Nat
         /\ Cardinality(Tickets(b, n + 1)) =
              Cardinality(Tickets(b, n)) + IF weighted[1 + (n % L)] = b THEN 1 ELSE 0
<1> DEFINE t == weighted[1 + (n % L)] = b
<1>1. IsFiniteSet(Tickets(b, n)) /\ n \notin Tickets(b, n)
  <2>1. IsFiniteSet(0..(n - 1))  BY FS_Interval
  <2>2. QED  BY <2>1, FS_Subset DEF Tickets
<1>2. Tickets(b, n + 1) = IF t THEN Tickets(b, n) \cup {n} ELSE Tickets(b, n)
  BY DEF Tickets
<1> HIDE DEF t
<1>3. Cardinality(Tickets(b, n)) \in Nat  BY <1>1, FS_CardinalityType
<1>4. Cardinality(Tickets(b, n) \cup {n}) = Cardinality(Tickets(b, n)) + 1
  BY <1>1, FS_AddElement
<1>5. QED  BY <1>2, <1>3, <1>4 DEF t

LEMMA WaitingFinite ==
  ASSUME NEW b, NEW pk
  PROVE  IsFiniteSet(Waiting(b, pk)) /\ Cardinality(Waiting(b, pk)) \in Nat
<1>1. IsFiniteSet(Waiting(b, pk))  BY PoolAssumption, FS_Subset DEF Waiting
<1>2. QED  BY <1>1, FS_CardinalityType

\* Nobody begins or stops to wait for a slot.
LEMMA WaitingStays ==
  ASSUME NEW pk, NEW pk2,
         \A h \in Handlers :
           \/ pk[h].pc # "weighted" /\ pk2[h].pc # "weighted"
           \/ pk2[h].pc = pk[h].pc /\ pk2[h].i = pk[h].i /\ pk2[h].start = pk[h].start
  PROVE  \A b : Waiting(b, pk2) = Waiting(b, pk)
BY DEF Waiting, SlotAt

\* A ticket is counted as pending.
LEMMA TicketCounts ==
  ASSUME IInv, NEW h \in Handlers, Ticket(h)
  PROVE  Counted'
<1>1. SUFFICES ASSUME Calm PROVE Counted'
  BY DEF Ticket, Counted, Calm
<1> DEFINE q == Drawn(pick[h], current)
           x == weighted[1 + (current % L)]
<1>2. /\ current \in Nat /\ current' = current + 1 /\ pick[h].pc = "ticket"
      /\ UNCHANGED <<alive, check, tally>> /\ DOMAIN pick = Handlers
      /\ Step(h, q) /\ tally \in [Backends -> Nat]
  BY DEF IInv, Typed, Ticket, Drawn, L
<1>3. q.pc = "weighted" /\ q.i = 0 /\ SlotAt(q, 0) = x
  BY <1>2, TicketSound DEF IInv
<1> HIDE DEF q, x
<1>4. pick'[h] = q /\ \A k \in Handlers : k # h => pick'[k] = pick[k]
  BY <1>2, StepMoves
<1>5. /\ \A b \in Backends : alive[b]
      /\ check.dialed # "down"
      /\ \A k \in Handlers : pick[k].pc = "weighted" => pick[k].i = 0
      /\ \A b \in Backends :
           tally[b] + Cardinality(Waiting(b, pick)) = Cardinality(Tickets(b, current))
  BY <1>1 DEF IInv, Counted
<1>6. ASSUME NEW b \in Backends
      PROVE  tally'[b] + Cardinality(Waiting(b, pick')) = Cardinality(Tickets(b, current'))
  <2>1. /\ Cardinality(Tickets(b, current)) \in Nat
        /\ Cardinality(Tickets(b, current')) =
             Cardinality(Tickets(b, current)) + IF x = b THEN 1 ELSE 0
    BY <1>2, TicketsGrow DEF x
  <2>2. Waiting(b, pick') = IF x = b THEN Waiting(b, pick) \cup {h} ELSE Waiting(b, pick)
    BY <1>2, <1>3, <1>4 DEF Waiting
  <2>3. h \notin Waiting(b, pick)  BY <1>2 DEF Waiting
  <2>4. Cardinality(Waiting(b, pick) \cup {h}) = Cardinality(Waiting(b, pick)) + 1
    BY <2>3, WaitingFinite, FS_AddElement
  <2>5. Cardinality(Waiting(b, pick)) \in Nat  BY WaitingFinite
  <2>6. tally[b] \in Nat /\ tally'[b] = tally[b]  BY <1>2
  <2>7. tally[b] + Cardinality(Waiting(b, pick)) = Cardinality(Tickets(b, current))  BY <1>5
  <2>8. QED  BY <2>1, <2>2, <2>4, <2>5, <2>6, <2>7
<1>7. \A k \in Handlers : pick'[k].pc = "weighted" => pick'[k].i = 0
  BY <1>3, <1>4, <1>5
<1>8. QED  BY <1>2, <1>5, <1>6, <1>7 DEF Counted

\* The slot a ticket leads to is alive: the pending ticket becomes a choice.
LEMMA WeightedScanCounts ==
  ASSUME IInv, NEW h \in Handlers, WeightedScan(h)
  PROVE  Counted'
<1>1. SUFFICES ASSUME Calm PROVE Counted'
  BY DEF WeightedScan, Counted, Calm
<1> DEFINE p == pick[h]
           x == SlotAt(p, p.i)
           q == [p EXCEPT !.pc = "routed", !.best = x]
<1>2. /\ \A b \in Backends : alive[b]
      /\ check.dialed # "down"
      /\ \A k \in Handlers : pick[k].pc = "weighted" => pick[k].i = 0
      /\ \A b \in Backends :
           tally[b] + Cardinality(Waiting(b, pick)) = Cardinality(Tickets(b, current))
  BY <1>1 DEF IInv, Counted
<1>3. p.pc = "weighted" /\ p.i < L /\ Slot(p) = x /\ p \in Choice
  BY DEF WeightedScan, L, Slot, SlotAt, IInv, Sound
<1>4. x \in Backends  BY <1>3, WeightedScanSound DEF IInv
<1>5. /\ Step(h, q) /\ tally' = [tally EXCEPT ![x] = @ + 1]
      /\ UNCHANGED <<alive, check, current>>
      /\ DOMAIN pick = Handlers /\ tally \in [Backends -> Nat]
  BY <1>2, <1>3, <1>4 DEF WeightedScan, IInv, Typed
<1>6. q.pc = "routed"  BY <1>3 DEF Choice
<1> HIDE DEF q
<1>7. pick'[h] = q /\ \A k \in Handlers : k # h => pick'[k] = pick[k]
  BY <1>5, StepMoves
<1>8. ASSUME NEW b \in Backends
      PROVE  tally'[b] + Cardinality(Waiting(b, pick')) = Cardinality(Tickets(b, current'))
  <2>1. h \in Waiting(b, pick) <=> x = b  BY <1>3 DEF Waiting
  <2>2. Waiting(b, pick') = Waiting(b, pick) \ {h}  BY <1>6, <1>7 DEF Waiting
  <2>3. /\ IsFiniteSet(Waiting(b, pick)) /\ Cardinality(Waiting(b, pick)) \in Nat
        /\ Cardinality(Waiting(b, pick')) \in Nat
    BY WaitingFinite
  <2>4. Cardinality(Waiting(b, pick) \ {h}) =
          IF x = b THEN Cardinality(Waiting(b, pick)) - 1 ELSE Cardinality(Waiting(b, pick))
    BY <2>1, <2>3, FS_RemoveElement
  <2>5. tally[b] \in Nat /\ tally'[b] = IF x = b THEN tally[b] + 1 ELSE tally[b]
    <3> HIDE DEF x
    <3>1. QED  BY <1>5
  <2>6. tally[b] + Cardinality(Waiting(b, pick)) = Cardinality(Tickets(b, current))
        /\ current' = current
    BY <1>2, <1>5
  <2>7. QED  BY <2>2, <2>3, <2>4, <2>5, <2>6
<1>9. \A k \in Handlers : pick'[k].pc = "weighted" => pick'[k].i = 0
  BY <1>2, <1>6, <1>7
<1>10. QED  BY <1>2, <1>5, <1>8, <1>9 DEF Counted

\* A step at which nobody draws a ticket or uses one.
LEMMA QuietCounts ==
  ASSUME IInv, Calm' => Calm,
         Calm => (\A b \in Backends : alive'[b]) /\ check'.dialed # "down",
         UNCHANGED <<current, tally>>,
         Calm => \A h \in Handlers :
                   \/ pick[h].pc # "weighted" /\ pick'[h].pc # "weighted"
                   \/ /\ pick'[h].pc = pick[h].pc /\ pick'[h].i = pick[h].i
                      /\ pick'[h].start = pick[h].start
  PROVE  Counted'
<1>1. SUFFICES ASSUME Calm' PROVE Counted'  BY DEF Counted
<1>2. Calm  BY <1>1
<1>3. /\ \A h \in Handlers : pick[h].pc = "weighted" => pick[h].i = 0
      /\ \A b \in Backends :
           tally[b] + Cardinality(Waiting(b, pick)) = Cardinality(Tickets(b, current))
  BY <1>2 DEF IInv, Counted
<1>4. \A b : Waiting(b, pick') = Waiting(b, pick)  BY <1>2, WaitingStays
<1>5. \A b \in Backends :
        tally'[b] + Cardinality(Waiting(b, pick')) = Cardinality(Tickets(b, current'))
  BY <1>3, <1>4
<1>6. QED  BY <1>2, <1>3, <1>5 DEF Counted

LEMMA HandleCounts ==
  ASSUME IInv, NEW h \in Handlers,
         (\E r \in Regions \cup {Default} : Arrive(h, r)) \/ Handle(h)
  PROVE  Counted'
<1> DEFINE p == pick[h]
<1>1. p \in Choice /\ DOMAIN pick = Handlers  BY DEF IInv, Sound, Typed
<1>2. UNCHANGED <<alive, reach, check, events>>
  BY DEF Handle, Arrive, Scan, ScanEnds, Score, ScoreEnds, Ticket, WeightedScan,
         WeightedEnds, Finish
<1>3. (Calm' => Calm) /\ (Calm => (\A b \in Backends : alive'[b]) /\ check'.dialed # "down")
  BY <1>2 DEF Calm, IInv, Counted
<1>4. ASSUME NEW q, Step(h, q), UNCHANGED <<current, tally>>,
             Calm => p.pc # "weighted" /\ q.pc # "weighted"
      PROVE  Counted'
  <2>1. pick'[h] = q /\ \A k \in Handlers : k # h => pick'[k] = pick[k]
    BY <1>1, <1>4, StepMoves
  <2>2. QED  BY <1>3, <1>4, <2>1, QuietCounts
<1>5. CASE \E r \in Regions \cup {Default} : Arrive(h, r)
  <2>1. PICK r \in Regions \cup {Default} : Arrive(h, r)  BY <1>5
  <2>2. Step(h, Begun(r, alive, open)) /\ p.pc = "idle" /\ UNCHANGED <<current, tally>>
    BY <2>1 DEF Arrive, Begun
  <2>3. Begun(r, alive, open).pc # "weighted"  BY DEF Begun, Idle
  <2>4. QED  BY <1>4, <2>2, <2>3
<1>6. CASE Scan(h)
  <2>1. PICK l, f : Step(h, [p EXCEPT !.list = l, !.found = f])  BY <1>6 DEF Scan
  <2>2. [p EXCEPT !.list = l, !.found = f].pc = p.pc  BY <1>1 DEF Choice
  <2>3. p.pc # "weighted" /\ UNCHANGED <<current, tally>>  BY <1>6 DEF Scan
  <2>4. QED  BY <1>4, <2>1, <2>2, <2>3
<1>7. CASE ScanEnds(h)
  <2>1. p.pc # "weighted" /\ UNCHANGED <<current, tally>>  BY <1>7 DEF ScanEnds
  <2>2. \/ Step(h, [p EXCEPT !.pc = "score", !.list = p.found])
        \/ Step(h, [p EXCEPT !.pc = "pool", !.list = Pool])
        \/ Step(h, [p EXCEPT !.pc = "ticket"])
    BY <1>7 DEF ScanEnds
  <2>3. /\ [p EXCEPT !.pc = "score", !.list = p.found].pc = "score"
        /\ [p EXCEPT !.pc = "pool", !.list = Pool].pc = "pool"
        /\ [p EXCEPT !.pc = "ticket"].pc = "ticket"
    BY <1>1 DEF Choice
  <2>4. QED  BY <1>4, <2>1, <2>2, <2>3
<1>8. CASE Score(h)
  <2>1. PICK l, best : Step(h, [p EXCEPT !.list = l, !.best = best])  BY <1>8 DEF Score
  <2>2. [p EXCEPT !.list = l, !.best = best].pc = p.pc  BY <1>1 DEF Choice
  <2>3. p.pc # "weighted" /\ UNCHANGED <<current, tally>>  BY <1>8 DEF Score
  <2>4. QED  BY <1>4, <2>1, <2>2, <2>3
<1>9. CASE ScoreEnds(h)
  <2>1. p.pc # "weighted" /\ UNCHANGED <<current, tally>>  BY <1>9 DEF ScoreEnds
  <2>2. \/ Step(h, [p EXCEPT !.pc = "routed", !.found = <<>>])
        \/ Step(h, [p EXCEPT !.pc = "ticket", !.second = TRUE, !.found = <<>>])
    BY <1>9 DEF ScoreEnds
  <2>3. /\ [p EXCEPT !.pc = "routed", !.found = <<>>].pc = "routed"
        /\ [p EXCEPT !.pc = "ticket", !.second = TRUE, !.found = <<>>].pc = "ticket"
    BY <1>1 DEF Choice
  <2>4. QED  BY <1>4, <2>1, <2>2, <2>3
<1>10. CASE Ticket(h)  BY <1>10, TicketCounts
<1>11. CASE WeightedScan(h)  BY <1>11, WeightedScanCounts
<1>12. CASE WeightedEnds(h)
  <2>1. p.pc = "weighted" /\ p.i = L /\ L # 0  BY <1>12, WeightedFacts DEF WeightedEnds, L
  <2>2. ~Calm  BY <2>1 DEF IInv, Counted
  <2>3. QED  BY <1>3, <2>2 DEF Counted
<1>13. CASE Finish(h)
  <2>1. p.pc # "weighted" /\ Step(h, Idle) /\ UNCHANGED <<current, tally>>
    BY <1>13 DEF Finish
  <2>2. Idle.pc # "weighted"  BY DEF Idle
  <2>3. QED  BY <1>4, <2>1, <2>2
<1>14. QED
  BY <1>5, <1>6, <1>7, <1>8, <1>9, <1>10, <1>11, <1>12, <1>13 DEF Handle

LEMMA HealthCheckCounts ==
  ASSUME IInv, HealthCheck
  PROVE  Counted'
<1>1. UNCHANGED <<open, current, events, tally, reach>>
  BY DEF HealthCheck, Dial, SetAlive
<1>2. Calm' => Calm  BY <1>1 DEF Calm
<1>3. ASSUME Calm PROVE (\A b \in Backends : alive'[b]) /\ check'.dialed # "down"
  <2>1. /\ \A b \in Backends : alive[b] /\ reach[b]
        /\ check.dialed # "down"
        /\ check \in [next : Nat \ {0}, dialed : {"none", "up", "down"}]
        /\ check.next \in DOMAIN Pool /\ Pool[check.next] \in Backends
        /\ alive \in [Backends -> BOOLEAN]
    BY <1>3, PoolFacts DEF Calm, IInv, Counted, Typed, HealthTypeOK
  <2>2. CASE Dial(Pool)
    <3>1. check'.dialed = "up"  BY <2>1, <2>2 DEF Dial
    <3>2. alive' = alive  BY <2>2 DEF Dial
    <3>3. QED  BY <2>1, <3>1, <3>2
  <2>3. CASE SetAlive(Pool)
    <3>1. check.dialed = "up"  BY <2>1, <2>3 DEF SetAlive
    <3>2. alive' = [alive EXCEPT ![Pool[check.next]] = TRUE]  BY <2>3, <3>1 DEF SetAlive
    <3>3. check'.dialed = "none"  BY <2>3 DEF SetAlive
    <3>4. QED  BY <2>1, <3>2, <3>3
  <2>4. QED  BY <2>2, <2>3 DEF HealthCheck
<1>4. \A h \in Handlers : Shrinks(pick[h], pick'[h]) /\ Observed(pick'[h], alive', open')
  BY <1>1, StayAliveMoves DEF IInv, HealthCheck
<1>5. \A h \in Handlers : /\ pick'[h].pc = pick[h].pc /\ pick'[h].i = pick[h].i
                          /\ pick'[h].start = pick[h].start
  BY <1>4, ShrinksSound DEF IInv
<1>6. QED  BY <1>1, <1>2, <1>3, <1>5, QuietCounts

-----------------------------------------------------------------------------
(* The theorems *)

LEMMA InitIInv == Init => IInv
<1>1. SUFFICES ASSUME Init PROVE IInv  OBVIOUS
<1>2. Typed
  BY <1>1, PoolFacts, PoolAssumption DEF Init, HealthInit, Typed, HealthTypeOK
<1>3. \A h \in Handlers : pick[h] = Idle  BY <1>1 DEF Init
<1>4. \A h \in Handlers : Sound(pick[h], alive, open)  BY <1>3, IdleSound
<1>5. Counted
  <2>1. \A h \in Handlers : pick[h].pc # "weighted"  BY <1>3 DEF Idle
  <2>2. \A b : Waiting(b, pick) = {} /\ Tickets(b, current) = {}
    <3>1. \A b : Waiting(b, pick) = {}  BY <2>1 DEF Waiting
    <3>2. current = 0 /\ 0..(0 - 1) = {}  BY <1>1 DEF Init
    <3>3. \A b : Tickets(b, current) = {}  BY <3>2 DEF Tickets
    <3>4. QED  BY <3>1, <3>3
  <2>3. Cardinality({}) = 0  BY FS_EmptySet
  <2>4. \A b \in Backends : tally[b] = 0 /\ alive[b]  BY <1>1 DEF Init, HealthInit
  <2>5. check.dialed = "none"  BY <1>1 DEF Init, HealthInit
  <2>6. QED  BY <2>1, <2>2, <2>3, <2>4, <2>5 DEF Counted
<1>6. QED  BY <1>2, <1>4, <1>5 DEF IInv

LEMMA NextIInv == IInv /\ [Next]_vars => IInv'
<1>1. SUFFICES ASSUME IInv, [Next]_vars PROVE IInv'  OBVIOUS
<1>2. Typed /\ \A h \in Handlers : Sound(pick[h], alive, open)  BY <1>1 DEF IInv
<1>3. ASSUME NEW h \in Handlers,
             (\E r \in Regions \cup {Default} : Arrive(h, r)) \/ Handle(h)
      PROVE  IInv'
  <2>1. PICK q : Step(h, q) /\ Sound(q, alive, open)  BY <1>2, <1>3, HandleMoves
  <2>2. UNCHANGED <<alive, open>>
    BY <1>3 DEF Handle, Arrive, Scan, ScanEnds, Score, ScoreEnds, Ticket, WeightedScan,
                WeightedEnds, Finish
  <2>3. \A k \in Handlers : Sound(pick'[k], alive', open')
    BY <1>2, <2>1, <2>2, StepMoves DEF Typed
  <2>4. QED  BY <1>1, <1>2, <1>3, <2>3, HandleTyped, HandleCounts DEF IInv
<1>4. CASE HealthCheck
  <2>1. \A h \in Handlers : Sound(pick'[h], alive', open')
    BY <1>2, <1>4, StayAliveMoves, ShrinksSound DEF HealthCheck
  <2>2. QED  BY <1>1, <1>2, <1>4, <2>1, HealthCheckTyped, HealthCheckCounts DEF IInv
<1>5. ASSUME NEW b \in Backends, PeerFlaps(b) \/ BreakerMoves(b) PROVE IInv'
  <2>1. Typed' /\ events' # 0  BY <1>2, <1>5, EventTyped
  <2>2. CASE PeerFlaps(b)
    <3>1. UNCHANGED <<alive, open, pick>>  BY <2>2 DEF PeerFlaps, Flap
    <3>2. \A h \in Handlers : Sound(pick'[h], alive', open')  BY <1>2, <3>1
    <3>3. QED  BY <2>1, <3>2 DEF IInv, Counted, Calm
  <2>3. CASE BreakerMoves(b)
    <3>1. \A h \in Handlers : Sound(pick'[h], alive', open')
      BY <1>2, <2>3, BreakerMovesMoves, ShrinksSound
    <3>2. QED  BY <2>1, <3>1 DEF IInv, Counted, Calm
  <2>4. QED  BY <1>5, <2>2, <2>3
<1>6. CASE UNCHANGED vars
  <2>1. Typed'  BY <1>2, <1>6 DEF vars, Typed, HealthTypeOK
  <2>2. \A h \in Handlers : Sound(pick'[h], alive', open')  BY <1>2, <1>6 DEF vars
  <2>3. Counted'  BY <1>1, <1>6 DEF vars, IInv, Counted, Calm
  <2>4. QED  BY <2>1, <2>2, <2>3 DEF IInv
<1>7. QED  BY <1>1, <1>3, <1>4, <1>5, <1>6 DEF Next

\* The inductive invariant holds, however choices, the health checker and the
\* breakers interleave.
THEOREM PoolInductive == Spec => []IInv
BY InitIInv, NextIInv, PTL DEF Spec

\* The pool's variables keep their types: in particular a request that is
\* routed has a backend.
THEOREM PoolTypeCorrect == Spec => []TypeOK
<1>1. ASSUME IInv PROVE TypeOK
  <2>1. ASSUME NEW h \in Handlers
        PROVE  /\ pick[h].pc \in PCs
               /\ pick[h].region \in Regions \cup {Default}
               /\ ToSet(pick[h].list) \cup ToSet(pick[h].found) \subseteq Backends
               /\ pick[h].best \in Backends \cup {Nil}
               /\ pick[h].start \in 1..Len(weighted) \cup {0}
               /\ pick[h].i \in 0..Len(weighted)
               /\ pick[h].second \in BOOLEAN
               /\ pick[h].pc = "routed" => pick[h].best \in Backends
    <3>1. pick[h] \in Choice /\ Drawing(pick[h])  BY <1>1 DEF IInv, Sound
    <3>2. L \in Nat  BY WeightedFacts
    <3>3. ToSet(pick[h].list) \subseteq Backends /\ ToSet(pick[h].found) \subseteq Backends
      BY <3>1, ChoiceParts, SetOfSeq
    <3>4. pick[h].start \in 0..L  BY <3>1, ChoiceParts
    <3>5. pick[h].start \in 1..L \cup {0}  BY <3>2, <3>4
    <3>6. QED  BY <3>1, <3>3, <3>5, ChoiceParts DEF Drawing, L
  <2>2. QED  BY <1>1, <2>1 DEF IInv, Typed, TypeOK
<1>2. QED  BY <1>1, PoolInductive, PTL

\* No interleaving of the scans with the health checker answers 503 to a request
\* during whose choice some backend was alive all along.
THEOREM NoOutageWhileOneStays == Spec => []NoFalseOutage
<1>1. IInv => NoFalseOutage  BY DEF IInv, Sound, Drawing, NoFalseOutage
<1>2. QED  BY <1>1, PoolInductive, PTL

\* ... nor sends it out of its region, or to a breaker that was open all along,
\* while some backend of the region could have taken it.
THEOREM RegionsAreKept == Spec => []RegionAffinity
<1>1. ASSUME IInv PROVE RegionAffinity
  <2>1. SUFFICES ASSUME NEW h \in Handlers, pick[h].pc = "routed",
                        \E b \in pick[h].good : InRegion(b, pick[h].region)
                 PROVE  /\ InRegion(pick[h].best, pick[h].region)
                        /\ pick[h].best \notin pick[h].shut
    BY DEF RegionAffinity
  <2>2. Wanted(pick[h]) # {}  BY <2>1 DEF Wanted
  <2>3. pick[h].best # Nil  BY <1>1, <2>1, PoolFacts DEF IInv, Sound, Drawing
  <2>4. QED  BY <1>1, <2>1, <2>2, <2>3 DEF IInv, Sound, Selecting
<1>2. QED  BY <1>1, PoolInductive, PTL

\* However the handlers interleave, the choices by ticket are shared in the
\* proportion of the weights as long as every backend is alive.
THEOREM TicketsAreShared == Spec => []WeightedShare
<1>1. ASSUME IInv PROVE WeightedShare
  <2>1. \A b : Pending(b) = Waiting(b, pick)  BY DEF Pending, Waiting, Slot, SlotAt, L
  <2>2. QED  BY <1>1, <2>1 DEF IInv, Counted, Calm, WeightedShare, Tickets, L
<1>2. QED  BY <1>1, PoolInductive, PTL

=============================================================================
