------------------------- MODULE TrafficPoliciesProofs -------------------------
(***************************************************************************)
(* Theorems about TrafficPolicies, for any policies, requests and buckets. *)
(* The exchange sort of AddPolicy orders every list and loses nothing of   *)
(* it, by an induction over each of its two loops; with the order, the     *)
(* first policy that decides a request is the one whose number is least;   *)
(* and where that one is the only one of its number, it depends on which   *)
(* policies are in the list, and not on where they stand.                  *)
(***************************************************************************)
EXTENDS TrafficPolicies, TLAPS, FiniteSetTheorems, WellFoundedInduction

-----------------------------------------------------------------------------
(* Natural numbers *)

Less == {ss \in Nat \X Nat : ss[1] < ss[2]}

\* Every set of naturals has a least one.
LEMMA Least ==
  ASSUME NEW S, S \subseteq Nat, S # {}
  PROVE  \E x \in S : \A y \in S : x <= y
<1>1. IsWellFoundedOn(Less, Nat)  BY NatLessThanWellFounded DEF OpToRel, Less
<1>2. PICK x \in S : \A y \in S : <<y, x>> \notin Less  BY <1>1, WFMin
<1>3. \A y \in S : ~(y < x)  BY <1>2 DEF Less
<1>4. QED  BY <1>3

LEMMA MinFacts ==
  ASSUME NEW S, S \subseteq Nat, S # {}
  PROVE  Min(S) \in S /\ \A y \in S : Min(S) <= y
BY Least DEF Min

LEMMA SetInduction ==
  ASSUME NEW T, 0 \in T, \A n \in Nat : n \in T => n + 1 \in T
  PROVE  Nat \subseteq T
<1> DEFINE Z == Nat \ T
<1>1. SUFFICES ASSUME Z # {} PROVE FALSE  OBVIOUS
<1>2. PICK x \in Z : \A y \in Z : x <= y  BY <1>1, Least
<1>3. x - 1 \in Nat  BY <1>2
<1>4. x - 1 \in T  BY <1>2, <1>3
<1>5. QED  BY <1>2, <1>3, <1>4

-----------------------------------------------------------------------------
(* An exchange *)

\* How many entries of the list s are in X.
Within(s, X) == Cardinality({k \in 1..Len(s) : s[k] \in X})

\* t is s in another order: it has as many entries of every kind.
Permutes(s, t, S) ==
  /\ t \in Seq(S) /\ Len(t) = Len(s)
  /\ \A X : Within(t, X) = Within(s, X)

Ranked(S) == \A x \in S : x.priority \in Int

\* Positions 1 to i hold the least of s, in order.
OrderedUpTo(s, i) ==
  \A a \in 1..i : \A b \in (a + 1)..Len(s) : s[a].priority <= s[b].priority

LEMMA ExchangeFacts ==
  ASSUME NEW S, Ranked(S), NEW s \in Seq(S), NEW i \in 1..Len(s), NEW j \in 1..Len(s), i # j
  PROVE  LET t == Exchange(s, i, j) IN
         /\ t \in Seq(S) /\ Len(t) = Len(s)
         /\ t[i].priority <= t[j].priority
         /\ t[i].priority <= s[i].priority
         /\ (t[i] = s[i] /\ t[j] = s[j]) \/ (t[i] = s[j] /\ t[j] = s[i])
         /\ \A k \in 1..Len(s) : k # i /\ k # j => t[k] = s[k]
<1> DEFINE x == [s EXCEPT ![i] = s[j], ![j] = s[i]]
<1>1. /\ x \in Seq(S) /\ Len(x) = Len(s) /\ x[i] = s[j] /\ x[j] = s[i]
      /\ \A k \in 1..Len(s) : k # i /\ k # j => x[k] = s[k]
  OBVIOUS
<1>2. s[i].priority \in Int /\ s[j].priority \in Int  BY DEF Ranked
<1>3. CASE s[i].priority > s[j].priority
  <2>1. Exchange(s, i, j) = x  BY <1>3 DEF Exchange
  <2> HIDE DEF x
  <2>2. QED  BY <1>1, <1>2, <1>3, <2>1
<1>4. CASE ~(s[i].priority > s[j].priority)
  <2>1. Exchange(s, i, j) = s  BY <1>4 DEF Exchange
  <2>2. QED  BY <1>2, <1>4, <2>1
<1>5. QED  BY <1>3, <1>4

\* The two positions change places, so that there are as many of each name.
LEMMA ExchangePermutes ==
  ASSUME NEW S, Ranked(S), NEW s \in Seq(S), NEW i \in 1..Len(s), NEW j \in 1..Len(s), i # j
  PROVE  Permutes(s, Exchange(s, i, j), S)
<1> DEFINE t == Exchange(s, i, j)
<1>1. /\ t \in Seq(S) /\ Len(t) = Len(s)
      /\ (t[i] = s[i] /\ t[j] = s[j]) \/ (t[i] = s[j] /\ t[j] = s[i])
      /\ \A k \in 1..Len(s) : k # i /\ k # j => t[k] = s[k]
  BY ExchangeFacts
<1> HIDE DEF t
<1>2. ASSUME NEW X PROVE Within(t, X) = Within(s, X)
  <2> DEFINE A == {k \in 1..Len(s) : s[k] \in X}
             B == {k \in 1..Len(t) : t[k] \in X}
  <2>1. CASE t[i] = s[i] /\ t[j] = s[j]
    <3>1. \A k \in 1..Len(s) : t[k] = s[k]  BY <1>1, <2>1
    <3>2. QED  BY <1>1, <3>1 DEF Within
  <2>2. CASE t[i] = s[j] /\ t[j] = s[i]
    <3> DEFINE f == [k \in A |-> IF k = i THEN j ELSE IF k = j THEN i ELSE k]
    <3>1. \A k \in A : f[k] \in B  BY <1>1, <2>2
    <3>2. \A k, l \in A : f[k] = f[l] => k = l  OBVIOUS
    <3>3. \A m \in B : \E k \in A : f[k] = m
      <4>1. TAKE m \in B
      <4> DEFINE k == IF m = i THEN j ELSE IF m = j THEN i ELSE m
      <4>2. k \in A  BY <1>1, <2>2
      <4>3. f[k] = m  BY <4>2
      <4>4. QED  BY <4>2, <4>3
    <3>4. f \in Bijection(A, B)
      <4>1. f \in [A -> B]  BY <3>1
      <4> HIDE DEF f, A, B
      <4>2. f \in Injection(A, B)  BY <3>2, <4>1 DEF Injection, IsInjective
      <4>3. f \in Surjection(A, B)  BY <3>3, <4>1 DEF Surjection
      <4>4. QED  BY <4>2, <4>3 DEF Bijection
    <3>5. IsFiniteSet(A)
      <4>1. IsFiniteSet(1..Len(s))  BY FS_Interval
      <4>2. QED  BY <4>1, FS_Subset
    <3> HIDE DEF f, A, B
    <3>6. Cardinality(A) = Cardinality(B)  BY <3>4, <3>5, FS_Bijection DEF ExistsBijection
    <3>7. QED  BY <3>6 DEF A, B, Within
  <2>3. QED  BY <1>1, <2>1, <2>2
<1>3. QED  BY <1>1, <1>2 DEF Permutes, t

LEMMA PermutesTrans ==
  ASSUME NEW S, NEW s, NEW t, NEW u, Permutes(s, t, S), Permutes(t, u, S)
  PROVE  Permutes(s, u, S)
BY DEF Permutes

-----------------------------------------------------------------------------
(* The inner loop *)

\* f is given, up to n, by the recursion of Compared.
Compares(s, i, f, n) ==
  f = [j \in i..n |-> IF j = i THEN s ELSE Exchange(f[j - 1], i, j)]

LEMMA ComparesExist == ASSUME NEW s, NEW i \in Nat PROVE \A n \in Nat : \E f : Compares(s, i, f, n)
<1> DEFINE T == {n \in Nat : \E f : Compares(s, i, f, n)}
<1>1. 0 \in T
  <2> DEFINE f == [j \in i..0 |-> s]
  <2>1. \A j \in i..0 : j = i  OBVIOUS
  <2>2. f = [j \in i..0 |-> IF j = i THEN s ELSE Exchange(f[j - 1], i, j)]  BY <2>1
  <2>3. Compares(s, i, f, 0)  BY <2>2 DEF Compares
  <2>4. QED  BY <2>3
<1>2. ASSUME NEW n \in Nat, n \in T PROVE n + 1 \in T
  <2>1. PICK f : Compares(s, i, f, n)  BY <1>2
  <2> DEFINE g == [j \in i..(n + 1) |->
                     IF j \in i..n THEN f[j] ELSE IF j = i THEN s ELSE Exchange(f[n], i, j)]
             h == [j \in i..(n + 1) |-> IF j = i THEN s ELSE Exchange(g[j - 1], i, j)]
  <2>2. ASSUME NEW j \in i..(n + 1) PROVE g[j] = h[j]
    <3>1. CASE j = i  BY <2>1, <3>1 DEF Compares
    <3>2. CASE j \in (i + 1)..n
      <4>1. f[j] = Exchange(f[j - 1], i, j)  BY <2>1, <3>2 DEF Compares
      <4>2. g[j] = f[j] /\ g[j - 1] = f[j - 1]  BY <3>2
      <4>3. h[j] = Exchange(g[j - 1], i, j)  BY <3>2
      <4>4. QED  BY <4>1, <4>2, <4>3
    <3>3. CASE j = n + 1 /\ j # i
      <4>1. g[j] = Exchange(f[n], i, j) /\ g[j - 1] = f[n]  BY <3>3
      <4>2. h[j] = Exchange(g[j - 1], i, j)  BY <3>3
      <4>3. QED  BY <4>1, <4>2
    <3>4. QED  BY <3>1, <3>2, <3>3
  <2>3. g = h  BY <2>2
  <2>4. Compares(s, i, g, n + 1)  BY <2>3 DEF Compares
  <2>5. QED  BY <2>4
<1> HIDE DEF T
<1>3. Nat \subseteq T  BY <1>1, <1>2, SetInduction
<1>4. QED  BY <1>3 DEF T

LEMMA ComparedRecurs ==
  ASSUME NEW S, NEW s \in Seq(S), NEW i \in 1..Len(s)
  PROVE  /\ Compared(s, i)[i] = s
         /\ \A j \in (i + 1)..Len(s) : Compared(s, i)[j] = Exchange(Compared(s, i)[j - 1], i, j)
<1>1. Len(s) \in Nat /\ i \in Nat  OBVIOUS
<1>2. \E f : Compares(s, i, f, Len(s))  BY <1>1, ComparesExist
<1>3. Compared(s, i) = CHOOSE f : Compares(s, i, f, Len(s))  BY DEF Compared, Compares
<1>4. Compares(s, i, Compared(s, i), Len(s))  BY <1>2, <1>3
<1>5. QED  BY <1>1, <1>4 DEF Compares

\* After the comparisons up to j: the first i - 1 positions are as they were and
\* hold the least still, and position i holds the least of i to j.
ComparedTo(s, i, j, t, S) ==
  /\ Permutes(s, t, S)
  /\ OrderedUpTo(t, i - 1)
  /\ \A k \in (i + 1)..j : t[i].priority <= t[k].priority

LEMMA ExchangeCompares ==
  ASSUME NEW S, Ranked(S), NEW s, NEW t, NEW i \in Nat \ {0}, NEW j \in Nat, i <= j,
         j + 1 <= Len(s), Len(s) \in Nat, ComparedTo(s, i, j, t, S)
  PROVE  ComparedTo(s, i, j + 1, Exchange(t, i, j + 1), S)
<1> DEFINE u == Exchange(t, i, j + 1)
           m == j + 1
<1>1. t \in Seq(S) /\ Len(t) = Len(s) /\ i \in 1..Len(t) /\ m \in 1..Len(t) /\ i # m
  BY DEF ComparedTo, Permutes
<1>2. /\ u \in Seq(S) /\ Len(u) = Len(t)
      /\ u[i].priority <= u[m].priority /\ u[i].priority <= t[i].priority
      /\ (u[i] = t[i] /\ u[m] = t[m]) \/ (u[i] = t[m] /\ u[m] = t[i])
      /\ \A k \in 1..Len(t) : k # i /\ k # m => u[k] = t[k]
  BY <1>1, ExchangeFacts
<1>3. Permutes(s, u, S)  BY <1>1, ExchangePermutes, PermutesTrans DEF ComparedTo
<1> HIDE DEF u
<1>4. \A k \in 1..Len(t) : t[k].priority \in Int /\ u[k].priority \in Int
  BY <1>1, <1>2 DEF Ranked
<1>5. OrderedUpTo(u, i - 1)
  <2>1. SUFFICES ASSUME NEW a \in 1..(i - 1), NEW b \in (a + 1)..Len(u)
                 PROVE  u[a].priority <= u[b].priority
    BY DEF OrderedUpTo
  <2>2. \A k \in (a + 1)..Len(t) : t[a].priority <= t[k].priority
    BY DEF ComparedTo, OrderedUpTo
  <2>3. u[a] = t[a]  BY <1>1, <1>2
  <2>4. \E k \in (a + 1)..Len(t) : u[b] = t[k]  BY <1>1, <1>2
  <2>5. QED  BY <2>2, <2>3, <2>4
<1>6. ASSUME NEW k \in (i + 1)..m PROVE u[i].priority <= u[k].priority
  <2>1. CASE k = m  BY <1>2, <2>1
  <2>2. CASE k # m
    <3>1. k \in (i + 1)..j /\ k \in 1..Len(t) /\ i \in 1..Len(t)  BY <1>1, <2>2
    <3>2. t[i].priority <= t[k].priority  BY <3>1 DEF ComparedTo
    <3>3. u[k] = t[k]  BY <1>2, <2>2, <3>1
    <3>4. u[i].priority \in Int /\ t[i].priority \in Int /\ t[k].priority \in Int
      BY <1>4, <3>1
    <3>5. QED  BY <1>2, <3>2, <3>3, <3>4
  <2>3. QED  BY <2>1, <2>2
<1>7. QED  BY <1>3, <1>5, <1>6 DEF ComparedTo, u

\* The inner loop makes position i the least of the rest.
LEMMA InnerLoop ==
  ASSUME NEW S, Ranked(S), NEW s \in Seq(S), NEW i \in 1..Len(s), OrderedUpTo(s, i - 1)
  PROVE  Permutes(s, Compared(s, i)[Len(s)], S) /\ OrderedUpTo(Compared(s, i)[Len(s)], i)
<1> DEFINE f == Compared(s, i)
           T == {n \in Nat : n \in i..Len(s) => ComparedTo(s, i, n, f[n], S)}
<1>1. Len(s) \in Nat /\ i \in Nat \ {0}  OBVIOUS
<1>2. /\ f[i] = s
      /\ \A j \in (i + 1)..Len(s) : f[j] = Exchange(f[j - 1], i, j)
  BY ComparedRecurs
<1> HIDE DEF f
<1>3. ComparedTo(s, i, i, f[i], S)  BY <1>1, <1>2 DEF ComparedTo, Permutes
<1>4. 0 \in T  BY <1>1
<1>5. ASSUME NEW n \in Nat, n \in T PROVE n + 1 \in T
  <2>1. SUFFICES ASSUME n + 1 \in i..Len(s) PROVE ComparedTo(s, i, n + 1, f[n + 1], S)
    OBVIOUS
  <2>2. CASE n + 1 = i  BY <1>3, <2>2
  <2>3. CASE n + 1 # i
    <3>1. n \in i..Len(s) /\ i <= n /\ n + 1 <= Len(s)  BY <1>1, <2>1, <2>3
    <3>2. ComparedTo(s, i, n, f[n], S)  BY <1>5, <3>1
    <3>3. f[n + 1] = Exchange(f[n], i, n + 1)
      <4>1. n + 1 \in (i + 1)..Len(s) /\ (n + 1) - 1 = n  BY <1>1, <3>1
      <4>2. QED  BY <1>2, <4>1
    <3>4. QED  BY <1>1, <3>1, <3>2, <3>3, ExchangeCompares
  <2>4. QED  BY <2>2, <2>3
<1> HIDE DEF T
<1>6. Len(s) \in T  BY <1>1, <1>4, <1>5, SetInduction
<1>7. ComparedTo(s, i, Len(s), f[Len(s)], S)  BY <1>1, <1>6 DEF T
<1> DEFINE t == f[Len(s)]
<1>8. Len(t) = Len(s)  BY <1>7 DEF ComparedTo, Permutes
<1> HIDE DEF t
<1>9. OrderedUpTo(t, i)
  <2>1. SUFFICES ASSUME NEW a \in 1..i, NEW b \in (a + 1)..Len(t)
                 PROVE  t[a].priority <= t[b].priority
    BY DEF OrderedUpTo
  <2>2. CASE a = i  BY <1>7, <1>8, <2>2 DEF ComparedTo, t
  <2>3. CASE a # i
    <3>1. a \in 1..(i - 1)  BY <1>1, <2>3
    <3>2. QED  BY <1>7, <3>1 DEF ComparedTo, OrderedUpTo, t
  <2>4. QED  BY <2>2, <2>3
<1>10. QED  BY <1>7, <1>9 DEF ComparedTo, t, f

-----------------------------------------------------------------------------
(* The outer loop *)

\* f is given, up to n, by the recursion of Passes.
PassesBy(s, f, n) ==
  f = [i \in 0..n |-> IF i = 0 THEN s ELSE Compared(f[i - 1], i)[Len(s)]]

LEMMA PassesExist == ASSUME NEW s PROVE \A n \in Nat : \E f : PassesBy(s, f, n)
<1> DEFINE T == {n \in Nat : \E f : PassesBy(s, f, n)}
<1>1. 0 \in T
  <2>1. PassesBy(s, [i \in 0..0 |-> s], 0)  BY DEF PassesBy
  <2>2. QED  BY <2>1
<1>2. ASSUME NEW n \in Nat, n \in T PROVE n + 1 \in T
  <2>1. PICK f : PassesBy(s, f, n)  BY <1>2
  <2> DEFINE g == [i \in 0..(n + 1) |-> IF i = n + 1 THEN Compared(f[n], i)[Len(s)] ELSE f[i]]
             h == [i \in 0..(n + 1) |-> IF i = 0 THEN s ELSE Compared(g[i - 1], i)[Len(s)]]
  <2>2. ASSUME NEW i \in 0..(n + 1) PROVE g[i] = h[i]
    <3>1. CASE i = 0  BY <2>1, <3>1 DEF PassesBy
    <3>2. CASE i \in 1..n
      <4>1. f[i] = Compared(f[i - 1], i)[Len(s)]  BY <2>1, <3>2 DEF PassesBy
      <4>2. g[i] = f[i] /\ g[i - 1] = f[i - 1]  BY <3>2
      <4>3. h[i] = Compared(g[i - 1], i)[Len(s)]  BY <3>2
      <4>4. QED  BY <4>1, <4>2, <4>3
    <3>3. CASE i = n + 1
      <4>1. g[i] = Compared(f[n], i)[Len(s)] /\ g[i - 1] = f[n]  BY <3>3
      <4>2. h[i] = Compared(g[i - 1], i)[Len(s)]  BY <3>3
      <4>3. QED  BY <4>1, <4>2
    <3>4. QED  BY <3>1, <3>2, <3>3
  <2>3. g = h  BY <2>2
  <2>4. PassesBy(s, g, n + 1)  BY <2>3 DEF PassesBy
  <2>5. QED  BY <2>4
<1> HIDE DEF T
<1>3. Nat \subseteq T  BY <1>1, <1>2, SetInduction
<1>4. QED  BY <1>3 DEF T

LEMMA PassesRecur ==
  ASSUME NEW S, NEW s \in Seq(S), s # <<>>
  PROVE  /\ Len(s) \in Nat \ {0}
         /\ Passes(s)[0] = s
         /\ \A i \in 1..(Len(s) - 1) : Passes(s)[i] = Compared(Passes(s)[i - 1], i)[Len(s)]
<1>1. Len(s) \in Nat \ {0} /\ Len(s) - 1 \in Nat  OBVIOUS
<1>2. \E f : PassesBy(s, f, Len(s) - 1)  BY <1>1, PassesExist
<1>3. Passes(s) = CHOOSE f : PassesBy(s, f, Len(s) - 1)  BY DEF Passes, PassesBy
<1>4. PassesBy(s, Passes(s), Len(s) - 1)  BY <1>2, <1>3
<1>5. QED  BY <1>1, <1>4 DEF PassesBy

\* The sort orders any list by priority, and keeps what is in it.
LEMMA SortedOrders ==
  ASSUME NEW S, Ranked(S), NEW s \in Seq(S), s # <<>>
  PROVE  /\ Permutes(s, Sorted(s), S)
         /\ \A i, j \in 1..Len(s) : i < j => Sorted(s)[i].priority <= Sorted(s)[j].priority
<1> DEFINE f == Passes(s)
           Done(i) == Permutes(s, f[i], S) /\ OrderedUpTo(f[i], i)
           T == {n \in Nat : n <= Len(s) - 1 => Done(n)}
<1>1. /\ Len(s) \in Nat \ {0} /\ f[0] = s
      /\ \A i \in 1..(Len(s) - 1) : f[i] = Compared(f[i - 1], i)[Len(s)]
  BY PassesRecur
<1> HIDE DEF f
<1>2. 0 \in T
  <2>1. Permutes(s, s, S)  BY DEF Permutes
  <2>2. OrderedUpTo(s, 0)  BY DEF OrderedUpTo
  <2>3. QED  BY <1>1, <2>1, <2>2
<1>3. ASSUME NEW n \in Nat, n \in T PROVE n + 1 \in T
  <2>1. SUFFICES ASSUME n + 1 <= Len(s) - 1 PROVE Done(n + 1)  OBVIOUS
  <2>2. Permutes(s, f[n], S) /\ OrderedUpTo(f[n], n)  BY <1>1, <1>3, <2>1
  <2>3. f[n + 1] = Compared(f[n], n + 1)[Len(s)]
    <3>1. n + 1 \in 1..(Len(s) - 1) /\ (n + 1) - 1 = n  BY <1>1, <2>1
    <3>2. QED  BY <1>1, <3>1
  <2>4. f[n] \in Seq(S) /\ Len(f[n]) = Len(s)  BY <2>2 DEF Permutes
  <2>5. n + 1 \in 1..Len(f[n]) /\ (n + 1) - 1 = n  BY <1>1, <2>1, <2>4
  <2>6. Permutes(f[n], f[n + 1], S) /\ OrderedUpTo(f[n + 1], n + 1)
    BY <2>2, <2>3, <2>4, <2>5, InnerLoop
  <2>7. QED  BY <2>2, <2>6, PermutesTrans
<1> HIDE DEF T
<1>4. Len(s) - 1 \in T  BY <1>1, <1>2, <1>3, SetInduction
<1>5. Done(Len(s) - 1)  BY <1>1, <1>4 DEF T
<1>6. Sorted(s) = f[Len(s) - 1]  BY DEF Sorted, f
<1>7. Permutes(s, Sorted(s), S) /\ OrderedUpTo(Sorted(s), Len(s) - 1)  BY <1>5, <1>6
<1>8. ASSUME NEW i \in 1..Len(s), NEW j \in 1..Len(s), i < j
      PROVE  Sorted(s)[i].priority <= Sorted(s)[j].priority
  <2>1. Len(Sorted(s)) = Len(s)  BY <1>7 DEF Permutes
  <2>2. i \in 1..(Len(s) - 1) /\ j \in (i + 1)..Len(Sorted(s))  BY <1>1, <1>8, <2>1
  <2>3. QED  BY <1>7, <2>2 DEF OrderedUpTo
<1>9. QED  BY <1>7, <1>8

-----------------------------------------------------------------------------
(* The inductive invariant *)

\* What may be in the list: a policy that was added, switched on or off since.
Item == Policies \cup {[p EXCEPT !.enabled = e] : p \in Policies, e \in BOOLEAN}

InOrder == \A i, j \in DOMAIN policies : i < j => policies[i].priority <= policies[j].priority

\* How many policies of name n the list s holds.
Holds(s, n) == Cardinality({k \in 1..Len(s) : s[k].name = n})

\* The list holds each policy as often as it was added, so that the bound on
\* added follows from the bound on the list, and the order is the one that the
\* sort leaves and a switch does not disturb.
IInv ==
  /\ policies \in Seq(Item) /\ Len(policies) <= MaxPolicies
  /\ answer \in [req : Requests \cup {Nil}, backend : Backends \cup {Nil},
                 by : Names \cup {Nil}]
  /\ added \in [Names -> Nat]
  /\ \A n \in Names : Holds(policies, n) = added[n]
  /\ InOrder

LEMMA ItemFacts ==
  ASSUME NEW x \in Item
  PROVE  /\ IsPolicy(x) /\ x.name \in Names
         /\ \A e \in BOOLEAN : LET y == [x EXCEPT !.enabled = e] IN
              y \in Item /\ y.name = x.name /\ y.priority = x.priority
<1>1. \A p \in Policies : IsPolicy(p) /\ p.name \in Names  BY PoliciesAssumption DEF Names
<1>2. ASSUME NEW p, IsPolicy(p), NEW e \in BOOLEAN
      PROVE  LET y == [p EXCEPT !.enabled = e] IN
             /\ IsPolicy(y) /\ y.name = p.name /\ y.priority = p.priority
             /\ \A d \in BOOLEAN : [y EXCEPT !.enabled = d] = [p EXCEPT !.enabled = d]
  BY <1>2 DEF IsPolicy
<1>3. CASE x \in Policies
  <2>1. \A e \in BOOLEAN : [x EXCEPT !.enabled = e] \in Item  BY <1>3 DEF Item
  <2>2. QED  BY <1>1, <1>2, <1>3, <2>1
<1>4. CASE x \notin Policies
  <2>1. PICK p \in Policies, d \in BOOLEAN : x = [p EXCEPT !.enabled = d]
    BY <1>4 DEF Item
  <2>2. IsPolicy(x) /\ x.name \in Names  BY <1>1, <1>2, <2>1
  <2>3. \A e \in BOOLEAN : [x EXCEPT !.enabled = e] = [p EXCEPT !.enabled = e]
    BY <1>1, <1>2, <2>1
  <2>4. \A e \in BOOLEAN : [x EXCEPT !.enabled = e] \in Item  BY <2>3 DEF Item
  <2>5. QED  BY <1>2, <2>2, <2>4
<1>5. QED  BY <1>3, <1>4

LEMMA HoldsWithin ==
  ASSUME NEW S, NEW s \in Seq(S), NEW n
  PROVE  Holds(s, n) = Within(s, {x \in S : x.name = n})
<1>1. {k \in 1..Len(s) : s[k].name = n} = {k \in 1..Len(s) : s[k] \in {x \in S : x.name = n}}
  OBVIOUS
<1>2. QED  BY <1>1 DEF Holds, Within

LEMMA ItemsRanked == Ranked(Item)
BY ItemFacts DEF Ranked, IsPolicy

\* A list holds no more of a name than it is long.
LEMMA HoldsBound ==
  ASSUME NEW S, NEW s \in Seq(S), NEW n
  PROVE  Holds(s, n) \in Nat /\ Holds(s, n) <= Len(s)
<1> DEFINE A == {k \in 1..Len(s) : s[k].name = n}
<1>1. Len(s) \in Nat  OBVIOUS
<1>2. IsFiniteSet(1..Len(s)) /\ Cardinality(1..Len(s)) = Len(s)  BY <1>1, FS_Interval
<1>3. A \subseteq 1..Len(s)  OBVIOUS
<1> HIDE DEF A
<1>4. IsFiniteSet(A) /\ Cardinality(A) <= Cardinality(1..Len(s))  BY <1>2, <1>3, FS_Subset
<1>5. Cardinality(A) \in Nat  BY <1>4, FS_CardinalityType
<1>6. QED  BY <1>2, <1>4, <1>5 DEF A, Holds

\* One more of its name, and as many of any other.
LEMMA AppendHolds ==
  ASSUME NEW S, NEW s \in Seq(S), NEW p \in S, NEW n
  PROVE  Holds(Append(s, p), n) = IF p.name = n THEN Holds(s, n) + 1 ELSE Holds(s, n)
<1> DEFINE t == Append(s, p)
           A == {k \in 1..Len(s) : s[k].name = n}
           B == {k \in 1..Len(t) : t[k].name = n}
           m == Len(s) + 1
<1>1. Len(s) \in Nat /\ Len(t) = m /\ t[m] = p /\ \A k \in 1..Len(s) : t[k] = s[k]
  OBVIOUS
<1>2. IsFiniteSet(A)
  <2>1. IsFiniteSet(1..Len(s))  BY <1>1, FS_Interval
  <2>2. QED  BY <2>1, FS_Subset
<1> HIDE DEF t
<1>3. m \notin A  BY <1>1
<1>4. CASE p.name = n
  <2>1. B = A \cup {m}  BY <1>1, <1>4
  <2> HIDE DEF A, B, m
  <2>2. Cardinality(B) = Cardinality(A) + 1  BY <1>2, <1>3, <2>1, FS_AddElement
  <2>3. QED  BY <1>4, <2>2 DEF A, B, t, Holds
<1>5. CASE p.name # n
  <2>1. B = A  BY <1>1, <1>5
  <2>2. QED  BY <1>5, <2>1 DEF t, Holds
<1>6. QED  BY <1>4, <1>5

LEMMA NamedFacts ==
  ASSUME policies \in Seq(Item), NEW n
  PROVE  /\ Named(n) \subseteq 1..Len(policies)
         /\ Named(n) = {k \in 1..Len(policies) : policies[k].name = n}
         /\ Named(n) # {} => Min(Named(n)) \in Named(n)
<1>1. DOMAIN policies = 1..Len(policies) /\ Len(policies) \in Nat  OBVIOUS
<1>2. Named(n) \subseteq 1..Len(policies) /\ Named(n) \subseteq Nat  BY <1>1 DEF Named
<1>3. QED  BY <1>1, <1>2, MinFacts DEF Named

-----------------------------------------------------------------------------
(* The steps *)

LEMMA AddPolicyInv == ASSUME IInv, NEW p \in Policies, AddPolicy(p) PROVE IInv'
<1> DEFINE s == Append(policies, p)
<1>1. /\ p \in Item /\ p.name \in Names /\ policies \in Seq(Item) /\ Len(policies) \in Nat
      /\ Len(policies) < MaxPolicies /\ MaxPolicies \in Nat
  BY PoliciesAssumption DEF Item, Names, IInv, AddPolicy
<1>2. s \in Seq(Item) /\ s # <<>> /\ Len(s) = Len(policies) + 1  BY <1>1
<1> HIDE DEF s
<1>3. /\ Permutes(s, Sorted(s), Item)
      /\ \A i, j \in 1..Len(s) : i < j => Sorted(s)[i].priority <= Sorted(s)[j].priority
  BY <1>2, ItemsRanked, SortedOrders
<1>4. policies' = Sorted(s)  BY DEF AddPolicy, s
<1>5. policies' \in Seq(Item) /\ Len(policies') = Len(s) /\ Len(policies') <= MaxPolicies
  BY <1>1, <1>2, <1>3, <1>4 DEF Permutes
<1>6. InOrder'
  <2>1. DOMAIN policies' = 1..Len(s)  BY <1>5
  <2>2. QED  BY <1>3, <1>4, <2>1 DEF InOrder
<1>7. added' \in [Names -> Nat]  BY <1>1 DEF IInv, AddPolicy
<1>8. ASSUME NEW n \in Names PROVE Holds(policies', n) = added'[n]
  <2>1. Holds(policies', n) = Holds(s, n)
    <3>1. Sorted(s) \in Seq(Item)  BY <1>3 DEF Permutes
    <3>2. /\ Holds(Sorted(s), n) = Within(Sorted(s), {x \in Item : x.name = n})
          /\ Holds(s, n) = Within(s, {x \in Item : x.name = n})
      BY <1>2, <3>1, HoldsWithin
    <3>3. QED  BY <1>3, <1>4, <3>2 DEF Permutes
  <2>2. Holds(s, n) = IF p.name = n THEN Holds(policies, n) + 1 ELSE Holds(policies, n)
    BY <1>1, AppendHolds DEF s
  <2>3. Holds(policies, n) = added[n] /\ added \in [Names -> Nat]  BY DEF IInv
  <2>4. added' = [added EXCEPT ![p.name] = added[p.name] + 1]  BY DEF AddPolicy
  <2>5. CASE p.name = n  BY <1>1, <2>1, <2>2, <2>3, <2>4, <2>5
  <2>6. CASE p.name # n  BY <1>1, <2>1, <2>2, <2>3, <2>4, <2>6
  <2>7. QED  BY <2>5, <2>6
<1>9. (\A n \in Names : Holds(policies, n) = added[n])'  BY <1>8
<1>10. (answer \in [req : Requests \cup {Nil}, backend : Backends \cup {Nil},
                    by : Names \cup {Nil}])'
  BY DEF IInv, AddPolicy
<1>11. QED  BY <1>5, <1>6, <1>7, <1>9, <1>10 DEF IInv

\* A switch changes neither the names nor the priorities.
LEMMA EnablePolicyInv ==
  ASSUME IInv, NEW n \in Names, NEW e \in BOOLEAN, EnablePolicy(n, e)
  PROVE  IInv'
<1> DEFINE m == Min(Named(n))
           y == [policies[m] EXCEPT !.enabled = e]
<1>1. policies \in Seq(Item) /\ Len(policies) \in Nat  BY DEF IInv
<1>2. m \in 1..Len(policies)  BY <1>1, NamedFacts DEF EnablePolicy
<1>3. policies' = [policies EXCEPT ![m] = y]  BY DEF EnablePolicy
<1> HIDE DEF m
<1>4. policies[m] \in Item  BY <1>1, <1>2
<1>5. y \in Item /\ y.name = policies[m].name /\ y.priority = policies[m].priority
  BY <1>4, ItemFacts
<1> HIDE DEF y
<1>6. /\ policies' \in Seq(Item) /\ Len(policies') = Len(policies)
      /\ DOMAIN policies = 1..Len(policies) /\ DOMAIN policies' = 1..Len(policies)
      /\ policies'[m] = y /\ \A k \in 1..Len(policies) : k # m => policies'[k] = policies[k]
  BY <1>1, <1>2, <1>3, <1>5
<1>7. \A k \in 1..Len(policies) : /\ policies'[k].name = policies[k].name
                                  /\ policies'[k].priority = policies[k].priority
  BY <1>5, <1>6
<1>8. InOrder'  BY <1>6, <1>7 DEF IInv, InOrder
<1>9. ASSUME NEW a \in Names PROVE Holds(policies', a) = Holds(policies, a)
  <2>1. {k \in 1..Len(policies') : policies'[k].name = a}
          = {k \in 1..Len(policies) : policies[k].name = a}
    BY <1>6, <1>7
  <2>2. QED  BY <2>1 DEF Holds
<1>10. (\A a \in Names : Holds(policies, a) = added[a])'
  BY <1>9 DEF IInv, EnablePolicy
<1>11. (Len(policies) <= MaxPolicies)'  BY <1>6 DEF IInv
<1>12. (/\ answer \in [req : Requests \cup {Nil}, backend : Backends \cup {Nil},
                       by : Names \cup {Nil}]
        /\ added \in [Names -> Nat])'
  BY DEF IInv, EnablePolicy
<1>13. QED  BY <1>6, <1>8, <1>10, <1>11, <1>12 DEF IInv

\* A policy gives a backend of the map, or none.
LEMMA GivesABackend ==
  ASSUME NEW p, IsPolicy(p), NEW r, Decides(p, r)
  PROVE  Gives(p, r) \in Backends \cup {Nil}
<1>1. selectBackendByPolicy(p) \in Backends \cup {Nil}
  <2> DEFINE naming == {i \in DOMAIN p.rules : p.rules[i].backend \in Backends}
  <2>1. naming \subseteq Nat  BY DEF IsPolicy
  <2>2. naming # {} => Min(naming) \in naming  BY <2>1, MinFacts
  <2>3. QED  BY <2>2 DEF selectBackendByPolicy
<1>2. QED  BY <1>1 DEF Gives, Decides

\* The policy that decides is the first of those that do.
LEMMA EvaluateFacts ==
  ASSUME policies \in Seq(Item), NEW r
  PROVE  /\ EvaluateRequest(r).backend \in Backends \cup {Nil}
         /\ EvaluateRequest(r).by \in Names \cup {Nil}
         /\ Decisive(r) # {} =>
              LET m == Min(Decisive(r)) IN
              /\ m \in Decisive(r) /\ \A k \in Decisive(r) : m <= k
              /\ EvaluateRequest(r) = [by |-> policies[m].name,
                                       backend |-> Gives(policies[m], r)]
<1>1. DOMAIN policies = 1..Len(policies) /\ Len(policies) \in Nat  OBVIOUS
<1>2. CASE Decisive(r) = {}
  <2>1. EvaluateRequest(r) = [by |-> Nil, backend |-> Nil]  BY <1>2 DEF EvaluateRequest
  <2>2. QED  BY <1>2, <2>1
<1>3. CASE Decisive(r) # {}
  <2> DEFINE m == Min(Decisive(r))
  <2>1. Decisive(r) \subseteq Nat  BY <1>1 DEF Decisive
  <2>2. m \in Decisive(r) /\ \A k \in Decisive(r) : m <= k  BY <1>3, <2>1, MinFacts
  <2>3. EvaluateRequest(r) = [by |-> policies[m].name, backend |-> Gives(policies[m], r)]
    BY <1>3 DEF EvaluateRequest
  <2> HIDE DEF m
  <2>4. m \in 1..Len(policies) /\ Decides(policies[m], r)  BY <1>1, <2>2 DEF Decisive
  <2>5. policies[m] \in Item  BY <2>4
  <2>6. IsPolicy(policies[m]) /\ policies[m].name \in Names  BY <2>5, ItemFacts
  <2>7. Gives(policies[m], r) \in Backends \cup {Nil}  BY <2>4, <2>6, GivesABackend
  <2>8. QED  BY <2>2, <2>3, <2>6, <2>7 DEF m
<1>4. QED  BY <1>2, <1>3

LEMMA SelectInv ==
  ASSUME IInv, NEW r \in Requests, SelectBackendWithPolicy(r)
  PROVE  IInv'
<1>1. /\ EvaluateRequest(r).backend \in Backends \cup {Nil}
      /\ EvaluateRequest(r).by \in Names \cup {Nil}
  BY EvaluateFacts DEF IInv
<1>2. answer' \in [req : Requests \cup {Nil}, backend : Backends \cup {Nil},
                   by : Names \cup {Nil}]
  <2>1. CASE EvaluateRequest(r).backend # Nil
    BY <1>1, <2>1 DEF SelectBackendWithPolicy
  <2>2. CASE EvaluateRequest(r).backend = Nil
    BY <2>2 DEF SelectBackendWithPolicy
  <2>3. QED  BY <2>1, <2>2
<1>3. UNCHANGED <<policies, added>>  BY DEF SelectBackendWithPolicy
<1>4. QED  BY <1>2, <1>3 DEF IInv, InOrder

\* The inductive invariant holds, whatever is added, switched and asked.
THEOREM PoliciesInductive == Spec => []IInv
<1>1. ASSUME Init PROVE IInv
  <2>1. policies = <<>> /\ Len(policies) = 0 /\ <<>> \in Seq(Item)  BY <1>1 DEF Init
  <2>2. Len(policies) <= MaxPolicies  BY <2>1, PoliciesAssumption
  <2>3. answer \in [req : Requests \cup {Nil}, backend : Backends \cup {Nil},
                    by : Names \cup {Nil}]
    BY <1>1 DEF Init
  <2>4. ASSUME NEW n \in Names PROVE Holds(policies, n) = added[n]
    <3>1. {k \in 1..Len(policies) : policies[k].name = n} = {}  BY <2>1
    <3>2. Holds(policies, n) = 0  BY <3>1, FS_EmptySet DEF Holds
    <3>3. QED  BY <1>1, <3>2 DEF Init
  <2>5. QED  BY <1>1, <2>1, <2>2, <2>3, <2>4 DEF Init, IInv, InOrder
<1>2. ASSUME IInv, [Next]_vars PROVE IInv'
  <2>1. ASSUME NEW p \in Policies, AddPolicy(p) PROVE IInv'  BY <1>2, <2>1, AddPolicyInv
  <2>2. ASSUME NEW n \in Names, NEW e \in BOOLEAN, EnablePolicy(n, e) PROVE IInv'
    BY <1>2, <2>2, EnablePolicyInv
  <2>3. ASSUME NEW r \in Requests, SelectBackendWithPolicy(r) PROVE IInv'
    BY <1>2, <2>3, SelectInv
  <2>4. CASE UNCHANGED vars  BY <1>2, <2>4 DEF IInv, InOrder, vars
  <2>5. QED  BY <1>2, <2>1, <2>2, <2>3, <2>4 DEF Next
<1>3. QED  BY <1>1, <1>2, PTL DEF Spec

-----------------------------------------------------------------------------
(* The theorems *)

\* The list holds policies that were added, no more than may be, and an answer
\* is a backend of the map, or none (AddPolicy, EnablePolicy,
\* SelectBackendWithPolicy).
THEOREM PoliciesTypeCorrect == Spec => []TypeOK
<1>1. ASSUME IInv PROVE TypeOK
  <2>1. policies \in Seq(Item) /\ DOMAIN policies = 1..Len(policies)  BY <1>1 DEF IInv
  <2>2. ASSUME NEW i \in DOMAIN policies
        PROVE  IsPolicy(policies[i]) /\ policies[i].name \in Names
    <3>1. policies[i] \in Item  BY <2>1
    <3>2. QED  BY <3>1, ItemFacts
  <2>3. added \in [Names -> 0..MaxPolicies]
    <3>1. ASSUME NEW n \in Names PROVE added[n] \in 0..MaxPolicies
      <4>1. Holds(policies, n) \in Nat /\ Holds(policies, n) <= Len(policies)
        BY <2>1, HoldsBound
      <4>2. Holds(policies, n) = added[n] /\ Len(policies) <= MaxPolicies
        BY <1>1 DEF IInv
      <4>3. MaxPolicies \in Nat /\ Len(policies) \in Nat
        BY <2>1, PoliciesAssumption
      <4>4. QED  BY <4>1, <4>2, <4>3
    <3>2. QED  BY <1>1, <3>1 DEF IInv
  <2>4. QED  BY <1>1, <2>2, <2>3 DEF IInv, TypeOK
<1>2. QED  BY <1>1, PoliciesInductive, PTL

LEMMA InvOrder == IInv => PriorityOrder
<1>1. SUFFICES ASSUME IInv PROVE PriorityOrder  OBVIOUS
<1>2. policies \in Seq(Item)  BY <1>1 DEF IInv
<1>3. ASSUME NEW n \in Names PROVE Cardinality(Named(n)) = added[n]
  <2>1. Cardinality(Named(n)) = Holds(policies, n)  BY <1>2, NamedFacts DEF Holds
  <2>2. QED  BY <1>1, <2>1 DEF IInv
<1>4. QED  BY <1>1, <1>3 DEF IInv, InOrder, PriorityOrder

\* Whatever is added and switched, and in whichever order, the list holds what
\* was added, each policy as often as it was, by ascending Priority: the two
\* loops of AddPolicy sort a list of any length.
THEOREM PoliciesStaySorted == Spec => []PriorityOrder
BY PoliciesInductive, InvOrder, PTL

\* Because of the order, the first policy that decides a request is the one
\* that prevails, if one does.
LEMMA PrevailingDecides ==
  ASSUME IInv, NEW r, NEW i \in DOMAIN policies, NEW b \in Backends, Prevails(i, r, b)
  PROVE  EvaluateRequest(r) = [by |-> policies[i].name, backend |-> b]
<1>1. policies \in Seq(Item) /\ DOMAIN policies = 1..Len(policies) /\ Len(policies) \in Nat
  BY DEF IInv
<1>2. evaluatePolicy(policies[i], r) = [action |-> "redirect", backend |-> b]
  BY DEF Prevails
<1>3. Decides(policies[i], r) /\ Gives(policies[i], r) = b  BY <1>2 DEF Decides, Gives
<1>4. i \in Decisive(r)  BY <1>3 DEF Decisive, Prevails
<1> DEFINE m == Min(Decisive(r))
<1>5. /\ m \in Decisive(r) /\ \A k \in Decisive(r) : m <= k
      /\ EvaluateRequest(r) = [by |-> policies[m].name, backend |-> Gives(policies[m], r)]
  BY <1>1, <1>4, EvaluateFacts
<1> HIDE DEF m
<1>6. m \in 1..Len(policies) /\ m <= i  BY <1>1, <1>4, <1>5 DEF Decisive
<1>7. m = i
  <2>1. SUFFICES ASSUME m # i PROVE FALSE  OBVIOUS
  <2>2. m < i  BY <1>1, <1>6, <2>1
  <2>3. policies[m].priority <= policies[i].priority
    BY <1>1, <1>6, <2>2 DEF IInv, InOrder
  <2>4. policies[m].priority > policies[i].priority
    BY <1>1, <1>5, <1>6, <2>1 DEF Prevails, Decisive
  <2>5. policies[m] \in Item /\ policies[i] \in Item  BY <1>1, <1>6
  <2>6. policies[m].priority \in Int /\ policies[i].priority \in Int
    BY <2>5, ItemsRanked DEF Ranked
  <2>7. QED  BY <2>3, <2>4, <2>6
<1>8. QED  BY <1>3, <1>5, <1>7

\* A request goes where the redirecting policy that prevails sends it, and no
\* other policy takes it away.
THEOREM RedirectsAreHonoured == Spec => RedirectHonoured
<1> DEFINE r == answer'.req
           Kept == r # Nil /\ SelectBackendWithPolicy(r) =>
                     \A i \in DOMAIN policies, b \in Backends :
                       Prevails(i, r, b) => answer'.backend = b /\ answer'.by = policies[i].name
<1>1. ASSUME IInv PROVE Kept
  <2>1. SUFFICES ASSUME SelectBackendWithPolicy(r), NEW i \in DOMAIN policies,
                        NEW b \in Backends, Prevails(i, r, b)
                 PROVE  answer'.backend = b /\ answer'.by = policies[i].name
    OBVIOUS
  <2>2. EvaluateRequest(r) = [by |-> policies[i].name, backend |-> b]
    BY <1>1, <2>1, PrevailingDecides
  <2>3. b # Nil  BY PoliciesAssumption
  <2>4. answer' = [req |-> r, backend |-> b, by |-> policies[i].name]
    BY <2>1, <2>2, <2>3 DEF SelectBackendWithPolicy
  <2>5. QED  BY <2>4
<1>2. [][Kept]_vars
  => RedirectHonoured  BY DEF RedirectHonoured
<1> HIDE DEF Kept
<1>3. IInv /\ [Next]_vars => [Kept]_vars  BY <1>1
<1>4. QED  BY <1>2, <1>3, PoliciesInductive, PTL DEF Spec

-----------------------------------------------------------------------------
(* A change of the policies is local *)

\* What Decisive, EvaluateRequest, On and Tie say of a list.
DecisiveIn(s, r) == {i \in DOMAIN s : s[i].enabled /\ Decides(s[i], r)}
EvaluateIn(s, r) ==
  IF DecisiveIn(s, r) = {} THEN [by |-> Nil, backend |-> Nil]
  ELSE LET p == s[Min(DecisiveIn(s, r))] IN [by |-> p.name, backend |-> Gives(p, r)]
OnIn(s, n) == \E i \in DOMAIN s : s[i].name = n /\ s[i].enabled
TieIn(s, r) == \E i, j \in DecisiveIn(s, r) : i # j /\ s[i].priority = s[j].priority

Ordered(s) == \A i, j \in DOMAIN s : i < j => s[i].priority <= s[j].priority
Occurs(s, x) == \E k \in DOMAIN s : s[k] = x
Switched(s, t) == {m \in Names : OnIn(s, m) # OnIn(t, m)}

\* No two of the policies that may be added share a name.  AddPolicy does not
\* ask for it; EnablePolicy, which switches the first of a name, relies on it.
NamesDiffer == \A p, q \in Policies : p.name = q.name => p = q

\* Entries of one name differ in no more than being enabled.
LEMMA SameName ==
  ASSUME NamesDiffer, NEW x \in Item, NEW y \in Item, x.name = y.name, NEW r
  PROVE  /\ x.priority = y.priority
         /\ Decides(x, r) <=> Decides(y, r)
         /\ Gives(x, r) = Gives(y, r)
<1>1. ASSUME NEW z \in Item
      PROVE  \E p \in Policies : /\ z.name = p.name /\ z.priority = p.priority
                                 /\ z.type = p.type /\ z.percent = p.percent
                                 /\ z.rules = p.rules
  <2>1. CASE z \in Policies  BY <2>1
  <2>2. CASE z \notin Policies
    <3>1. PICK p \in Policies, e \in BOOLEAN : z = [p EXCEPT !.enabled = e]
      BY <2>2 DEF Item
    <3>2. IsPolicy(p)  BY PoliciesAssumption
    <3>3. QED  BY <3>1, <3>2 DEF IsPolicy
  <2>3. QED  BY <2>1, <2>2
<1>2. /\ x.priority = y.priority /\ x.type = y.type /\ x.percent = y.percent
      /\ x.rules = y.rules
  <2>1. PICK p \in Policies : /\ x.name = p.name /\ x.priority = p.priority
                              /\ x.type = p.type /\ x.percent = p.percent /\ x.rules = p.rules
    BY <1>1
  <2>2. PICK q \in Policies : /\ y.name = q.name /\ y.priority = q.priority
                              /\ y.type = q.type /\ y.percent = q.percent /\ y.rules = q.rules
    BY <1>1
  <2>3. p = q  BY <2>1, <2>2 DEF NamesDiffer
  <2>4. QED  BY <2>1, <2>2, <2>3
<1>3. Matching(x, r) = Matching(y, r)  BY <1>2 DEF Matching
<1>4. evaluatePolicy(x, r) = evaluatePolicy(y, r)  BY <1>2, <1>3 DEF evaluatePolicy
<1>5. selectBackendByPolicy(x) = selectBackendByPolicy(y)
  BY <1>2 DEF selectBackendByPolicy
<1>6. QED  BY <1>2, <1>4, <1>5 DEF Decides, Gives

LEMMA SwitchedFacts ==
  ASSUME NEW s, NEW t, NEW n \in Names, ~OnIn(s, n), OnIn(t, n),
         \A m : m # n => (OnIn(s, m) <=> OnIn(t, m))
  PROVE  Switched(s, t) = {n} /\ Switched(t, s) = {n}
<1>1. \A u, m : OnIn(u, m) \in BOOLEAN  BY DEF OnIn
<1>2. OnIn(s, n) # OnIn(t, n) /\ OnIn(t, n) # OnIn(s, n)  OBVIOUS
<1>3. \A m : m # n => OnIn(s, m) = OnIn(t, m)  BY <1>1
<1>4. QED  BY <1>2, <1>3 DEF Switched

\* x is in s, and every other entry that decides r has a larger number.
Wins(s, r, x) ==
  \E i \in DecisiveIn(s, r) :
    /\ s[i] = x
    /\ \A k \in DecisiveIn(s, r) \ {i} : s[k].priority > x.priority

LEMMA FirstOf ==
  ASSUME NEW s \in Seq(Item), NEW r, DecisiveIn(s, r) # {}
  PROVE  LET m == Min(DecisiveIn(s, r)) IN
         /\ DOMAIN s = 1..Len(s) /\ DecisiveIn(s, r) \subseteq 1..Len(s)
         /\ m \in DecisiveIn(s, r) /\ \A k \in DecisiveIn(s, r) : m <= k
<1>1. DOMAIN s = 1..Len(s) /\ Len(s) \in Nat  OBVIOUS
<1>2. DecisiveIn(s, r) \subseteq 1..Len(s) /\ DecisiveIn(s, r) \subseteq Nat
  BY <1>1 DEF DecisiveIn
<1>3. QED  BY <1>1, <1>2, MinFacts

\* Without a tie, what decides a request is what wins.
LEMMA WinnerDecides ==
  ASSUME NEW s \in Seq(Item), Ordered(s), NEW r, ~TieIn(s, r), DecisiveIn(s, r) # {}
  PROVE  \E x \in Item : /\ Wins(s, r, x)
                         /\ EvaluateIn(s, r) = [by |-> x.name, backend |-> Gives(x, r)]
<1> DEFINE m == Min(DecisiveIn(s, r))
<1>1. /\ DOMAIN s = 1..Len(s) /\ DecisiveIn(s, r) \subseteq 1..Len(s)
      /\ m \in DecisiveIn(s, r) /\ \A k \in DecisiveIn(s, r) : m <= k
  BY FirstOf
<1>2. EvaluateIn(s, r) = [by |-> s[m].name, backend |-> Gives(s[m], r)]  BY DEF EvaluateIn
<1> HIDE DEF m
<1>3. ASSUME NEW k \in DecisiveIn(s, r) \ {m} PROVE s[k].priority > s[m].priority
  <2>1. m < k  BY <1>1
  <2>2. s[m].priority <= s[k].priority  BY <1>1, <2>1 DEF Ordered
  <2>3. s[m].priority # s[k].priority  BY <1>1 DEF TieIn
  <2>4. s[m] \in Item /\ s[k] \in Item  BY <1>1
  <2>5. s[m].priority \in Int /\ s[k].priority \in Int  BY <2>4, ItemsRanked DEF Ranked
  <2>6. QED  BY <2>2, <2>3, <2>5
<1>4. Wins(s, r, s[m])  BY <1>1, <1>3 DEF Wins
<1>5. s[m] \in Item  BY <1>1
<1>6. QED  BY <1>2, <1>4, <1>5

\* Two winners that are in both lists are one.
LEMMA SameWinner ==
  ASSUME NEW s, NEW t, NEW r, NEW x \in Item, NEW y \in Item,
         Wins(s, r, x), Wins(t, r, y), Occurs(t, x), Occurs(s, y)
  PROVE  x = y
<1>1. PICK i \in DecisiveIn(s, r) :
        s[i] = x /\ \A k \in DecisiveIn(s, r) \ {i} : s[k].priority > x.priority
  BY DEF Wins
<1>2. PICK j \in DecisiveIn(t, r) :
        t[j] = y /\ \A k \in DecisiveIn(t, r) \ {j} : t[k].priority > y.priority
  BY DEF Wins
<1>3. x.enabled /\ Decides(x, r) /\ y.enabled /\ Decides(y, r)  BY <1>1, <1>2 DEF DecisiveIn
<1>4. PICK k \in DOMAIN s : s[k] = y  BY DEF Occurs
<1>5. PICK l \in DOMAIN t : t[l] = x  BY DEF Occurs
<1>6. k \in DecisiveIn(s, r) /\ l \in DecisiveIn(t, r)  BY <1>3, <1>4, <1>5 DEF DecisiveIn
<1>7. SUFFICES ASSUME x # y PROVE FALSE  OBVIOUS
<1>8. y.priority > x.priority /\ x.priority > y.priority
  BY <1>1, <1>2, <1>4, <1>5, <1>6, <1>7
<1>9. x.priority \in Int /\ y.priority \in Int  BY ItemsRanked DEF Ranked
<1>10. QED  BY <1>8, <1>9

\* An addition moves a request only to the policy added.
LEMMA AdditionIsLocal ==
  ASSUME NamesDiffer, NEW s \in Seq(Item), NEW t \in Seq(Item), Ordered(s), Ordered(t),
         NEW p \in Policies, \A x : Occurs(t, x) <=> Occurs(s, x) \/ x = p,
         NEW r, ~TieIn(s, r), ~TieIn(t, r), EvaluateIn(s, r) # EvaluateIn(t, r)
  PROVE  p.name = EvaluateIn(t, r).by /\ Switched(s, t) = {p.name}
<1>1. ASSUME NEW i \in DecisiveIn(s, r) PROVE DecisiveIn(t, r) # {}
  <2>1. Occurs(s, s[i])  BY <1>1 DEF Occurs, DecisiveIn
  <2>2. PICK k \in DOMAIN t : t[k] = s[i]  BY <2>1 DEF Occurs
  <2>3. k \in DecisiveIn(t, r)  BY <1>1, <2>2 DEF DecisiveIn
  <2>4. QED  BY <2>3
<1>2. DecisiveIn(t, r) # {}  BY <1>1 DEF EvaluateIn
<1>3. PICK y \in Item : /\ Wins(t, r, y)
                        /\ EvaluateIn(t, r) = [by |-> y.name, backend |-> Gives(y, r)]
  BY <1>2, WinnerDecides
<1>4. PICK j \in DecisiveIn(t, r) : t[j] = y  BY <1>3 DEF Wins
<1>5. y.enabled /\ Decides(y, r) /\ Occurs(t, y)  BY <1>4 DEF DecisiveIn, Occurs
<1>6. ~Occurs(s, y)
  <2>1. SUFFICES ASSUME Occurs(s, y) PROVE FALSE  OBVIOUS
  <2>2. DecisiveIn(s, r) # {}  BY <1>5, <2>1 DEF DecisiveIn, Occurs
  <2>3. PICK x \in Item : /\ Wins(s, r, x)
                          /\ EvaluateIn(s, r) = [by |-> x.name, backend |-> Gives(x, r)]
    BY <2>2, WinnerDecides
  <2>4. Occurs(s, x)  BY <2>3 DEF Wins, DecisiveIn, Occurs
  <2>5. Occurs(t, x)  BY <2>4
  <2>6. x = y  BY <1>3, <2>1, <2>3, <2>5, SameWinner
  <2>7. QED  BY <1>3, <2>3, <2>6
<1>7. y = p  BY <1>5, <1>6
<1>8. p \in Item /\ p.name \in Names  BY DEF Item, Names
<1>9. ~OnIn(s, p.name)
  <2>1. SUFFICES ASSUME NEW k \in DOMAIN s, s[k].name = p.name, s[k].enabled PROVE FALSE
    BY DEF OnIn
  <2>2. s[k] \in Item /\ Occurs(s, s[k])  BY <2>1 DEF Occurs
  <2>3. s[k].priority = p.priority /\ Decides(s[k], r)
    BY <1>5, <1>7, <1>8, <2>1, <2>2, SameName
  <2>4. s[k] # p  BY <1>6, <1>7, <2>2
  <2>5. PICK l \in DOMAIN t : t[l] = s[k]  BY <2>2 DEF Occurs
  <2>6. l \in DecisiveIn(t, r) /\ l # j /\ t[l].priority = t[j].priority
    BY <1>4, <1>7, <2>1, <2>3, <2>4, <2>5 DEF DecisiveIn
  <2>7. QED  BY <1>4, <2>6 DEF TieIn
<1>10. OnIn(t, p.name)  BY <1>4, <1>5, <1>7 DEF OnIn, DecisiveIn
<1>11. ASSUME NEW m, m # p.name PROVE OnIn(s, m) <=> OnIn(t, m)
  <2>1. \A u : OnIn(u, m) <=> \E x : Occurs(u, x) /\ x.name = m /\ x.enabled
    BY DEF OnIn, Occurs
  <2>2. QED  BY <1>11, <2>1
<1>12. QED  BY <1>3, <1>7, <1>8, <1>9, <1>10, <1>11, SwitchedFacts

\* t is s with entry k switched on, where it decides r.
LEMMA SwitchIsLocal ==
  ASSUME NamesDiffer, NEW s \in Seq(Item), NEW t \in Seq(Item), Len(s) = Len(t),
         NEW k \in 1..Len(s), s[k].name = t[k].name,
         \A i \in 1..Len(s) : i # k => s[i] = t[i],
         NEW r, k \in DecisiveIn(t, r), k \notin DecisiveIn(s, r),
         ~TieIn(t, r), EvaluateIn(s, r) # EvaluateIn(t, r)
  PROVE  /\ t[k].name = EvaluateIn(t, r).by
         /\ Switched(s, t) = {t[k].name} /\ Switched(t, s) = {t[k].name}
<1> DEFINE n == t[k].name
           m == Min(DecisiveIn(t, r))
<1>1. /\ DOMAIN t = 1..Len(s) /\ DecisiveIn(t, r) \subseteq 1..Len(s)
      /\ m \in DecisiveIn(t, r) /\ \A i \in DecisiveIn(t, r) : m <= i
  BY FirstOf
<1>2. EvaluateIn(t, r) = [by |-> t[m].name, backend |-> Gives(t[m], r)]  BY DEF EvaluateIn
<1> HIDE DEF m
<1>3. DOMAIN s = 1..Len(s)  OBVIOUS
<1>4. DecisiveIn(s, r) = DecisiveIn(t, r) \ {k}
  <2>1. \A i \in 1..Len(s) : i # k => (i \in DecisiveIn(s, r) <=> i \in DecisiveIn(t, r))
    BY <1>1, <1>3 DEF DecisiveIn
  <2>2. DecisiveIn(s, r) \subseteq 1..Len(s)  BY <1>3 DEF DecisiveIn
  <2>3. QED  BY <1>1, <2>1, <2>2
<1>5. m = k
  <2>1. SUFFICES ASSUME m # k PROVE FALSE  OBVIOUS
  <2>2. m \in DecisiveIn(s, r)  BY <1>1, <1>4, <2>1
  <2> DEFINE l == Min(DecisiveIn(s, r))
  <2>3. l \in DecisiveIn(s, r) /\ \A i \in DecisiveIn(s, r) : l <= i  BY <2>2, FirstOf
  <2>4. EvaluateIn(s, r) = [by |-> s[l].name, backend |-> Gives(s[l], r)]
    BY <2>2 DEF EvaluateIn
  <2> HIDE DEF l
  <2>5. l = m  BY <1>1, <1>4, <2>2, <2>3
  <2>6. s[m] = t[m]  BY <1>1, <2>1
  <2>7. QED  BY <1>2, <2>4, <2>5, <2>6
<1>6. t[k] \in Item /\ s[k] \in Item /\ Decides(t[k], r) /\ t[k].enabled
  BY DEF DecisiveIn
<1>7. n \in Names  BY <1>6, ItemFacts
<1>8. ~s[k].enabled
  <2>1. Decides(s[k], r)  BY <1>6, SameName
  <2>2. QED  BY <1>3, <2>1 DEF DecisiveIn
<1>9. ~OnIn(s, n)
  <2>1. SUFFICES ASSUME NEW j \in DOMAIN s, s[j].name = n, s[j].enabled PROVE FALSE
    BY DEF OnIn
  <2>2. j \in 1..Len(s) /\ j # k  BY <1>3, <1>8, <2>1
  <2>3. s[j] \in Item /\ s[j] = t[j]  BY <2>2
  <2>4. s[j].priority = t[k].priority /\ Decides(s[j], r)  BY <1>6, <2>1, <2>3, SameName
  <2>5. j \in DecisiveIn(s, r)  BY <2>1, <2>4 DEF DecisiveIn
  <2>6. j \in DecisiveIn(t, r) /\ t[j].priority = t[k].priority
    BY <1>4, <2>3, <2>4, <2>5
  <2>7. QED  BY <2>2, <2>6 DEF TieIn
<1>10. OnIn(t, n)  BY <1>1, <1>6 DEF OnIn
<1>11. ASSUME NEW a, a # n PROVE OnIn(s, a) <=> OnIn(t, a)
  BY <1>1, <1>3, <1>11 DEF OnIn
<1>12. QED  BY <1>2, <1>5, <1>7, <1>9, <1>10, <1>11, SwitchedFacts

LEMMA PermutesOccurs ==
  ASSUME NEW S, NEW s \in Seq(S), NEW t, Permutes(s, t, S), NEW x
  PROVE  Occurs(t, x) <=> Occurs(s, x)
<1>1. ASSUME NEW u \in Seq(S) PROVE Within(u, {x}) = 0 <=> ~Occurs(u, x)
  <2> DEFINE A == {k \in 1..Len(u) : u[k] \in {x}}
  <2>1. DOMAIN u = 1..Len(u) /\ Len(u) \in Nat  OBVIOUS
  <2>2. IsFiniteSet(1..Len(u))  BY <2>1, FS_Interval
  <2>3. IsFiniteSet(A)  BY <2>2, FS_Subset
  <2>4. A = {} <=> ~Occurs(u, x)  BY <2>1 DEF Occurs
  <2> HIDE DEF A
  <2>5. Cardinality(A) = 0 <=> A = {}  BY <2>3, FS_EmptySet
  <2>6. QED  BY <2>4, <2>5 DEF A, Within
<1>2. t \in Seq(S) /\ Within(t, {x}) = Within(s, {x})  BY DEF Permutes
<1>3. Occurs(t, x) \in BOOLEAN /\ Occurs(s, x) \in BOOLEAN  BY DEF Occurs
<1>4. QED  BY <1>1, <1>2, <1>3

\* The change of one step, for a request that no two policies of one Priority
\* decide before it or after it.
Local(s, t, r) ==
  \/ EvaluateIn(t, r) = EvaluateIn(s, r)
  \/ \E n \in {EvaluateIn(s, r).by, EvaluateIn(t, r).by} : Switched(s, t) = {n}
  \/ TieIn(s, r) \/ TieIn(t, r)

LEMMA AddPolicyLocal ==
  ASSUME NamesDiffer, IInv, IInv', NEW p \in Policies, AddPolicy(p), NEW r
  PROVE  Local(policies, policies', r)
<1> DEFINE s == Append(policies, p)
<1>1. /\ policies \in Seq(Item) /\ Len(policies) \in Nat /\ p \in Item
      /\ DOMAIN policies = 1..Len(policies)
  BY DEF IInv, Item
<1>2. /\ s \in Seq(Item) /\ s # <<>> /\ DOMAIN s = 1..(Len(policies) + 1)
      /\ s[Len(policies) + 1] = p /\ \A k \in 1..Len(policies) : s[k] = policies[k]
  BY <1>1
<1> HIDE DEF s
<1>3. policies' = Sorted(s) /\ Permutes(s, Sorted(s), Item)
  BY <1>2, ItemsRanked, SortedOrders DEF AddPolicy, s
<1>4. ASSUME NEW x PROVE Occurs(policies', x) <=> Occurs(policies, x) \/ x = p
  <2>1. Occurs(policies', x) <=> Occurs(s, x)  BY <1>2, <1>3, PermutesOccurs
  <2>2. Occurs(s, x) <=> Occurs(policies, x) \/ x = p  BY <1>1, <1>2 DEF Occurs
  <2>3. QED  BY <2>1, <2>2
<1>5. policies' \in Seq(Item)  BY <1>3 DEF Permutes
<1>6. Ordered(policies) /\ Ordered(policies')  BY DEF IInv, InOrder, Ordered
<1> DEFINE t == policies'
<1>7. /\ t \in Seq(Item) /\ Ordered(t)
      /\ \A x : Occurs(t, x) <=> Occurs(policies, x) \/ x = p
  BY <1>4, <1>5, <1>6
<1> HIDE DEF t
<1>8. ASSUME ~TieIn(policies, r), ~TieIn(t, r), EvaluateIn(policies, r) # EvaluateIn(t, r)
      PROVE  p.name = EvaluateIn(t, r).by /\ Switched(policies, t) = {p.name}
  BY <1>1, <1>6, <1>7, <1>8, AdditionIsLocal
<1>9. Local(policies, t, r)  BY <1>8 DEF Local
<1>10. QED  BY <1>9 DEF t

LEMMA EnablePolicyLocal ==
  ASSUME NamesDiffer, IInv, IInv', NEW n \in Names, NEW e \in BOOLEAN, EnablePolicy(n, e), NEW r
  PROVE  Local(policies, policies', r)
<1> DEFINE k == Min(Named(n))
           y == [policies[k] EXCEPT !.enabled = e]
           s == policies
           t == policies'
<1>1. s \in Seq(Item) /\ t \in Seq(Item)  BY DEF IInv
<1>2. k \in 1..Len(s)  BY <1>1, NamedFacts DEF EnablePolicy
<1>3. t = [s EXCEPT ![k] = y]  BY DEF EnablePolicy
<1> HIDE DEF k, s, t
<1>4. s[k] \in Item  BY <1>1, <1>2
<1>5. y \in Item /\ y.name = s[k].name  BY <1>4, ItemFacts DEF s
<1> HIDE DEF y
<1>6. /\ Len(t) = Len(s) /\ t[k] = y /\ \A i \in 1..Len(s) : i # k => s[i] = t[i]
      /\ DOMAIN s = 1..Len(s) /\ DOMAIN t = 1..Len(s)
  BY <1>1, <1>2, <1>3
<1>7. SUFFICES ASSUME ~TieIn(s, r), ~TieIn(t, r), EvaluateIn(s, r) # EvaluateIn(t, r)
               PROVE  \E a \in {EvaluateIn(s, r).by, EvaluateIn(t, r).by} : Switched(s, t) = {a}
  BY DEF Local, s, t
<1>8. CASE k \in DecisiveIn(t, r) /\ k \notin DecisiveIn(s, r)
  <2>1. y.name = EvaluateIn(t, r).by /\ Switched(s, t) = {y.name}
    BY <1>1, <1>2, <1>5, <1>6, <1>7, <1>8, SwitchIsLocal
  <2>2. QED  BY <2>1
<1>9. CASE k \in DecisiveIn(s, r) /\ k \notin DecisiveIn(t, r)
  <2>1. k \in 1..Len(t) /\ \A i \in 1..Len(t) : i # k => t[i] = s[i]  BY <1>2, <1>6
  <2>2. s[k].name = EvaluateIn(s, r).by /\ Switched(s, t) = {s[k].name}
    BY <1>1, <1>5, <1>6, <1>7, <1>9, <2>1, SwitchIsLocal
  <2>3. QED  BY <2>2
<1>10. CASE k \in DecisiveIn(s, r) <=> k \in DecisiveIn(t, r)
  <2>1. DecisiveIn(s, r) = DecisiveIn(t, r)
    <3>1. DecisiveIn(s, r) \subseteq 1..Len(s) /\ DecisiveIn(t, r) \subseteq 1..Len(s)
      BY <1>6 DEF DecisiveIn
    <3>2. \A i \in 1..Len(s) : i # k => (i \in DecisiveIn(s, r) <=> i \in DecisiveIn(t, r))
      BY <1>6 DEF DecisiveIn
    <3>3. QED  BY <1>10, <3>1, <3>2
  <2>2. CASE DecisiveIn(s, r) = {}  BY <1>7, <2>1, <2>2 DEF EvaluateIn
  <2>3. CASE DecisiveIn(s, r) # {}
    <3> DEFINE m == Min(DecisiveIn(s, r))
    <3>1. m \in 1..Len(s)  BY <1>1, <2>3, FirstOf
    <3>2. EvaluateIn(s, r) = [by |-> s[m].name, backend |-> Gives(s[m], r)]
      BY <2>3 DEF EvaluateIn
    <3>3. EvaluateIn(t, r) = [by |-> t[m].name, backend |-> Gives(t[m], r)]
      BY <2>1, <2>3 DEF EvaluateIn
    <3> HIDE DEF m
    <3>4. s[m] \in Item /\ t[m] \in Item /\ s[m].name = t[m].name
      BY <1>1, <1>4, <1>5, <1>6, <3>1
    <3>5. Gives(s[m], r) = Gives(t[m], r)  BY <3>4, SameName
    <3>6. QED  BY <1>7, <3>2, <3>3, <3>4, <3>5
  <2>4. QED  BY <2>2, <2>3
<1>11. QED  BY <1>8, <1>9, <1>10

\* If policies are told apart by their names, adding one or switching one moves
\* no request but those that it takes or gives up, ties of Priority excepted.
THEOREM PolicyChangesAreLocal == NamesDiffer => (Spec => ChangesAreLocal)
<1> SUFFICES ASSUME NamesDiffer PROVE Spec => ChangesAreLocal  OBVIOUS
<1> DEFINE OneLocal(r) == LET old == EvaluateRequest(r)  new == EvaluateRequest(r)' IN
                          \/ new = old
                          \/ \E n \in {old.by, new.by} : {m \in Names : On(m) # On(m)'} = {n}
                          \/ Tie(r) \/ Tie(r)'
           AllLocal == policies' # policies => \A r \in Requests : OneLocal(r)
<1>1. ASSUME IInv, IInv', Next PROVE AllLocal
  <2>1. SUFFICES ASSUME policies' # policies, NEW r \in Requests PROVE OneLocal(r)  OBVIOUS
  <2>2. Local(policies, policies', r)
    <3>1. ASSUME NEW p \in Policies, AddPolicy(p) PROVE Local(policies, policies', r)
      BY <1>1, <3>1, AddPolicyLocal
    <3>2. ASSUME NEW n \in Names, NEW e \in BOOLEAN, EnablePolicy(n, e)
          PROVE  Local(policies, policies', r)
      BY <1>1, <3>2, EnablePolicyLocal
    <3>3. ~(\E q \in Requests : SelectBackendWithPolicy(q))
      BY <2>1 DEF SelectBackendWithPolicy
    <3>4. QED  BY <1>1, <3>1, <3>2, <3>3 DEF Next
  <2>3. Decisive(r) = DecisiveIn(policies, r) /\ Decisive(r)' = DecisiveIn(policies', r)
    BY DEF Decisive, DecisiveIn
  <2>4. /\ EvaluateRequest(r) = EvaluateIn(policies, r)
        /\ EvaluateRequest(r)' = EvaluateIn(policies', r)
    BY <2>3 DEF EvaluateRequest, EvaluateIn
  <2>5. (Tie(r) <=> TieIn(policies, r)) /\ (Tie(r)' <=> TieIn(policies', r))
    BY <2>3 DEF Tie, TieIn
  <2>6. {m \in Names : On(m) # On(m)'} = Switched(policies, policies')
    <3>1. ASSUME NEW m PROVE On(m) = OnIn(policies, m) /\ On(m)' = OnIn(policies', m)
      BY DEF On, OnIn, Named
    <3>2. QED  BY <3>1 DEF Switched
  <2>7. QED  BY <2>2, <2>4, <2>5, <2>6 DEF Local
<1>2. [][AllLocal]_vars => ChangesAreLocal  BY DEF ChangesAreLocal
<1> HIDE DEF AllLocal
<1>3. IInv /\ IInv' /\ [Next]_vars => [AllLocal]_vars  BY <1>1
<1>4. QED  BY <1>2, <1>3, PoliciesInductive, PTL DEF Spec

=============================================================================
