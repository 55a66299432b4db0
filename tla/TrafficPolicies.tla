--------------------------- MODULE TrafficPolicies ----------------------------
(***************************************************************************)
(* TrafficPolicyEngine of loadbalancer/trafficpolicies.go, and             *)
(* SelectBackendWithPolicy, through which lbHandler asks it (for a request *)
(* whose session ID is empty).  AddPolicy and EnablePolicy hold the mutex  *)
(* for writing and EvaluateRequest for reading, each as a whole, so each   *)
(* is one step.                                                            *)
(*                                                                         *)
(* A rule is the set of requests its field, operator and value match, with *)
(* what it says to do with them; Requests are as many as those sets tell   *)
(* apart.                                                                  *)
(***************************************************************************)
EXTENDS Integers, Sequences, FiniteSetsExt

CONSTANTS
  Requests,
  Bucket,       \* Bucket[r]: hashRequest(r) % 100
  Backends,     \* the keys of backendMap, by the backend they stand for
  Unknown,      \* a URL that is not in backendMap
  Nil,          \* no backend, no URL, no policy
  Policies,     \* policies that may be added
  MaxPolicies   \* bound: policies added

PolicyType == {"header", "geo", "path", "canary", "default"}

Rule == [on : SUBSET Requests, action : {"allow", "deny", "redirect"},
         backend : Backends \cup {Unknown, Nil}]

\* rules in order; percent is Conditions.PercentageTraffic.
IsPolicy(p) ==
  /\ DOMAIN p = {"name", "type", "priority", "percent", "rules", "enabled"}
  /\ p.type \in PolicyType
  /\ p.priority \in Int /\ p.percent \in Int /\ p.enabled \in BOOLEAN
  /\ p.rules \in Seq(Rule)

ASSUME PoliciesAssumption ==
  /\ Bucket \in [Requests -> 0..99]
  /\ Nil \notin Backends /\ Unknown \notin Backends /\ Nil # Unknown
  /\ \A p \in Policies : IsPolicy(p)
  /\ MaxPolicies \in Nat

VARIABLES
  policies,   \* TrafficPolicyEngine.policies
  answer,     \* history: the last request routed, where, and by which policy
  added       \* history: added[n]: how often a policy of name n was added

vars == <<policies, answer, added>>

Names == {p.name : p \in Policies}

TypeOK ==
  /\ \A i \in DOMAIN policies : IsPolicy(policies[i]) /\ policies[i].name \in Names
  /\ Len(policies) <= MaxPolicies
  /\ answer \in [req : Requests \cup {Nil}, backend : Backends \cup {Nil},
                 by : Names \cup {Nil}]
  /\ added \in [Names -> 0..MaxPolicies]

Init ==
  /\ policies = <<>>
  /\ answer = [req |-> Nil, backend |-> Nil, by |-> Nil]
  /\ added = [n \in Names |-> 0]

-----------------------------------------------------------------------------
(* The order of the policies *)

Exchange(s, i, j) ==
  IF s[i].priority > s[j].priority
  THEN [s EXCEPT ![i] = s[j], ![j] = s[i]]
  ELSE s

SortedOnePass(s) ==  \* mutant: only neighbours are compared, once
  LET pass[i \in 0..(Len(s) - 1)] == IF i = 0 THEN s ELSE Exchange(pass[i - 1], i, i + 1)
  IN  pass[Len(s) - 1]

\* The inner loop of AddPolicy for position i: the list after i was compared
\* with every position up to j.
Compared(s, i) ==
  LET upto[j \in i..Len(s)] == IF j = i THEN s ELSE Exchange(upto[j - 1], i, j)
  IN  upto

\* The exchange sort of AddPolicy.  It is not stable: an exchange over a
\* distance may carry a policy past another of the same priority.
Passes(s) ==
  LET upto[i \in 0..(Len(s) - 1)] ==
        IF i = 0 THEN s ELSE Compared(upto[i - 1], i)[Len(s)]
  IN  upto

Sorted(s) == Passes(s)[Len(s) - 1]

AddPolicy(p) ==
  /\ Len(policies) < MaxPolicies
  /\ policies' = Sorted(Append(policies, p))
  /\ added' = [added EXCEPT ![p.name] = @ + 1]
  /\ UNCHANGED answer

Named(n) == {i \in DOMAIN policies : policies[i].name = n}

EnableByPriority(n, enabled) ==  \* mutant: by priority, so that another is switched too
  /\ Named(n) # {}
  /\ policies' = [i \in DOMAIN policies |->
       IF policies[i].priority = policies[Min(Named(n))].priority
       THEN [policies[i] EXCEPT !.enabled = enabled] ELSE policies[i]]
  /\ UNCHANGED <<answer, added>>

\* The first policy of that name is switched; without one, nothing is.
EnablePolicy(n, enabled) ==
  /\ Named(n) # {}
  /\ policies' = [policies EXCEPT ![Min(Named(n))].enabled = enabled]
  /\ UNCHANGED <<answer, added>>

-----------------------------------------------------------------------------
(* The evaluation of a request *)

\* The rules of p that match r, by position.
Matching(p, r) == {i \in DOMAIN p.rules : r \in p.rules[i].on}

\* What evaluatePolicy returns: the action and the URL, or NoMatch.  A canary
\* or default policy matches without looking at its rules.
NoMatch == [action |-> "none", backend |-> Nil]
Allow   == [action |-> "allow", backend |-> Nil]

evaluatePolicy(p, r) ==
  IF p.type = "default" \/ (p.type = "canary" /\ Bucket[r] < p.percent) THEN Allow
  ELSE IF p.type = "canary" \/ Matching(p, r) = {} THEN NoMatch
  ELSE LET rule == p.rules[Min(Matching(p, r))] IN
       [action |-> rule.action, backend |-> rule.backend]

DecidesAnyRedirect(p, r) ==  \* mutant: an unknown target ends the evaluation
  evaluatePolicy(p, r).action # "none"

\* The evaluation stops at p: a redirect to a backend that is not in the map
\* does not stop it.
Decides(p, r) ==
  LET e == evaluatePolicy(p, r) IN
  \/ e.action \in {"allow", "deny"}
  \/ e.action = "redirect" /\ e.backend \in Backends

\* The first rule that names a known backend, whether or not it matched.
selectBackendByPolicy(p) ==
  LET naming == {i \in DOMAIN p.rules : p.rules[i].backend \in Backends} IN
  IF naming = {} THEN Nil ELSE p.rules[Min(naming)].backend

\* What policy p gives to a request it decides; a denial is an error and gives
\* none.
Gives(p, r) ==
  LET e == evaluatePolicy(p, r) IN
  IF e.action = "redirect" THEN e.backend
  ELSE IF e.action = "allow" THEN selectBackendByPolicy(p)
  ELSE Nil

DecisiveDisabled(r) ==  \* mutant: Enabled is not looked at
  {i \in DOMAIN policies : Decides(policies[i], r)}

\* The enabled policies that decide r; EvaluateRequest stops at the first.
Decisive(r) == {i \in DOMAIN policies : policies[i].enabled /\ Decides(policies[i], r)}

\* EvaluateRequest: the policy that decided, if any, and the backend it gives.
EvaluateRequest(r) ==
  IF Decisive(r) = {} THEN [by |-> Nil, backend |-> Nil]
  ELSE LET p == policies[Min(Decisive(r))] IN [by |-> p.name, backend |-> Gives(p, r)]

\* SelectBackendWithPolicy: a policy's backend is taken as it is, alive or not.
\* An error and a missing backend both fall back to GetNextPeerWeighted, which
\* returns some backend, or nil (ServerPool has its choice).
SelectBackendWithPolicy(r) ==
  LET e == EvaluateRequest(r) IN
  /\ IF e.backend # Nil
     THEN answer' = [req |-> r, backend |-> e.backend, by |-> e.by]
     ELSE \E b \in Backends \cup {Nil} : answer' = [req |-> r, backend |-> b, by |-> Nil]
  /\ UNCHANGED <<policies, added>>

Next ==
  \/ \E p \in Policies : AddPolicy(p)
  \/ \E n \in Names, enabled \in BOOLEAN : EnablePolicy(n, enabled)
  \/ \E r \in Requests : SelectBackendWithPolicy(r)

Spec == Init /\ [][Next]_vars

-----------------------------------------------------------------------------
(* Properties *)

\* After any sequence of additions and switches the policies are those added,
\* each as often as it was, in ascending order of the number Priority
\* (AddPolicy): of two policies the one with the smaller number comes first.
PriorityOrder ==
  /\ \A n \in Names : Cardinality(Named(n)) = added[n]
  /\ \A i, j \in DOMAIN policies : i < j => policies[i].priority <= policies[j].priority

\* Policy i redirects r to backend b and no enabled policy that also decides r
\* has a Priority as small.
Prevails(i, r, b) ==
  /\ policies[i].enabled
  /\ evaluatePolicy(policies[i], r) = [action |-> "redirect", backend |-> b]
  /\ \A j \in DOMAIN policies \ {i} :
       policies[j].enabled /\ Decides(policies[j], r)
         => policies[j].priority > policies[i].priority

\* A request goes where the redirecting policy that prevails sends it: none of
\* a larger number, none that is disabled, and none of a smaller number whose
\* redirect leads nowhere, takes it away (EvaluateRequest,
\* SelectBackendWithPolicy).
RedirectHonoured ==
  [][LET r == answer'.req IN
     r # Nil /\ SelectBackendWithPolicy(r) =>
       \A i \in DOMAIN policies, b \in Backends :
         Prevails(i, r, b) => answer'.backend = b /\ answer'.by = policies[i].name]_vars

\* Two enabled policies of one Priority decide r.
Tie(r) ==
  \E i, j \in Decisive(r) : i # j /\ policies[i].priority = policies[j].priority

On(n) == \E i \in Named(n) : policies[i].enabled

\* A change of the policies switches one of them on or off, by adding it or by
\* EnablePolicy, and moves a request only from that policy or to it.  Not so
\* for a request that two policies of one Priority decide: an unrelated
\* addition may hand it to the other of the two, as the sort is not stable.
ChangesAreLocal ==
  [][policies' # policies =>
       \A r \in Requests :
         LET old == EvaluateRequest(r)  new == EvaluateRequest(r)' IN
         \/ new = old
         \/ \E n \in {old.by, new.by} : {m \in Names : On(m) # On(m)'} = {n}
         \/ Tie(r) \/ Tie(r)']_vars

-----------------------------------------------------------------------------
(* What a comment says and the code does not do *)

\* trafficpolicies.go:43: the backend of a rule is the "specific backend when
\* action is redirect", so a policy sends a request to a backend only by a rule
\* that matches the request and redirects it there.
BackendOnlyOnRedirect ==
  [][LET r == answer'.req IN
     r # Nil /\ SelectBackendWithPolicy(r) /\ answer'.by # Nil =>
       \E i \in DOMAIN policies : \E k \in Matching(policies[i], r) :
         /\ policies[i].name = answer'.by
         /\ policies[i].rules[k].action = "redirect"
         /\ policies[i].rules[k].backend = answer'.backend]_vars

=============================================================================
