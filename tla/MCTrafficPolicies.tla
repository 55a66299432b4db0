-------------------------- MODULE MCTrafficPolicies ---------------------------
(***************************************************************************)
(* The policies main adds, and others that the engine allows: a denial with *)
(* the priority of one of main's, a redirect to a backend that is not in    *)
(* the pool, and a default.  Requests: from us-east, from asia, with        *)
(* X-API-Version v2, and of a premium client, whose bucket is one of the    *)
(* canary's.                                                                *)
(***************************************************************************)
EXTENDS TrafficPolicies, TLC

CONSTANTS useast, asia, v2, premium, b8081, b8083

R(on, action, backend) == [on |-> {on}, action |-> action, backend |-> backend]

P(name, type, priority, percent, rules) ==
  [name |-> name, type |-> type, priority |-> priority, percent |-> percent,
   rules |-> rules, enabled |-> TRUE]

Geo    == P("geo", "geo", 100, 0, <<R(useast, "allow", Nil), R(asia, "redirect", b8083)>>)
Header == P("header", "header", 90, 0, <<R(v2, "allow", Nil), R(premium, "redirect", b8081)>>)
Canary == P("canary", "canary", 80, 30, <<R(v2, "allow", Nil)>>)
Deny   == P("deny", "path", 90, 0, <<R(premium, "deny", Nil), R(asia, "redirect", b8081)>>)
Lost   == P("lost", "header", 70, 0, <<R(asia, "redirect", Unknown)>>)

MCPolicies == {Geo, Header, Canary, Deny, Lost}
MainOnly   == {Geo, Header, Canary}

MCBucket == useast :> 50 @@ asia :> 30 @@ v2 :> 99 @@ premium :> 29

=============================================================================
