------------------------------- MODULE MCServer -------------------------------
(* Who may call the server: one account with a control token, which may expire;*)
(* or the tenants, of which two are there and a third may be founded.         *)
EXTENDS Access, Tenants, TLC

CONSTANTS u1, token, main, acme, beta, ann, bob, n1, n2

VARIABLE part  \* which of the two this behaviour is about

OneOwner == token :> u1
Lifetimes == token :> 1
JoinedIn == {<<main, ann>>, <<main, bob>>, <<acme, ann>>}
IssuedKeys == {[home |-> main, user |-> bob], [home |-> acme, user |-> ann]}
OneProject == main :> 0 @@ acme :> 1
OneEdge == main :> 1 @@ acme :> 1
Symmetry == Permutations(Workers) \cup Permutations(Handlers) \cup Permutations({n1, n2})

ServerInit ==
  /\ Init /\ TenantsInit
  /\ part \in {"access", "tenants"}
  /\ part = "tenants" => DOMAIN tokens = {}

ServerNext ==
  /\ UNCHANGED part
  /\ \/ part = "access" /\ Next /\ UNCHANGED tenantVars
     \/ part = "tenants" /\ TenantsNext /\ UNCHANGED vars

ServerSpec == ServerInit /\ [][ServerNext]_<<part, vars, tenantVars>>
==============================================================================
