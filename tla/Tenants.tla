-------------------------------- MODULE Tenants --------------------------------
(***************************************************************************)
(* The tenants of a server: tenants with their workspaces and members, the *)
(* choice of both by the headers of a request, API keys that belong to a   *)
(* tenant, projects with their privacy policy and quota, and the runtime   *)
(* edges between projects (internal/store/tenants.go and runtime.go,       *)
(* internal/server, internal/webadmin).                                    *)
(*                                                                         *)
(* A request is served by a handler that takes one step per statement: the *)
(* headers are resolved once and what they said is used to the end.  A row *)
(* of a project carries the number of the request that inserted it.        *)
(***************************************************************************)
EXTENDS Integers, FiniteSets

CONSTANTS
  Handlers,   \* goroutines that serve requests
  Main,       \* tenant.DefaultID
  Founded,    \* tenants that existed when migration 00023 ran, Main among them
  Slugs,      \* all the tenants there may be
  Spaces,     \* slugs of workspaces, "default" among them
  Titles,     \* names of projects
  People,     \* users
  Nobody,     \* the user of a token made without one
  Roots,      \* users whose role is admin
  Joined,     \* rows of tenant_memberships the migration wrote
  Issued,     \* API keys issued before: their tenant and user
  MaxProjects, MaxEdges, \* tenant_quotas of Founded: 0 is unlimited
  MaxCalls,   \* bound: requests
  MaxBroken   \* bound: statements that fail

NoSlug == "none"   \* a header that is absent

ASSUME TenantsAssumption ==
  /\ NoSlug \notin Slugs
  /\ IsFiniteSet(Handlers)
  /\ Main \in Founded /\ Founded \subseteq Slugs
  /\ "default" \in Spaces /\ Nobody \notin People /\ Roots \subseteq People
  /\ Joined \subseteq Founded \X People
  /\ Issued \subseteq [home : Founded, user : People \cup {Nobody}]
  /\ \A k \in Issued : k.home = Main \/ <<k.home, k.user>> \in Joined
  /\ MaxProjects \in [Founded -> Nat] /\ MaxEdges \in [Founded -> Nat]
  /\ MaxCalls \in Nat /\ MaxBroken \in Nat

VARIABLES
  tenants,    \* rows of tenants
  spaces,     \* rows of workspaces
  members,    \* rows of tenant_memberships
  keys,       \* rows of api_tokens
  projects,   \* rows of projects
  edges,      \* rows of runtime_edges
  calls,      \* what each handler does
  served, broken

tenantVars == <<tenants, spaces, members, keys, projects, edges, calls, served, broken>>

Modes == {"hybrid", "edge"}   \* "cloud" differs from "hybrid" in the ordinary files only
Operations == {"tenant", "space", "project", "policy", "drop", "edges", "key"}
Waiting == [st |-> "idle", id |-> 0, op |-> "tenant", web |-> FALSE, user |-> Nobody, tenant |-> Main,
            asked |-> NoSlug, space |-> "default", name |-> NoSlug, row |-> 0, other |-> 0]

TenantsInit ==
  /\ tenants = Founded
  /\ spaces = Founded \X {"default"}
  /\ members = Joined /\ keys = Issued
  /\ projects = {} /\ edges = {}
  /\ calls = [h \in Handlers |-> Waiting]
  /\ served = 0 /\ broken = 0

------------------------------------------------------------------------------
In(h, st) == calls[h].st = st
Then(h, st) == calls' = [calls EXCEPT ![h].st = st]
Answered(h) == calls' = [calls EXCEPT ![h] = Waiting]
Unsaid == UNCHANGED <<served, broken>>
NoRows == UNCHANGED <<tenants, spaces, members, keys, projects, edges>>

(* A request arrives with a key, or from a browser; a browser is in the    *)
(* default tenant unless it selects another.  What its body says is chosen *)
(* where it is used.                                                       *)
Arrive(h) ==
  /\ In(h, "idle") /\ served < MaxCalls
  /\ served' = served + 1
  /\ \E who \in keys \cup [home : {Main}, user : People], web \in BOOLEAN, op \in Operations,
        asked \in Slugs \cup {NoSlug}, space \in Spaces :
       /\ web => who.home = Main /\ who.user \in People
       /\ ~web => who \in keys
       /\ web => op \notin {"tenant", "space", "edges"}  \* routes of the REST API only
       /\ ~web => op # "key"
       /\ calls' = [calls EXCEPT ![h] = [Waiting EXCEPT !.st = "select", !.id = served', !.op = op, !.web = web,
            !.user = who.user, !.tenant = who.home, !.asked = asked, !.space = space]]
  /\ NoRows /\ UNCHANGED broken

(* A statement fails: 500.  Before the request has written its first row   *)
(* this is as if it had not been sent.                                     *)
Break(h) ==
  /\ calls[h].st \in {"first", "owner", "attach", "write"} /\ broken < MaxBroken
  /\ broken' = broken + 1
  /\ Answered(h)
  /\ NoRows /\ UNCHANGED served

(* GetTenantBySlug: 403 unless the row exists.  The tenant of the key needs *)
(* no membership, nor does an administrator's session.                     *)
Trusted(c, t) == IF c.web THEN c.user \in Roots ELSE t = c.tenant

\* The header has been read: the request is in tenant t from here on.
Enter(h, t) == calls' = [calls EXCEPT ![h].st = "space", ![h].tenant = t, ![h].asked = NoSlug]

Select(h) ==
  /\ In(h, "select")
  /\ LET c == calls[h] IN
       CASE c.asked = NoSlug -> Enter(h, c.tenant)
         [] c.asked \in tenants /\ Trusted(c, c.asked) -> Enter(h, c.asked)
         [] c.asked \in tenants /\ ~Trusted(c, c.asked) -> Then(h, "member")
         [] OTHER -> Answered(h)
  /\ NoRows /\ Unsaid

\* Mutant of CanAccessTenant: a member of some tenant may enter every one.
MemberOfAny(user, t) == \E s \in tenants : <<s, user>> \in members

CanAccessTenant(user, t) == <<t, user>> \in members

CheckMember(h) ==
  /\ In(h, "member")
  /\ IF CanAccessTenant(calls[h].user, calls[h].asked) THEN Enter(h, calls[h].asked) ELSE Answered(h)
  /\ NoRows /\ Unsaid

(* GetWorkspaceBySlug in the tenant chosen. *)
FirstStep(op) ==
  [tenant |-> "found", space |-> "open", project |-> "quota", policy |-> "find", drop |-> "delete",
   edges |-> "limit", key |-> "issue"][op]

FindSpace(h) ==
  /\ In(h, "space")
  /\ IF <<calls[h].tenant, calls[h].space>> \in spaces THEN Then(h, FirstStep(calls[h].op)) ELSE Answered(h)
  /\ NoRows /\ Unsaid

------------------------------------------------------------------------------
(* CreateTenant: three statements and no transaction. *)
FoundTenant(h) ==
  /\ In(h, "found")
  /\ \/ Answered(h) /\ UNCHANGED tenants      \* 409: it exists
     \/ \E slug \in Slugs \ tenants :
          tenants' = tenants \cup {slug} /\ calls' = [calls EXCEPT ![h].st = "first", ![h].name = slug]
  /\ UNCHANGED <<spaces, members, keys, projects, edges>> /\ Unsaid

FirstSpace(h) ==
  /\ In(h, "first")
  /\ spaces' = spaces \cup {<<calls[h].name, "default">>}
  /\ IF calls[h].user \in People THEN Then(h, "owner") ELSE Answered(h)
  /\ UNCHANGED <<tenants, members, keys, projects, edges>> /\ Unsaid

MakeOwner(h) ==
  /\ In(h, "owner")
  /\ members' = members \cup {<<calls[h].name, calls[h].user>>}
  /\ Answered(h)
  /\ UNCHANGED <<tenants, spaces, keys, projects, edges>> /\ Unsaid

(* CreateWorkspace; its slug is any. *)
OpenSpace(h) ==
  /\ In(h, "open")
  /\ \E s \in Spaces : spaces' = spaces \cup {<<calls[h].tenant, s>>}
  /\ Answered(h)
  /\ UNCHANGED <<tenants, members, keys, projects, edges>> /\ Unsaid

(* CreateUserToken: the key belongs to the tenant of the session's request. *)
IssueKey(h) ==
  /\ In(h, "issue")
  /\ keys' = keys \cup {[home |-> calls[h].tenant, user |-> calls[h].user]}
  /\ Answered(h)
  /\ UNCHANGED <<tenants, spaces, members, projects, edges>> /\ Unsaid

------------------------------------------------------------------------------
(* The rows a statement of this request sees. *)
Scope(c) == {p \in projects : p.tenant = c.tenant /\ p.space = c.space}
Named(c, n) == {p \in Scope(c) : p.name = n}
ProjectsOf(t) == {p \in projects : p.tenant = t}
EdgesOf(t) == {e \in edges : e.tenant = t}

\* Mutant of ReadQuota: every limit is taken for none.
ReadQuotaUnlimited(h, quotas, next, free) ==
  IF calls[h].tenant \in Founded THEN Then(h, free) ELSE Answered(h)

(* GetTenantQuota: without a row the request ends, 500; 0 is unlimited. *)
ReadQuota(h, quotas, next, free) ==
  IF calls[h].tenant \in Founded
    THEN Then(h, IF quotas[calls[h].tenant] > 0 THEN next ELSE free)
    ELSE Answered(h)

ReadProjectQuota(h) == In(h, "quota") /\ ReadQuota(h, MaxProjects, "usage", "taken") /\ NoRows /\ Unsaid

QuotaLeft(t) == Cardinality(ProjectsOf(t)) < MaxProjects[t]

CountProjects(h) ==
  /\ In(h, "usage")
  /\ IF QuotaLeft(calls[h].tenant) THEN Then(h, "taken") ELSE Answered(h)
  /\ NoRows /\ Unsaid

(* CreateProject looks before it inserts; the unique index has the last word. *)
SeekName(h) ==
  /\ In(h, "taken")
  /\ \E n \in Titles :
       IF Named(calls[h], n) = {} THEN calls' = [calls EXCEPT ![h].st = "insert", ![h].name = n] ELSE Answered(h)
  /\ NoRows /\ Unsaid

InsertProject(h) ==
  /\ In(h, "insert")
  /\ LET c == calls[h] IN
       IF Named(c, c.name) # {}
         THEN Answered(h) /\ UNCHANGED projects
         ELSE /\ projects' = projects \cup {[id |-> c.id, tenant |-> c.tenant, space |-> c.space, name |-> c.name,
                                             mode |-> "hybrid", by |-> c.user]}
              /\ \E later \in {"attach", "write"} :
                   calls' = [calls EXCEPT ![h].row = c.id, ![h].st = IF c.web THEN "write" ELSE later]
  /\ UNCHANGED <<tenants, spaces, members, keys, edges>> /\ Unsaid

(* A credential comes before the policy in the REST API and may be refused; *)
(* what is stored is the matter of GitSync.                                *)
AttachCredential(h) ==
  /\ In(h, "attach")
  /\ Then(h, "write") \/ Answered(h)
  /\ NoRows /\ Unsaid

(* SetProjectPrivacy is by id and within the scope: no row, no success. *)
WritePolicy(h) ==
  /\ In(h, "write")
  /\ \E m \in Modes :
       projects' = {IF p.id = calls[h].row /\ p \in Scope(calls[h]) THEN [p EXCEPT !.mode = m] ELSE p : p \in projects}
  /\ Answered(h)
  /\ UNCHANGED <<tenants, spaces, members, keys, edges>> /\ Unsaid

(* handleSetProjectPrivacy *)
FindProject(h) ==
  /\ In(h, "find")
  /\ \/ Answered(h)      \* 404
     \/ \E p \in Scope(calls[h]) : calls' = [calls EXCEPT ![h].st = "write", ![h].row = p.id]
  /\ NoRows /\ Unsaid

(* DeleteProject; the edges go with it. *)
DropProject(h) ==
  /\ In(h, "delete")
  /\ \E n \in Titles : LET gone == {p.id : p \in Named(calls[h], n)} IN
       /\ projects' = {p \in projects : p.id \notin gone}
       /\ edges' = {e \in edges : e.source \notin gone /\ e.target \notin gone}
  /\ Answered(h)
  /\ UNCHANGED <<tenants, spaces, members, keys>> /\ Unsaid

------------------------------------------------------------------------------
(* handleSubmitRuntimeEdges, with one edge: the quota first, then the two  *)
(* projects, then the transaction that adds it up.                         *)
ReadEdgeQuota(h) == In(h, "limit") /\ ReadQuota(h, MaxEdges, "room", "source") /\ NoRows /\ Unsaid

CountEdges(h) ==
  /\ In(h, "room")
  /\ IF Cardinality(EdgesOf(calls[h].tenant)) + 1 > MaxEdges[calls[h].tenant] THEN Answered(h) ELSE Then(h, "source")
  /\ NoRows /\ Unsaid

FindSource(h) ==
  /\ In(h, "source")
  /\ \E n \in Titles :
       \/ Named(calls[h], n) = {} /\ Answered(h)      \* 404
       \/ \E p \in Named(calls[h], n) : calls' = [calls EXCEPT ![h].st = "target", ![h].row = p.id]
  /\ NoRows /\ Unsaid

(* A target that is no project of the scope is kept by name only; all the  *)
(* names of services outside the project are one here, row 0.             *)
FindTarget(h) ==
  /\ In(h, "target")
  /\ \E n \in Titles :
       \/ /\ Named(calls[h], n) = {}
          /\ calls' = [calls EXCEPT ![h].st = "observe", ![h].other = 0]
       \/ \E p \in Named(calls[h], n) : calls' = [calls EXCEPT ![h].st = "observe", ![h].other = p.id]
  /\ NoRows /\ Unsaid

(* UpsertRuntimeEdges: a project that is gone by now breaks a foreign key. *)
Observe(h) ==
  /\ In(h, "observe")
  /\ LET c == calls[h]
         live == {p.id : p \in projects} \cup {0}
     IN edges' = IF {c.row, c.other} \subseteq live
                   THEN edges \cup {[tenant |-> c.tenant, space |-> c.space, source |-> c.row, target |-> c.other]}
                   ELSE edges
  /\ Answered(h)
  /\ UNCHANGED <<tenants, spaces, members, keys, projects>> /\ Unsaid

------------------------------------------------------------------------------
TenantsStep(h) ==
  \/ Arrive(h) \/ Break(h) \/ Select(h) \/ CheckMember(h) \/ FindSpace(h)
  \/ FoundTenant(h) \/ FirstSpace(h) \/ MakeOwner(h) \/ OpenSpace(h) \/ IssueKey(h)
  \/ ReadProjectQuota(h) \/ CountProjects(h) \/ SeekName(h) \/ InsertProject(h) \/ AttachCredential(h)
  \/ WritePolicy(h) \/ FindProject(h) \/ DropProject(h)
  \/ ReadEdgeQuota(h) \/ CountEdges(h) \/ FindSource(h) \/ FindTarget(h) \/ Observe(h)

TenantsNext == \E h \in Handlers : TenantsStep(h)
TenantsSpec == TenantsInit /\ [][TenantsNext]_tenantVars

------------------------------------------------------------------------------
TenantsTypeOK ==
  /\ tenants \subseteq Slugs /\ spaces \subseteq Slugs \X Spaces
  /\ members \subseteq Slugs \X People
  /\ keys \subseteq [home : Slugs, user : People \cup {Nobody}]
  /\ projects \subseteq [id : 1 .. MaxCalls, tenant : Slugs, space : Spaces, name : Titles, mode : Modes,
                         by : People \cup {Nobody}]
  /\ edges \subseteq [tenant : Slugs, space : Spaces, source : 1 .. MaxCalls, target : 0 .. MaxCalls]
  /\ served \in 0 .. MaxCalls /\ broken \in 0 .. MaxBroken

(* Whom a tenant lets in: the default one anybody, another one its members *)
(* and the administrators.                                                 *)
MayEnter(user, t) == t = Main \/ user \in Roots \/ <<t, user>> \in members

(* Whatever requests run beside each other, a tenant holds only what those *)
(* who may enter it have put there, a key never opens a tenant its user    *)
(* may not enter, and an edge joins projects of its own workspace          *)
(* (server/auth.go authed, webadmin withTenantContext, the scope of every  *)
(* statement in store.go and runtime.go).                                  *)
TenantsApart ==
  /\ \A p \in projects : MayEnter(p.by, p.tenant) /\ <<p.tenant, p.space>> \in spaces
  /\ \A k \in keys : MayEnter(k.user, k.home)
  /\ \A e \in edges : \A id \in {e.source, e.target} \ {0} :
       \E p \in projects : p.id = id /\ p.tenant = e.tenant /\ p.space = e.space

(* A quota is read before the row is inserted, with no lock in between:    *)
(* requests that run at the same time may exceed it, each by one, and no   *)
(* other may (saas.go enforceProjectQuota and enforceRuntimeEdgeQuota).    *)
Past(t, sts) == {h \in Handlers : calls[h].tenant = t /\ calls[h].st \in sts}
OnlyRacersExceed ==
  \A t \in Founded :
    /\ MaxProjects[t] > 0 =>
         Cardinality(ProjectsOf(t)) + Cardinality(Past(t, {"taken", "insert"}))
           <= MaxProjects[t] + Cardinality(Handlers) - 1
    /\ MaxEdges[t] > 0 =>
         Cardinality(EdgesOf(t)) + Cardinality(Past(t, {"source", "target", "observe"}))
           <= MaxEdges[t] + Cardinality(Handlers) - 1
==============================================================================
