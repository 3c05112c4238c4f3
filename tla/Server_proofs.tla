----------------------------- MODULE Server_proofs -----------------------------
(***************************************************************************)
(* Proofs about a server: Access for any number of workers, users, keys    *)
(* and requests and any limits (what has ended serves no later request,    *)
(* disabling a user takes the sessions opened before it, the failures of a *)
(* name are limited), and Tenants for every number of handlers, tenants,   *)
(* workspaces, users and projects, whatever requests run beside each other *)
(* and whichever of their statements fail.                                 *)
(***************************************************************************)
EXTENDS Access, Tenants, FiniteSetTheorems, TLAPS

States ==
  {"idle", "allowed", "lookup", "verify", "record", "insert", "reset", "update", "delete", "enable",
   "resolve", "page", "logout", "mint", "revoke", "limit", "bearer", "token", "call"}

Task == [st : States, id : Nat, at : Nat, user : Users, right : BOOLEAN, ttl : Nat,
         session : Nat, key : Keys, over : BOOLEAN]

TaskType ==
  /\ task \in [Workers -> Task]
  /\ \A w \in Workers : task[w].id \in 0 .. requests

TypeInv ==
  /\ TaskType
  /\ now \in Nat /\ requests \in Nat
  /\ eras \in [Users -> Nat]
  /\ \A s \in sessions : s.user \in Users /\ s.until \in Nat
  /\ cookies \subseteq 0 .. requests

LEMMA RestingType == Resting \in Task /\ Resting.st = "idle" /\ Resting.id = 0
  <1>1. AnyUser \in Users /\ AnyKey \in Keys
    BY UsersAssumption DEF AnyUser, AnyKey
  <1>2. QED
    BY <1>1 DEF Resting, Task, States

\* The three ways in which a request leaves a step.
LEMMA GotoType ==
  ASSUME TypeInv, NEW w \in Workers, NEW st \in States, Goto(w, st), requests' = requests
  PROVE  /\ TaskType'
         /\ task'[w].st = st
         /\ \A v \in Workers : v # w => task'[v] = task[v]
         /\ \A v \in Workers : /\ task'[v].id = task[v].id /\ task'[v].user = task[v].user
                               /\ task'[v].key = task[v].key /\ task'[v].session = task[v].session
                               /\ task'[v].over = task[v].over
  BY DEF Goto, TypeInv, TaskType, Task

LEMMA EndType ==
  ASSUME TypeInv, NEW w \in Workers, End(w), requests' = requests
  PROVE  /\ TaskType'
         /\ task'[w].st = "idle" /\ task'[w].id = 0
         /\ \A v \in Workers : v # w => task'[v] = task[v]
  BY RestingType DEF End, TypeInv, TaskType

LEMMA ReceiveType ==
  ASSUME TypeInv, NEW w \in Workers, NEW t \in Task, Receive(w, t)
  PROVE  /\ TaskType'
         /\ requests' = requests + 1
         /\ task[w].st = "idle"
         /\ task'[w].id = requests'
         /\ task'[w].st = t.st /\ task'[w].user = t.user /\ task'[w].key = t.key
         /\ task'[w].session = t.session /\ task'[w].over = t.over
         /\ \A v \in Workers : v # w => task'[v] = task[v]
  BY DEF Receive, TypeInv, TaskType, Task, At

\* What every request that comes in begins with.
LEMMA Received ==
  ASSUME TypeInv, NEW w \in Workers,
         ReceiveLogin(w) \/ ReceiveSwitch(w) \/ ReceivePage(w) \/ ReceiveCall(w)
  PROVE  /\ requests' = requests + 1 /\ cookies' = cookies
         /\ task'[w].id = requests' /\ task'[w].at \in {0, now}
         /\ task'[w].st \in {"allowed", "update", "enable", "resolve", "limit"}
  <1>1. ASSUME NEW t, Receive(w, t)
        PROVE  requests' = requests + 1 /\ At(w, "idle") /\ task'[w] = [t EXCEPT !.id = requests']
    BY <1>1 DEF Receive, TypeInv, TaskType
  <1>2. CASE ReceiveLogin(w)
    <2>1. PICK u \in Users, ok \in BOOLEAN, ttl \in TTL :
            Receive(w, [Resting EXCEPT !.st = "allowed", !.at = now, !.user = u, !.right = ok, !.ttl = ttl])
      BY <1>2, Zenon DEF ReceiveLogin
    <2>2. cookies' = cookies
      BY <1>2, Zenon DEF ReceiveLogin
    <2> DEFINE t == [Resting EXCEPT !.st = "allowed", !.at = now, !.user = u, !.right = ok, !.ttl = ttl]
    <2>3. t.st \in {"allowed", "update", "enable", "resolve", "limit"} /\ t.at \in {0, now}
          /\ [t EXCEPT !.id = requests'].st = t.st /\ [t EXCEPT !.id = requests'].at = t.at
          /\ [t EXCEPT !.id = requests'].id = requests'
      BY DEF Resting
    <2> HIDE DEF t
    <2>4. requests' = requests + 1 /\ task'[w] = [t EXCEPT !.id = requests']
      BY <1>1, <2>1 DEF t
    <2>5. QED
      BY <2>2, <2>3, <2>4
  <1>3. CASE ReceiveSwitch(w)
    <2>1. PICK u \in Users, st \in {"update", "enable"} : Receive(w, [Resting EXCEPT !.st = st, !.user = u])
      BY <1>3, Zenon DEF ReceiveSwitch
    <2>2. cookies' = cookies
      BY <1>3, Zenon DEF ReceiveSwitch
    <2> DEFINE t == [Resting EXCEPT !.st = st, !.user = u]
    <2>3. t.st \in {"allowed", "update", "enable", "resolve", "limit"} /\ t.at \in {0, now}
          /\ [t EXCEPT !.id = requests'].st = t.st /\ [t EXCEPT !.id = requests'].at = t.at
          /\ [t EXCEPT !.id = requests'].id = requests'
      BY DEF Resting
    <2> HIDE DEF t
    <2>4. requests' = requests + 1 /\ task'[w] = [t EXCEPT !.id = requests']
      BY <1>1, <2>1 DEF t
    <2>5. QED
      BY <2>2, <2>3, <2>4
  <1>4. CASE ReceivePage(w)
    <2>1. PICK id \in cookies :
            Receive(w, [Resting EXCEPT !.st = "resolve", !.session = id, !.over = ~Live(id, now)])
      BY <1>4, Zenon DEF ReceivePage
    <2>2. cookies' = cookies
      BY <1>4, Zenon DEF ReceivePage
    <2> DEFINE t == [Resting EXCEPT !.st = "resolve", !.session = id, !.over = ~Live(id, now)]
    <2>3. t.st \in {"allowed", "update", "enable", "resolve", "limit"} /\ t.at \in {0, now}
          /\ [t EXCEPT !.id = requests'].st = t.st /\ [t EXCEPT !.id = requests'].at = t.at
          /\ [t EXCEPT !.id = requests'].id = requests'
      BY DEF Resting
    <2> HIDE DEF t
    <2>4. requests' = requests + 1 /\ task'[w] = [t EXCEPT !.id = requests']
      BY <1>1, <2>1 DEF t
    <2>5. QED
      BY <2>2, <2>3, <2>4
  <1>5. CASE ReceiveCall(w)
    <2>1. PICK k \in DOMAIN tokens :
            Receive(w, [Resting EXCEPT !.st = "limit", !.key = k, !.over = k \in revoked \/ tokens[k] <= now])
      BY <1>5, Zenon DEF ReceiveCall
    <2>2. cookies' = cookies
      BY <1>5, Zenon DEF ReceiveCall
    <2> DEFINE t == [Resting EXCEPT !.st = "limit", !.key = k, !.over = k \in revoked \/ tokens[k] <= now]
    <2>3. t.st \in {"allowed", "update", "enable", "resolve", "limit"} /\ t.at \in {0, now}
          /\ [t EXCEPT !.id = requests'].st = t.st /\ [t EXCEPT !.id = requests'].at = t.at
          /\ [t EXCEPT !.id = requests'].id = requests'
      BY DEF Resting
    <2> HIDE DEF t
    <2>4. requests' = requests + 1 /\ task'[w] = [t EXCEPT !.id = requests']
      BY <1>1, <2>1 DEF t
    <2>5. QED
      BY <2>2, <2>3, <2>4
  <1>6. QED
    BY <1>2, <1>3, <1>4, <1>5
\* Where the code goes from a step, and what it writes on the way.
LEMMA TypeInvInit == Init => TypeInv
  BY RestingType DEF Init, TypeInv, TaskType

LEMMA LoginType ==
  ASSUME TypeInv, NEW w \in Workers,
         \/ ReceiveLogin(w) \/ CheckLimit(w) \/ LookUp(w) \/ Verify(w) \/ Record(w)
         \/ CreateSession(w) \/ Reset(w)
  PROVE  TypeInv'
  <1>1. CASE ReceiveLogin(w)
    <2>1. PICK u \in Users, ok \in BOOLEAN, ttl \in TTL :
            Receive(w, [Resting EXCEPT !.st = "allowed", !.at = now, !.user = u, !.right = ok, !.ttl = ttl])
      BY <1>1 DEF ReceiveLogin
    <2> DEFINE t == [Resting EXCEPT !.st = "allowed", !.at = now, !.user = u, !.right = ok, !.ttl = ttl]
    <2>2. t \in Task /\ Receive(w, t)
      BY <2>1, RestingType, LifetimeAssumption DEF TypeInv, Task, States
    <2> HIDE DEF t
    <2>3. UNCHANGED <<now, sessions, cookies, eras>>
      BY <1>1 DEF ReceiveLogin, rows, ghosts
    <2>4. QED
      BY <2>3, <2>2, ReceiveType DEF TypeInv
  <1>2. CASE CheckLimit(w)
    <2>1. Goto(w, "lookup") \/ End(w)
      BY <1>2 DEF CheckLimit
    <2>2. TaskType'
      BY <2>1, <1>2, GotoType, EndType DEF States, CheckLimit, Quiet
    <2>3. QED
      BY <1>2, <2>2 DEF CheckLimit, TypeInv, rows, Quiet, QuietGhosts, ghosts
  <1>3. CASE LookUp(w) \/ Verify(w)
    <2>1. Goto(w, "verify") \/ Goto(w, "insert") \/ Goto(w, "record")
      BY <1>3 DEF LookUp, Verify, Refused
    <2>2. TaskType'
      BY <1>3, <2>1, GotoType DEF States, LookUp, Verify, Quiet
    <2>3. eras' = eras
      BY <1>3 DEF LookUp, Verify, Refused, QuietGhosts, ghosts
    <2>4. QED
      BY <1>3, <2>2, <2>3 DEF LookUp, Verify, TypeInv, rows, Quiet
  <1>4. CASE Record(w)
    BY <1>4, EndType DEF Record, TypeInv, rows, Quiet, QuietGhosts, ghosts
  <1>5. CASE CreateSession(w)
    <2>1. TaskType'
      BY <1>5, GotoType DEF CreateSession, States, Quiet
    <2>2. /\ task[w].user \in Users
          /\ task[w].at + task[w].ttl \in Nat
      BY DEF TypeInv, TaskType, Task
    <2>3. \A s \in sessions' : s.user \in Users /\ s.until \in Nat
      BY <1>5, <2>2 DEF CreateSession, TypeInv
    <2>4. QED
      BY <1>5, <2>1, <2>3 DEF CreateSession, TypeInv, Quiet, QuietGhosts, ghosts
  <1>6. CASE Reset(w)
    BY <1>6, EndType DEF Reset, TypeInv, TaskType, rows
  <1>7. QED
    BY <1>1, <1>2, <1>3, <1>4, <1>5, <1>6
LEMMA SwitchType ==
  ASSUME TypeInv, NEW w \in Workers,
         ReceiveSwitch(w) \/ Update(w) \/ DeleteSessions(w) \/ Enable(w)
  PROVE  TypeInv'
  <1>1. CASE ReceiveSwitch(w)
    <2>1. PICK u \in Users, st \in {"update", "enable"} :
            Receive(w, [Resting EXCEPT !.st = st, !.user = u])
      BY <1>1 DEF ReceiveSwitch
    <2> DEFINE t == [Resting EXCEPT !.st = st, !.user = u]
    <2>2. t \in Task /\ Receive(w, t)
      BY <2>1, RestingType DEF Task, States
    <2> HIDE DEF t
    <2>3. UNCHANGED <<now, sessions, cookies, eras>>
      BY <1>1 DEF ReceiveSwitch, rows, ghosts
    <2>4. QED
      BY <2>3, <2>2, ReceiveType DEF TypeInv
  <1>2. CASE Update(w)
    <2>1. TaskType'
      BY <1>2, GotoType DEF Update, Quiet, States
    <2>2. task[w].user \in Users
      BY DEF TypeInv, TaskType, Task
    <2>3. eras' \in [Users -> Nat]
      BY <1>2, <2>2 DEF Update, TypeInv
    <2>4. QED
      BY <1>2, <2>1, <2>3 DEF Update, Quiet, TypeInv
  <1>3. CASE DeleteSessions(w)
    BY <1>3, EndType DEF DeleteSessions, Quiet, TypeInv
  <1>4. CASE Enable(w)
    BY <1>4, EndType DEF Enable, Quiet, QuietGhosts, ghosts, TypeInv
  <1>5. QED
    BY <1>1, <1>2, <1>3, <1>4

LEMMA PageType ==
  ASSUME TypeInv, NEW w \in Workers,
         ReceivePage(w) \/ Resolve(w) \/ Handle(w) \/ Logout(w) \/ Mint(w) \/ Revoke(w)
  PROVE  TypeInv'
  <1>1. CASE ReceivePage(w)
    <2>1. PICK id \in cookies :
            Receive(w, [Resting EXCEPT !.st = "resolve", !.session = id, !.over = ~Live(id, now)])
      BY <1>1 DEF ReceivePage
    <2> DEFINE t == [Resting EXCEPT !.st = "resolve", !.session = id, !.over = ~Live(id, now)]
    <2>2. id \in Nat /\ (~Live(id, now)) \in BOOLEAN /\ "resolve" \in States
      BY DEF TypeInv, States
    <2>3. t \in Task
      BY <2>2, RestingType, Zenon DEF Task
    <2>4. Receive(w, t)
      BY <2>1
    <2> HIDE DEF t
    <2>5. UNCHANGED <<now, sessions, cookies, eras>>
      BY <1>1 DEF ReceivePage, rows, ghosts
    <2>6. QED
      BY <2>5, <2>3, <2>4, ReceiveType DEF TypeInv
  <1>2. CASE Resolve(w)
    <2>1. ASSUME NEW u \in SessionUser(task[w].session),
                 task' = [task EXCEPT ![w].st = "page", ![w].user = u]
          PROVE  TaskType'
      <3>1. u \in Users
        BY DEF SessionUser, TypeInv
      <3> DEFINE t == [task[w] EXCEPT !.st = "page", !.user = u]
      <3>2. t \in Task /\ t.id = task[w].id
        <4>1. task[w] \in Task /\ "page" \in States
          BY DEF TypeInv, TaskType, States
        <4>2. QED
          BY <3>1, <4>1, Zenon DEF Task
      <3>3. task' = [task EXCEPT ![w] = t]
        BY <2>1 DEF TypeInv, TaskType, Task
      <3> HIDE DEF t
      <3>4. requests' = requests
        BY <1>2 DEF Resolve, Quiet
      <3>5. QED
        BY <3>2, <3>3, <3>4 DEF TypeInv, TaskType
    <2>2. TaskType'
      BY <1>2, <2>1, EndType DEF Resolve, Quiet
    <2>3. QED
      BY <1>2, <2>2 DEF Resolve, Quiet, QuietGhosts, rows, ghosts, TypeInv
  <1>3. CASE Handle(w)
    <2>1. ASSUME NEW k \in Keys, NEW st \in {"mint", "revoke"},
                 task' = [task EXCEPT ![w].st = st, ![w].key = k]
          PROVE  TaskType'
      <3> DEFINE t == [task[w] EXCEPT !.st = st, !.key = k]
      <3>1. t \in Task /\ t.id = task[w].id
        <4>1. task[w] \in Task /\ st \in States
          BY DEF TypeInv, TaskType, States
        <4>2. QED
          BY <4>1, Zenon DEF Task
      <3>2. task' = [task EXCEPT ![w] = t]
        BY <2>1 DEF TypeInv, TaskType, Task
      <3> HIDE DEF t
      <3>3. requests' = requests
        BY <1>3 DEF Handle, Quiet
      <3>4. QED
        BY <3>1, <3>2, <3>3 DEF TypeInv, TaskType
    <2>2. TaskType'
      BY <1>3, <2>1, GotoType, EndType DEF Handle, Quiet, States
    <2>3. QED
      BY <1>3, <2>2 DEF Handle, Quiet, QuietGhosts, rows, ghosts, TypeInv
  <1>4. CASE Logout(w) \/ Mint(w) \/ Revoke(w)
    BY <1>4, EndType DEF Logout, Mint, Revoke, Quiet, QuietGhosts, ghosts, TypeInv
  <1>5. QED
    BY <1>1, <1>2, <1>3, <1>4

LEMMA CallType ==
  ASSUME TypeInv, DOMAIN tokens \subseteq Keys, NEW w \in Workers,
         ReceiveCall(w) \/ Limit(w) \/ Authorize(w) \/ FindToken(w) \/ Call(w) \/ Fail(w)
  PROVE  TypeInv'
  <1>1. CASE ReceiveCall(w)
    <2>1. PICK k \in DOMAIN tokens :
            Receive(w, [Resting EXCEPT !.st = "limit", !.key = k,
                          !.over = k \in revoked \/ tokens[k] <= now])
      BY <1>1 DEF ReceiveCall
    <2> DEFINE t == [Resting EXCEPT !.st = "limit", !.key = k,
                       !.over = k \in revoked \/ tokens[k] <= now]
    <2>2. (k \in revoked \/ tokens[k] <= now) \in BOOLEAN
      OBVIOUS
    <2>3. k \in Keys /\ "limit" \in States
      BY DEF States
    <2>4. t \in Task
      BY <2>2, <2>3, RestingType, Zenon DEF Task
    <2>5. Receive(w, t)
      BY <2>1
    <2> HIDE DEF t
    <2>6. UNCHANGED <<now, sessions, cookies, eras>>
      BY <1>1 DEF ReceiveCall, rows, ghosts
    <2>7. QED
      BY <2>6, <2>4, <2>5, ReceiveType DEF TypeInv
  <1>2. CASE Limit(w)
    <2>1. Goto(w, "bearer") \/ End(w)
      BY <1>2 DEF Limit, LetThrough
    <2>2. TaskType'
      BY <1>2, <2>1, GotoType, EndType DEF Limit, Quiet, States
    <2>3. eras' = eras
      BY <1>2 DEF Limit, LetThrough, QuietGhosts, ghosts
    <2>4. QED
      BY <1>2, <2>2, <2>3 DEF Limit, Quiet, rows, TypeInv
  <1>3. CASE Authorize(w) \/ FindToken(w) \/ Call(w)
    <2>1. Goto(w, "token") \/ Goto(w, "call") \/ End(w)
      BY <1>3 DEF Authorize, FindToken, Call
    <2>2. TaskType'
      BY <1>3, <2>1, GotoType, EndType DEF Authorize, FindToken, Call, Quiet, States
    <2>3. QED
      BY <1>3, <2>2 DEF Authorize, FindToken, Call, Quiet, QuietGhosts, rows, ghosts, TypeInv
  <1>4. CASE Fail(w)
    BY <1>4, EndType DEF Fail, TypeInv, rows
  <1>5. QED
    BY <1>1, <1>2, <1>3, <1>4

TokensType == DOMAIN tokens \subseteq Keys /\ \A k \in DOMAIN tokens : tokens[k] \in Nat

LEMMA TokensInit == Init => TokensType
  <1>1. \A k \in Keys : ExpiryOf(k, 0) \in Nat
    BY LifetimeAssumption, LimitsAssumption DEF ExpiryOf, Never
  <1>2. QED
    BY <1>1 DEF Init, TokensType

\* No token is forgotten or moved, and none that was revoked comes back.
LEMMA TokensStep ==
  ASSUME TypeInv, TokensType, [Next]_vars
  PROVE  /\ TokensType'
         /\ revoked \subseteq revoked'
         /\ \A k \in DOMAIN tokens : k \in DOMAIN tokens' /\ tokens'[k] = tokens[k]
  <1>1. CASE UNCHANGED <<tokens, revoked>>
    BY <1>1 DEF TokensType
  <1>2. CASE \E w \in Workers : Mint(w)
    <2>1. PICK w \in Workers : Mint(w)
      BY <1>2
    <2>2. task[w].key \in Keys
      BY DEF TypeInv, TaskType, Task
    <2>3. now \in Nat /\ ExpiryOf(task[w].key, now) \in Nat
      BY <2>2, LifetimeAssumption, LimitsAssumption DEF TypeInv, ExpiryOf, Never
    <2>4. QED
      BY <2>1, <2>2, <2>3 DEF Mint, TokensType
  <1>3. CASE \E w \in Workers : Revoke(w)
    BY <1>3 DEF Revoke, TokensType
  <1>4. CASE UNCHANGED vars \/ Tick \/ ReapTries \/ ReapBuckets
    BY <1>1, <1>4 DEF vars, rows, Tick, ReapTries, ReapBuckets
  <1>5. ASSUME NEW w \in Workers, Work(w), ~Mint(w), ~Revoke(w)
        PROVE  UNCHANGED <<tokens, revoked>>
    BY <1>5 DEF Work, rows, ReceiveLogin, CheckLimit, LookUp, Verify, Record, CreateSession, Reset,
                ReceiveSwitch, Update, DeleteSessions, Enable, ReceivePage, Resolve, Handle, Logout,
                ReceiveCall, Limit, Authorize, FindToken, Call, Fail
  <1>6. QED
    BY <1>1, <1>2, <1>3, <1>4, <1>5 DEF Next

LEMMA TypeInvNext == TypeInv /\ TokensType /\ [Next]_vars => TypeInv'
  <1> SUFFICES ASSUME TypeInv, TokensType, [Next]_vars PROVE TypeInv'
    OBVIOUS
  <1>1. CASE UNCHANGED vars
    BY <1>1 DEF vars, rows, ghosts, TypeInv, TaskType
  <1>2. CASE Tick \/ ReapTries \/ ReapBuckets
    <2>1. UNCHANGED <<sessions, cookies, task, requests, eras>>
      BY <1>2 DEF Tick, ReapTries, ReapBuckets, rows, Quiet, QuietGhosts, ghosts
    <2>2. now' = now \/ now' = now + 1
      BY <1>2 DEF Tick, ReapTries, ReapBuckets, Quiet
    <2>3. QED
      BY <2>1, <2>2 DEF TypeInv, TaskType
  <1>3. CASE \E w \in Workers : Work(w)
    BY <1>3, LoginType, SwitchType, PageType, CallType DEF Work, TokensType
  <1>4. QED
    BY <1>1, <1>2, <1>3 DEF Next

\* What a worker's step leaves of the other workers.
LEMMA OthersKept ==
  ASSUME TypeInv, NEW w \in Workers, Work(w)
  PROVE  \A v \in Workers : v # w => task'[v] = task[v]
  <1>1. CASE ReceiveLogin(w) \/ ReceiveSwitch(w) \/ ReceivePage(w) \/ ReceiveCall(w)
    BY <1>1 DEF ReceiveLogin, ReceiveSwitch, ReceivePage, ReceiveCall, Receive, TypeInv, TaskType
  <1>2. CASE Resolve(w) \/ Handle(w)
    BY <1>2 DEF Resolve, Handle, Goto, End, TypeInv, TaskType
  <1>3. CASE CheckLimit(w) \/ LookUp(w) \/ Verify(w) \/ Record(w) \/ CreateSession(w) \/ Reset(w)
    BY <1>3 DEF CheckLimit, LookUp, Verify, Record, CreateSession, Reset, Refused, Goto, End,
                TypeInv, TaskType
  <1>4. CASE \/ Update(w) \/ DeleteSessions(w) \/ Enable(w) \/ Logout(w) \/ Mint(w) \/ Revoke(w)
             \/ Limit(w) \/ Authorize(w) \/ FindToken(w) \/ Call(w) \/ Fail(w)
    <2>1. \E st \in States : Goto(w, st) \/ End(w)
      BY <1>4 DEF Update, DeleteSessions, Enable, Logout, Mint, Revoke, Limit, LetThrough, Authorize,
                  FindToken, Call, Fail, States
    <2>2. QED
      BY <2>1 DEF Goto, End, TypeInv, TaskType
  <1>5. QED
    BY <1>1, <1>2, <1>3, <1>4 DEF Work

\* A step that opens no session and finishes no disabling.
Undisturbed ==
  /\ sessions' \subseteq sessions
  /\ eras' = eras /\ unfinished' = unfinished
  /\ \A v \in Workers : At(v, "delete") => task'[v] = task[v]

LEMMA MostUndisturbed ==
  ASSUME TypeInv, NEW w \in Workers, Work(w),
         ~CreateSession(w), ~Update(w), ~DeleteSessions(w), ~Fail(w)
  PROVE  Undisturbed
  <1>1. ~At(w, "delete")
    BY DEF Work, ReceiveLogin, CheckLimit, LookUp, Verify, Record, Reset, ReceiveSwitch, Enable,
           ReceivePage, Resolve, Handle, Logout, Mint, Revoke, ReceiveCall, Limit, Authorize,
           FindToken, Call, Receive, At
  <1>2. \A v \in Workers : At(v, "delete") => task'[v] = task[v]
    BY <1>1, OthersKept
  <1>3. sessions' \subseteq sessions
    BY DEF Work, rows, ReceiveLogin, CheckLimit, LookUp, Verify, Record, Reset,
           ReceiveSwitch, Enable, ReceivePage, Resolve, Handle, Logout, Mint, Revoke,
           ReceiveCall, Limit, Authorize, FindToken, Call
  <1>4. eras' = eras /\ unfinished' = unfinished
    BY DEF Work, ghosts, QuietGhosts, ReceiveLogin, CheckLimit, LookUp, Verify, Record, Reset, Refused,
           ReceiveSwitch, Enable, ReceivePage, Resolve, Handle, Logout, Mint, Revoke,
           ReceiveCall, Limit, LetThrough, Authorize, FindToken, Call
  <1>5. QED
    BY <1>2, <1>3, <1>4 DEF Undisturbed

LEMMA UndisturbedKeeps ==
  ASSUME DisabledSessionsGone, Undisturbed
  PROVE  DisabledSessionsGone'
  BY DEF DisabledSessionsGone, Undisturbed, At

\* Who disables a user has to delete the sessions, or to say that it could not.
LEMMA DisabledNext ==
  TypeInv /\ DisabledSessionsGone /\ [Next]_vars => DisabledSessionsGone'
  <1> SUFFICES ASSUME TypeInv, DisabledSessionsGone, [Next]_vars PROVE DisabledSessionsGone'
    OBVIOUS
  <1>1. CASE UNCHANGED vars \/ Tick \/ ReapTries \/ ReapBuckets
    <2>1. UNCHANGED <<sessions, eras, unfinished, task>>
      BY <1>1 DEF vars, rows, ghosts, QuietGhosts, Tick, ReapTries, ReapBuckets
    <2>2. QED
      BY <2>1 DEF DisabledSessionsGone, At
  <1>2. ASSUME NEW w \in Workers, CreateSession(w)
        PROVE  DisabledSessionsGone'
    <2>1. UNCHANGED <<eras, unfinished>> /\ ~At(w, "delete")
      BY <1>2 DEF CreateSession, QuietGhosts, ghosts, At
    <2>2. \A v \in Workers : v # w => task'[v] = task[v]
      BY <1>2, OthersKept DEF Work
    <2>3. \A s \in sessions' : s \in sessions \/ s.era = eras[s.user]
      BY <1>2 DEF CreateSession
    <2>4. QED
      BY <2>1, <2>2, <2>3 DEF DisabledSessionsGone, At
  <1>3. ASSUME NEW w \in Workers, Update(w)
        PROVE  DisabledSessionsGone'
    <2>1. UNCHANGED <<sessions, unfinished>> /\ ~At(w, "delete")
      BY <1>3 DEF Update, At
    <2>2. \A v \in Workers : v # w => task'[v] = task[v]
      BY <1>3, OthersKept DEF Work
    <2>3. task'[w].st = "delete" /\ task'[w].user = task[w].user
      BY <1>3, GotoType DEF Update, Quiet, States
    <2>4. \A s \in sessions : s.user # task[w].user => eras'[s.user] = eras[s.user]
      BY <1>3 DEF Update, TypeInv
    <2>5. QED
      BY <2>1, <2>2, <2>3, <2>4 DEF DisabledSessionsGone, At
  <1>4. ASSUME NEW w \in Workers, DeleteSessions(w)
        PROVE  DisabledSessionsGone'
    <2>1. eras' = eras /\ sessions' = {s \in sessions : s.user # task[w].user}
      BY <1>4 DEF DeleteSessions
    <2>2. unfinished' = unfinished \ {task[w].user}
      BY <1>4 DEF DeleteSessions
    <2>3. \A v \in Workers : v # w => task'[v] = task[v]
      BY <1>4, OthersKept DEF Work
    <2>4. QED
      BY <2>1, <2>2, <2>3 DEF DisabledSessionsGone, At
  <1>5. ASSUME NEW w \in Workers, Fail(w)
        PROVE  DisabledSessionsGone'
    <2>1. UNCHANGED <<sessions, eras>>
      BY <1>5 DEF Fail, rows
    <2>2. unfinished' = IF At(w, "delete") THEN unfinished \cup {task[w].user} ELSE unfinished
      BY <1>5 DEF Fail
    <2>3. \A v \in Workers : v # w => task'[v] = task[v]
      BY <1>5, OthersKept DEF Work
    <2>4. QED
      BY <2>1, <2>2, <2>3 DEF DisabledSessionsGone, At
  <1>6. ASSUME NEW w \in Workers, Work(w), ~CreateSession(w), ~Update(w), ~DeleteSessions(w), ~Fail(w)
        PROVE  DisabledSessionsGone'
    BY <1>6, MostUndisturbed, UndisturbedKeeps
  <1>7. QED
    BY <1>1, <1>2, <1>3, <1>4, <1>5, <1>6 DEF Next

(* "Disabling also invalidates their active sessions", for every number of  *)
(* workers, users and switches.                                             *)
THEOREM DisabledSessionsAreGone == Spec => []DisabledSessionsGone
  <1> DEFINE Inv == TypeInv /\ TokensType /\ DisabledSessionsGone
  <1>1. Init => Inv
    <2>1. Init => DisabledSessionsGone
      BY DEF Init, DisabledSessionsGone
    <2>2. QED
      BY <2>1, TypeInvInit, TokensInit
  <1>2. Inv /\ [Next]_vars => Inv'
    BY TypeInvNext, TokensStep, DisabledNext
  <1>3. Inv => DisabledSessionsGone
    OBVIOUS
  <1> HIDE DEF Inv
  <1>4. QED
    BY <1>1, <1>2, <1>3, PTL DEF Spec

------------------------------------------------------------------------------
Fresh ==
  \A v \in Workers : ~At(v, "idle") =>
    /\ task[v].id \notin cookies
    /\ \A u \in Workers : u # v /\ ~At(u, "idle") => task[u].id # task[v].id

\* What a request may count on at each of its steps.
Served(v) ==
  /\ At(v, "resolve") => /\ task[v].session \in cookies
                         /\ task[v].over => ~Live(task[v].session, now)
  /\ At(v, "page") => ~task[v].over
  /\ task[v].st \in {"limit", "bearer", "token"} => task[v].key \in DOMAIN tokens
  /\ task[v].st \in {"limit", "bearer"} /\ task[v].over =>
       task[v].key \in revoked \/ tokens[task[v].key] <= now
  /\ At(v, "token") /\ task[v].over => task[v].key \in revoked
  /\ At(v, "call") => ~task[v].over

\* A session that is opened has an identifier that no browser was given before.
LEMMA WorldStep ==
  ASSUME TypeInv, TokensType, Fresh, [Next]_vars
  PROVE  /\ cookies \subseteq cookies'
         /\ now' \in Nat /\ now <= now'
         /\ \A s \in sessions' : s \in sessions \/ s.id \notin cookies
  <1>1. CASE UNCHANGED vars \/ Tick \/ ReapTries \/ ReapBuckets
    <2>1. UNCHANGED <<cookies, sessions>> /\ (now' = now \/ now' = now + 1)
      BY <1>1 DEF vars, rows, Quiet, Tick, ReapTries, ReapBuckets
    <2>2. QED
      BY <2>1 DEF TypeInv
  <1>2. ASSUME NEW w \in Workers, Reset(w)
        PROVE  UNCHANGED <<now, sessions>> /\ cookies \subseteq cookies'
    BY <1>2 DEF Reset, rows
  <1>3. ASSUME NEW w \in Workers, CreateSession(w)
        PROVE  UNCHANGED <<now, cookies>> /\ \A s \in sessions' : s \in sessions \/ s.id \notin cookies
    BY <1>3 DEF CreateSession, Quiet, Fresh, At
  <1>4. ASSUME NEW w \in Workers, Work(w), ~Reset(w), ~CreateSession(w)
        PROVE  UNCHANGED <<now, cookies>> /\ sessions' \subseteq sessions
    BY <1>4 DEF Work, rows, Quiet, ReceiveLogin, CheckLimit, LookUp, Verify, Record,
                ReceiveSwitch, Update, DeleteSessions, Enable, ReceivePage, Resolve, Handle, Logout,
                Mint, Revoke, ReceiveCall, Limit, Authorize, FindToken, Call, Fail
  <1>5. QED
    BY <1>1, <1>2, <1>3, <1>4 DEF Next, TypeInv

LEMMA ServedKept ==
  ASSUME TypeInv, TokensType, Fresh, [Next]_vars, NEW v \in Workers, Served(v), task'[v] = task[v]
  PROVE  Served(v)'
  <1>1. At(v, "resolve") /\ task[v].over => ~Live(task[v].session, now)'
    BY WorldStep DEF Served, Live, TypeInv
  <1>2. task[v].st \in {"limit", "bearer"} /\ task[v].over =>
          task[v].key \in revoked' \/ tokens'[task[v].key] <= now'
    BY WorldStep, TokensStep DEF Served, TypeInv, TokensType
  <1>3. QED
    BY <1>1, <1>2, WorldStep, TokensStep DEF Served, At

\* Steps after which the worker holds nothing to be served.
LEMMA ServedElsewhere ==
  ASSUME NEW w \in Workers,
         task'[w].st \notin {"resolve", "page", "limit", "bearer", "token", "call"}
  PROVE  Served(w)'
  BY DEF Served, At

LEMMA PageServed ==
  ASSUME TypeInv, NEW w \in Workers, Served(w),
         ReceivePage(w) \/ Resolve(w) \/ Handle(w) \/ Logout(w) \/ Mint(w) \/ Revoke(w)
  PROVE  Served(w)'
  <1>1. CASE ReceivePage(w)
    <2>1. PICK id \in cookies :
            Receive(w, [Resting EXCEPT !.st = "resolve", !.session = id, !.over = ~Live(id, now)])
      BY <1>1 DEF ReceivePage
    <2>2. /\ task'[w].st = "resolve" /\ task'[w].session = id
          /\ task'[w].over = ~Live(id, now)
      BY <2>1 DEF Receive, Resting, TypeInv, TaskType
    <2>3. UNCHANGED <<now, cookies, sessions>>
      BY <1>1 DEF ReceivePage, rows
    <2>4. Live(id, now)' = Live(id, now)
      BY <2>3 DEF Live
    <2>5. QED
      BY <2>2, <2>3, <2>4 DEF Served, At, Live
  <1>2. CASE Resolve(w)
    <2>1. CASE SessionUser(task[w].session) = {}
      BY <1>2, <2>1, EndType, ServedElsewhere DEF Resolve, Quiet
    <2>2. CASE SessionUser(task[w].session) # {}
      <3>1. Live(task[w].session, now)
        BY <2>2 DEF SessionUser, Live
      <3>2. ~task[w].over
        BY <1>2, <3>1 DEF Resolve, Served
      <3>3. \E u : task' = [task EXCEPT ![w].st = "page", ![w].user = u]
        BY <1>2, <2>2 DEF Resolve
      <3>4. task'[w].st = "page" /\ task'[w].over = task[w].over
        BY <3>3 DEF TypeInv, TaskType, Task
      <3>5. QED
        BY <3>2, <3>4 DEF Served, At
    <2>3. QED
      BY <2>1, <2>2
  <1>3. CASE Handle(w)
    <2>1. task'[w].st \in {"logout", "idle", "mint", "revoke"}
      BY <1>3, RestingType DEF Handle, Goto, End, TypeInv, TaskType, Task
    <2>2. QED
      BY <2>1, ServedElsewhere
  <1>4. CASE Logout(w) \/ Mint(w) \/ Revoke(w)
    BY <1>4, EndType, ServedElsewhere DEF Logout, Mint, Revoke, Quiet
  <1>5. QED
    BY <1>1, <1>2, <1>3, <1>4

LEMMA CallServed ==
  ASSUME TypeInv, TokensType, NEW w \in Workers, Served(w),
         ReceiveCall(w) \/ Limit(w) \/ Authorize(w) \/ FindToken(w) \/ Call(w) \/ Fail(w)
  PROVE  Served(w)'
  <1>1. CASE ReceiveCall(w)
    <2>1. PICK k \in DOMAIN tokens :
            Receive(w, [Resting EXCEPT !.st = "limit", !.key = k,
                          !.over = k \in revoked \/ tokens[k] <= now])
      BY <1>1 DEF ReceiveCall
    <2>2. /\ task'[w].st = "limit" /\ task'[w].key = k
          /\ task'[w].over = (k \in revoked \/ tokens[k] <= now)
      BY <2>1 DEF Receive, Resting, TypeInv, TaskType
    <2>3. UNCHANGED <<now, tokens, revoked>>
      BY <1>1 DEF ReceiveCall, rows
    <2>4. QED
      BY <2>2, <2>3 DEF Served, At
  <1>2. CASE Limit(w)
    <2>1. Goto(w, "bearer") \/ End(w)
      BY <1>2 DEF Limit, LetThrough
    <2>2. UNCHANGED <<now, tokens, revoked, requests>> /\ At(w, "limit")
      BY <1>2 DEF Limit, rows, Quiet
    <2>3. CASE Goto(w, "bearer")
      BY <2>2, <2>3, GotoType DEF Served, At, States
    <2>4. CASE End(w)
      BY <2>2, <2>4, EndType, ServedElsewhere
    <2>5. QED
      BY <2>1, <2>3, <2>4
  <1>3. CASE Authorize(w)
    <2>1. UNCHANGED <<now, tokens, revoked, requests>> /\ At(w, "bearer")
      BY <1>3 DEF Authorize, rows, Quiet
    <2>2. CASE tokens[task[w].key] > now
      <3>1. Goto(w, "token")
        BY <1>3, <2>2 DEF Authorize
      <3>2. task[w].over => task[w].key \in revoked
        BY <2>1, <2>2 DEF Served, At, TypeInv, TokensType
      <3>3. QED
        BY <2>1, <3>1, <3>2, GotoType DEF Served, At, States
    <2>3. CASE ~(tokens[task[w].key] > now)
      BY <1>3, <2>1, <2>3, EndType, ServedElsewhere DEF Authorize
    <2>4. QED
      BY <2>2, <2>3
  <1>4. CASE FindToken(w)
    <2>1. UNCHANGED <<requests>> /\ At(w, "token")
      BY <1>4 DEF FindToken, Quiet
    <2>2. CASE TokenByHash(task[w].key)
      <3>1. Goto(w, "call") /\ ~task[w].over
        BY <1>4, <2>1, <2>2 DEF FindToken, TokenByHash, Served
      <3>2. QED
        BY <2>1, <3>1, GotoType DEF Served, At, States
    <2>3. CASE ~TokenByHash(task[w].key)
      BY <1>4, <2>1, <2>3, EndType, ServedElsewhere DEF FindToken
    <2>4. QED
      BY <2>2, <2>3
  <1>5. CASE Call(w) \/ Fail(w)
    BY <1>5, EndType, ServedElsewhere DEF Call, Fail, Quiet
  <1>6. QED
    BY <1>1, <1>2, <1>3, <1>4, <1>5

LEMMA LoginServed ==
  ASSUME TypeInv, NEW w \in Workers,
         \/ ReceiveLogin(w) \/ CheckLimit(w) \/ LookUp(w) \/ Verify(w) \/ Record(w)
         \/ CreateSession(w) \/ Reset(w)
         \/ ReceiveSwitch(w) \/ Update(w) \/ DeleteSessions(w) \/ Enable(w)
  PROVE  Served(w)'
  <1>1. CASE ReceiveLogin(w) \/ ReceiveSwitch(w)
    <2>1. ASSUME NEW t, Receive(w, t) PROVE task'[w].st = [t EXCEPT !.id = requests'].st
      BY <2>1 DEF Receive, TypeInv, TaskType
    <2>2. CASE ReceiveLogin(w)
      <3>1. PICK u \in Users, ok \in BOOLEAN, ttl \in TTL :
              Receive(w, [Resting EXCEPT !.st = "allowed", !.at = now, !.user = u, !.right = ok, !.ttl = ttl])
        BY <2>2, Zenon DEF ReceiveLogin
      <3> DEFINE t == [Resting EXCEPT !.st = "allowed", !.at = now, !.user = u, !.right = ok, !.ttl = ttl]
      <3>2. t.st \in {"allowed", "update", "enable"} /\ [t EXCEPT !.id = requests'].st = t.st
        BY DEF Resting
      <3> HIDE DEF t
      <3>3. task'[w].st = t.st
        BY <2>1, <3>1, <3>2 DEF t
      <3>4. QED
        BY <3>2, <3>3, ServedElsewhere
    <2>3. CASE ReceiveSwitch(w)
      <3>1. PICK u \in Users, st \in {"update", "enable"} : Receive(w, [Resting EXCEPT !.st = st, !.user = u])
        BY <2>3, Zenon DEF ReceiveSwitch
      <3> DEFINE t == [Resting EXCEPT !.st = st, !.user = u]
      <3>2. t.st \in {"allowed", "update", "enable"} /\ [t EXCEPT !.id = requests'].st = t.st
        BY DEF Resting
      <3> HIDE DEF t
      <3>3. task'[w].st = t.st
        BY <2>1, <3>1, <3>2 DEF t
      <3>4. QED
        BY <3>2, <3>3, ServedElsewhere
    <2>4. QED
      BY <1>1, <2>2, <2>3
  <1>2. CASE \/ CheckLimit(w) \/ LookUp(w) \/ Verify(w) \/ Record(w) \/ CreateSession(w) \/ Reset(w)
             \/ Update(w) \/ DeleteSessions(w) \/ Enable(w)
    <2>1. End(w) \/ \E st \in {"lookup", "verify", "insert", "record", "reset", "delete"} : Goto(w, st)
      BY <1>2 DEF CheckLimit, LookUp, Verify, Refused, Record, CreateSession, Reset, Update,
                  DeleteSessions, Enable
    <2>2. task'[w].st \in {"idle", "lookup", "verify", "insert", "record", "reset", "delete"}
      BY <2>1, RestingType DEF Goto, End, TypeInv, TaskType, Task
    <2>3. QED
      BY <2>2, ServedElsewhere
  <1>3. QED
    BY <1>1, <1>2

\* Identifiers are not reused: a request keeps its own until it ends.
LEMMA FreshNext ==
  ASSUME TypeInv, Fresh, NEW w \in Workers, Work(w)
  PROVE  Fresh'
  <1>1. \A v \in Workers : v # w => task'[v] = task[v]
    BY OthersKept
  <1>2. CASE ReceiveLogin(w) \/ ReceiveSwitch(w) \/ ReceivePage(w) \/ ReceiveCall(w)
    <2>1. requests' = requests + 1 /\ task'[w].id = requests' /\ cookies' = cookies
      BY <1>2, Received
    <2>2. \A v \in Workers : task[v].id \in 0 .. requests
      BY DEF TypeInv, TaskType
    <2>3. requests \in Nat /\ cookies \subseteq 0 .. requests
      BY DEF TypeInv
    <2>4. task'[w].id \notin cookies' /\ \A v \in Workers : task[v].id # task'[w].id
      BY <2>1, <2>2, <2>3
    <2>5. QED
      BY <1>1, <2>1, <2>4 DEF Fresh, At
  <1>3. CASE Reset(w)
    <2>1. task'[w].st = "idle" /\ cookies' = cookies \cup {task[w].id} /\ ~At(w, "idle")
      BY <1>3, EndType DEF Reset, At
    <2>2. QED
      BY <1>1, <2>1 DEF Fresh, At
  <1>4. CASE task'[w].id = task[w].id \/ task'[w].st = "idle"
    <2>1. CASE ~Reset(w) /\ ~At(w, "idle")
      <3>1. cookies' = cookies
        BY <2>1 DEF Work, Quiet, ReceiveLogin, CheckLimit, LookUp, Verify, Record, CreateSession,
                    ReceiveSwitch, Update, DeleteSessions, Enable, ReceivePage, Resolve, Handle, Logout,
                    Mint, Revoke, ReceiveCall, Limit, Authorize, FindToken, Call, Fail
      <3>2. QED
        BY <1>1, <1>4, <2>1, <3>1 DEF Fresh, At
    <2>2. CASE At(w, "idle")
      <3>1. ReceiveLogin(w) \/ ReceiveSwitch(w) \/ ReceivePage(w) \/ ReceiveCall(w)
        BY <2>2 DEF Work, At, CheckLimit, LookUp, Verify, Record, CreateSession, Reset,
                    Update, DeleteSessions, Enable, Resolve, Handle, Logout,
                    Mint, Revoke, Limit, Authorize, FindToken, Call, Fail
      <3>2. QED
        BY <3>1, <1>2
    <2>3. QED
      BY <2>1, <2>2, <1>3
  <1>5. CASE \/ CheckLimit(w) \/ LookUp(w) \/ Verify(w) \/ Record(w) \/ CreateSession(w)
             \/ Update(w) \/ DeleteSessions(w) \/ Enable(w) \/ Logout(w) \/ Mint(w) \/ Revoke(w)
             \/ Limit(w) \/ Authorize(w) \/ FindToken(w) \/ Call(w) \/ Fail(w)
    <2>1. \E st \in States : Goto(w, st) \/ End(w)
      BY <1>5 DEF CheckLimit, LookUp, Verify, Refused, Record, CreateSession, Update, DeleteSessions,
                  Enable, Logout, Mint, Revoke, Limit, LetThrough, Authorize, FindToken, Call, Fail, States
    <2>2. task'[w].id = task[w].id \/ task'[w].st = "idle"
      BY <2>1, RestingType DEF Goto, End, TypeInv, TaskType, Task
    <2>3. QED
      BY <2>2, <1>4
  <1>6. CASE Resolve(w) \/ Handle(w)
    <2>1. task'[w].id = task[w].id \/ task'[w].st = "idle"
      BY <1>6, RestingType DEF Resolve, Handle, Goto, End, TypeInv, TaskType, Task
    <2>2. QED
      BY <2>1, <1>4
  <1>7. QED
    BY <1>2, <1>3, <1>5, <1>6 DEF Work

LEMMA EndedNext ==
  ASSUME TypeInv, TokensType, Fresh, \A v \in Workers : Served(v), [Next]_vars
  PROVE  Fresh' /\ \A v \in Workers : Served(v)'
  <1>1. CASE UNCHANGED vars \/ Tick \/ ReapTries \/ ReapBuckets
    <2>1. UNCHANGED <<task, cookies>>
      BY <1>1 DEF vars, Quiet, Tick, ReapTries, ReapBuckets
    <2>2. QED
      BY <2>1, ServedKept DEF Fresh, At
  <1>2. ASSUME NEW w \in Workers, Work(w)
        PROVE  Fresh' /\ \A v \in Workers : Served(v)'
    <2>1. Served(w)'
      BY <1>2, LoginServed, PageServed, CallServed DEF Work
    <2>2. \A v \in Workers : v # w => Served(v)'
      BY <1>2, OthersKept, ServedKept
    <2>3. QED
      BY <1>2, <2>1, <2>2, FreshNext
  <1>3. QED
    BY <1>1, <1>2 DEF Next

(* What had ended when a request arrived does not get it served, for every   *)
(* number of workers, sessions and keys.                                     *)
THEOREM WhatEndedStaysEnded == Spec => []EndedStaysEnded
  <1> DEFINE Inv == TypeInv /\ TokensType /\ Fresh /\ \A v \in Workers : Served(v)
  <1>1. Init => Inv
    <2>1. Init => Fresh /\ \A v \in Workers : Served(v)
      BY RestingType DEF Init, Fresh, Served, At
    <2>2. QED
      BY <2>1, TypeInvInit, TokensInit
  <1>2. Inv /\ [Next]_vars => Inv'
    BY TypeInvNext, TokensStep, EndedNext
  <1>3. Inv => EndedStaysEnded
    BY DEF EndedStaysEnded, Served, At
  <1> HIDE DEF Inv
  <1>4. QED
    BY <1>1, <1>2, <1>3, PTL DEF Spec

------------------------------------------------------------------------------
(* The limit on log-ins.  Every failure that still counts has been recorded, or  *)
(* a worker is about to; when an attempt is let in, those recorded are fewer     *)
(* than the limit, and from then on each worker adds at most one of its own.     *)

Attempts == [id : Nat, at : Nat]

Recent(u) == {x \in failures[u] : x.at > now - LoginWindow}
Trying(u) == {w \in Workers : task[w].user = u /\ task[w].st \in {"lookup", "verify"}}
Noting(u) == {w \in Workers : task[w].user = u /\ task[w].st = "record"}

Started == \A w \in Workers : task[w].at <= now

LimitAt(u) ==
  /\ tries[u] \subseteq Attempts /\ IsFiniteSet(tries[u])
  /\ failures[u] \subseteq Attempts /\ IsFiniteSet(failures[u])
  /\ \A x \in Recent(u) : x \in tries[u] \/ \E w \in Noting(u) : x = Attempt(w)
  /\ Cardinality(Recent(u)) + Cardinality(Trying(u)) <= LoginTries - 1 + Cardinality(Workers)

LimitInv ==
  /\ tries \in [Users -> SUBSET Attempts] /\ failures \in [Users -> SUBSET Attempts]
  /\ Started
  /\ \A u \in Users : LimitAt(u)

LEMMA RestingAt == Resting.at = 0
  BY DEF Resting

\* A request keeps the time it arrived at.
LEMMA StartedNext ==
  ASSUME TypeInv, Started, [Next]_vars
  PROVE  Started'
  <1>0. now \in Nat /\ \A v \in Workers : task[v] \in Task /\ task[v].at \in Nat
    BY DEF TypeInv, TaskType, Task
  <1>1. CASE UNCHANGED vars \/ Tick \/ ReapTries \/ ReapBuckets
    <2>1. UNCHANGED task /\ (now' = now \/ now' = now + 1)
      BY <1>1 DEF vars, Quiet, Tick, ReapTries, ReapBuckets
    <2>2. QED
      BY <1>0, <2>1 DEF Started
  <1>2. ASSUME NEW w \in Workers, Work(w) PROVE Started'
    <2>1. \A v \in Workers : v # w => task'[v] = task[v]
      BY <1>2, OthersKept
    <2>2. now' = now
      BY <1>2 DEF Work, Quiet, ReceiveLogin, CheckLimit, LookUp, Verify, Record, CreateSession, Reset,
                  ReceiveSwitch, Update, DeleteSessions, Enable, ReceivePage, Resolve, Handle, Logout,
                  Mint, Revoke, ReceiveCall, Limit, Authorize, FindToken, Call, Fail
    <2>3. task'[w].at \in {task[w].at, 0, now}
      <3>1. CASE ReceiveLogin(w) \/ ReceiveSwitch(w) \/ ReceivePage(w) \/ ReceiveCall(w)
        BY <3>1, Received
      <3>2. CASE \E st \in States : Goto(w, st) \/ End(w)
        BY <3>2, <1>0, RestingAt DEF Goto, End, TypeInv, TaskType, Task
      <3>3. CASE \/ CheckLimit(w) \/ LookUp(w) \/ Verify(w) \/ Record(w) \/ CreateSession(w) \/ Reset(w)
                 \/ Update(w) \/ DeleteSessions(w) \/ Enable(w) \/ Logout(w) \/ Mint(w) \/ Revoke(w)
                 \/ Limit(w) \/ Authorize(w) \/ FindToken(w) \/ Call(w) \/ Fail(w)
        <4>1. \E st \in States : Goto(w, st) \/ End(w)
          BY <3>3 DEF CheckLimit, LookUp, Verify, Refused, Record, CreateSession, Reset, Update, DeleteSessions,
                  Enable, Logout, Mint, Revoke, Limit, LetThrough, Authorize, FindToken, Call, Fail, States
        <4> QED
          BY <4>1, <3>2
      <3>4. CASE Resolve(w) \/ Handle(w)
        BY <3>4, RestingAt DEF Resolve, Handle, Goto, End, TypeInv, TaskType, Task
      <3> QED
        BY <1>2, <3>1, <3>3, <3>4 DEF Work
    <2> QED
      BY <1>0, <2>1, <2>2, <2>3 DEF Started
  <1> QED
    BY <1>1, <1>2 DEF Next

\* What is neither a check nor the end of a log-in.
LEMMA OtherWork ==
  ASSUME TypeInv, NEW w \in Workers, Work(w),
         ~CheckLimit(w), ~LookUp(w), ~Verify(w), ~Record(w), ~Reset(w)
  PROVE  /\ UNCHANGED <<now, tries, failures>>
         /\ task[w].st # "record" /\ task'[w].st \notin {"lookup", "verify", "record"}
  <1>1. CASE ReceiveLogin(w) \/ ReceiveSwitch(w) \/ ReceivePage(w) \/ ReceiveCall(w)
    <2>1. UNCHANGED <<now, tries, failures>> /\ task[w].st = "idle"
      BY <1>1 DEF ReceiveLogin, ReceiveSwitch, ReceivePage, ReceiveCall, Receive, At, limiters, ghosts
    <2>2. task'[w].st \in {"allowed", "update", "enable", "resolve", "limit"}
      BY <1>1, Received
    <2> QED
      BY <2>1, <2>2
  <1>2. CASE CreateSession(w) \/ Update(w) \/ DeleteSessions(w) \/ Enable(w) \/ Logout(w) \/ Mint(w) \/ Revoke(w)
             \/ Limit(w) \/ Authorize(w) \/ FindToken(w) \/ Call(w) \/ Fail(w)
    <2>1. UNCHANGED <<now, tries, failures>> /\ task[w].st # "record"
      BY <1>2 DEF CreateSession, Update, DeleteSessions, Enable, Logout, Mint, Revoke, Limit, LetThrough,
                  Authorize, FindToken, Call, Fail, At, limiters, ghosts, QuietGhosts, Quiet
    <2>2. End(w) \/ \E st \in {"reset", "delete", "bearer", "token", "call"} : Goto(w, st)
      BY <1>2 DEF CreateSession, Update, DeleteSessions, Enable, Logout, Mint, Revoke, Limit, LetThrough,
                  Authorize, FindToken, Call, Fail
    <2>3. task'[w].st \in {"idle", "reset", "delete", "bearer", "token", "call"}
      BY <2>2, RestingType DEF Goto, End, TypeInv, TaskType, Task
    <2> QED
      BY <2>1, <2>3
  <1>3. CASE Resolve(w) \/ Handle(w)
    <2>1. UNCHANGED <<now, tries, failures>> /\ task[w].st \in {"resolve", "page"}
      BY <1>3 DEF Resolve, Handle, At, limiters, ghosts, QuietGhosts, Quiet
    <2>2. task'[w].st \in {"idle", "page", "logout", "mint", "revoke"}
      BY <1>3, RestingType DEF Resolve, Handle, Goto, End, TypeInv, TaskType, Task
    <2> QED
      BY <2>1, <2>2
  <1> QED
    BY <1>1, <1>2, <1>3 DEF Work

\* The sets counted are finite.
LEMMA Counted ==
  ASSUME NEW u, IsFiniteSet(failures[u])
  PROVE  /\ IsFiniteSet(Recent(u)) /\ Cardinality(Recent(u)) \in Nat
         /\ IsFiniteSet(Trying(u)) /\ Cardinality(Trying(u)) \in Nat
         /\ IsFiniteSet(Noting(u)) /\ Cardinality(Noting(u)) \in Nat
         /\ Cardinality(Workers) \in Nat
         /\ Cardinality(Trying(u)) <= Cardinality(Workers)
  <1>1. Recent(u) \in SUBSET failures[u] /\ Trying(u) \in SUBSET Workers /\ Noting(u) \in SUBSET Workers
    BY DEF Recent, Trying, Noting
  <1> QED
    BY <1>1, WorkersAssumption, FS_Subset, FS_CardinalityType

\* Nothing happens to the log-ins of u but that some are forgotten, and time passes.
LEMMA LimitKept ==
  ASSUME NEW u \in Users, LimitAt(u), now \in Nat, now' \in Nat, now <= now',
         tries'[u] \subseteq tries[u], failures'[u] = failures[u],
         \A x \in tries[u] : x.at > now' - LoginWindow => x \in tries'[u],
         Trying(u)' \subseteq Trying(u),
         \A w \in Noting(u) : task'[w] = task[w]
  PROVE  LimitAt(u)'
  <1>0. LoginWindow \in Nat /\ LoginTries \in Nat
    BY LimitsAssumption
  <1>1. Recent(u)' \subseteq Recent(u)
    BY <1>0 DEF Recent, LimitAt, Attempts
  <1>2. ASSUME NEW x \in Recent(u)' PROVE x \in tries'[u] \/ \E w \in Noting(u)' : x = Attempt(w)'
    <2>1. x \in Recent(u) /\ x.at > now' - LoginWindow
      BY <1>1 DEF Recent
    <2>2. ASSUME NEW w \in Noting(u), x = Attempt(w) PROVE w \in Noting(u)' /\ x = Attempt(w)'
      BY <2>2 DEF Noting, Attempt
    <2> QED
      BY <2>1, <2>2 DEF LimitAt
  <1>3. /\ Cardinality(Recent(u)') <= Cardinality(Recent(u)) /\ Cardinality(Recent(u)') \in Nat
        /\ Cardinality(Trying(u)') <= Cardinality(Trying(u)) /\ Cardinality(Trying(u)') \in Nat
    BY <1>1, Counted, FS_Subset, FS_CardinalityType DEF LimitAt
  <1>4. tries'[u] \subseteq Attempts /\ IsFiniteSet(tries'[u])
    BY FS_Subset DEF LimitAt
  <1>5. Cardinality(Recent(u)') + Cardinality(Trying(u)') <= LoginTries - 1 + Cardinality(Workers)
    BY <1>0, <1>3, Counted DEF LimitAt
  <1> QED
    BY <1>2, <1>4, <1>5 DEF LimitAt

\* An attempt is let in.
LEMMA LimitPassed ==
  ASSUME NEW u \in Users, LimitAt(u), NEW w \in Workers, now \in Nat, now' = now, task[w].user = u,
         task[w].at \in Nat, task[w].at <= now, At(w, "allowed"), failures'[u] = failures[u],
         tries'[u] = Prune(tries[u], task[w].at), Allowed(tries'[u]),
         task' = [task EXCEPT ![w].st = "lookup"], task \in [Workers -> Task]
  PROVE  LimitAt(u)'
  <1>0. LoginWindow \in Nat /\ LoginTries \in Nat
    BY LimitsAssumption
  <1> DEFINE kept == tries'[u]
             held == {Attempt(v) : v \in Noting(u)}
  <1>1. kept \in SUBSET tries[u] /\ IsFiniteSet(kept) /\ Cardinality(kept) \in Nat /\ Cardinality(kept) < LoginTries
    BY FS_Subset, FS_CardinalityType DEF LimitAt, Prune, Allowed
  <1>2. Recent(u)' = Recent(u)
    BY DEF Recent
  <1>3. Recent(u) \subseteq kept \cup held
    BY <1>0 DEF LimitAt, Recent, Prune, Attempts
  <1>4. IsFiniteSet(held) /\ Cardinality(held) \in Nat /\ Cardinality(held) <= Cardinality(Noting(u))
    <2> DEFINE f == [v \in Noting(u) |-> Attempt(v)]
    <2>1. f \in Surjection(Noting(u), held)
      BY DEF Surjection
    <2> HIDE DEF f, held
    <2> QED
      BY <2>1, Counted, FS_Surjection, FS_CardinalityType DEF LimitAt
  <1> HIDE DEF held, kept
  <1>5. Cardinality(Recent(u)) <= Cardinality(kept) + Cardinality(held)
    <2>1. IsFiniteSet(kept \cup held) /\ Cardinality(kept \cup held) = Cardinality(kept) + Cardinality(held) - Cardinality(kept \cap held)
      BY <1>1, <1>4, FS_Union
    <2>2. Cardinality(kept \cap held) \in Nat /\ Cardinality(kept \cup held) \in Nat
      BY <1>1, <1>4, <2>1, FS_Intersection, FS_CardinalityType
    <2>3. Cardinality(Recent(u)) <= Cardinality(kept \cup held)
      BY <1>3, <2>1, FS_Subset
    <2> QED
      BY <1>1, <1>4, <2>1, <2>2, <2>3, Counted DEF LimitAt
  <1>6. /\ task'[w].st = "lookup" /\ task'[w].user = u
        /\ \A v \in Workers : v # w => task'[v] = task[v]
    BY DEF Task
  <1>7. Trying(u)' \subseteq Workers /\ Noting(u) \subseteq Workers /\ Trying(u)' \cap Noting(u) = {}
    BY <1>6 DEF Trying, Noting, At
  <1>8. Cardinality(Trying(u)') + Cardinality(Noting(u)) <= Cardinality(Workers)
    <2> DEFINE T == Trying(u)'
    <2>1. IsFiniteSet(T) /\ IsFiniteSet(Noting(u)) /\ Cardinality(T) \in Nat
      BY <1>7, WorkersAssumption, FS_Subset, FS_CardinalityType
    <2>2. Cardinality(T \cup Noting(u)) = Cardinality(T) + Cardinality(Noting(u)) - Cardinality({})
      BY <1>7, <2>1, FS_Union
    <2>3. Cardinality(T \cup Noting(u)) <= Cardinality(Workers)
      BY <1>7, WorkersAssumption, FS_Subset
    <2>4. Cardinality({}) = 0
      BY FS_EmptySet
    <2> QED
      BY <2>1, <2>2, <2>3, <2>4, Counted DEF LimitAt
  <1>9. ASSUME NEW x \in Recent(u)' PROVE x \in tries'[u] \/ \E v \in Noting(u)' : x = Attempt(v)'
    <2>1. x \in kept \/ \E v \in Noting(u) : x = Attempt(v)
      BY <1>2, <1>3 DEF held
    <2>2. ASSUME NEW v \in Noting(u), x = Attempt(v) PROVE v \in Noting(u)' /\ x = Attempt(v)'
      <3>1. v # w /\ task'[v] = task[v]
        BY <1>6 DEF Noting, At
      <3> QED
        BY <2>2, <3>1 DEF Noting, Attempt
    <2> QED
      BY <2>1, <2>2 DEF kept
  <1>10. Cardinality(Trying(u)') \in Nat
    BY <1>7, WorkersAssumption, FS_Subset, FS_CardinalityType
  <1>11. Cardinality(Recent(u)') + Cardinality(Trying(u)') <= LoginTries - 1 + Cardinality(Workers)
    BY <1>0, <1>1, <1>2, <1>4, <1>5, <1>8, <1>10, Counted DEF LimitAt
  <1> QED
    BY <1>1, <1>9, <1>11 DEF LimitAt, kept

\* An attempt is refused: one failure more, and one attempt fewer under way.
LEMMA LimitRefused ==
  ASSUME NEW u \in Users, LimitAt(u), NEW w \in Workers, now \in Nat, now' = now,
         task \in [Workers -> Task], task[w].user = u, task[w].st \in {"lookup", "verify"},
         tries'[u] = tries[u], failures'[u] = failures[u] \cup {Attempt(w)}, Goto(w, "record")
  PROVE  LimitAt(u)'
  <1>0. LoginWindow \in Nat /\ LoginTries \in Nat
    BY LimitsAssumption
  <1>1. /\ task'[w].st = "record" /\ task'[w].user = u
        /\ task'[w].id = task[w].id /\ task'[w].at = task[w].at
        /\ \A v \in Workers : v # w => task'[v] = task[v]
    BY DEF Goto, Task
  <1> DEFINE a == Attempt(w)
             R == Recent(u)
             T == Trying(u)
  <1>2. Attempt(w)' = a /\ a \in Attempts
    BY <1>1 DEF Attempt, Attempts, Task
  <1>3. Recent(u)' \subseteq R \cup {a}
    BY DEF Recent
  <1>4. w \in T /\ Trying(u)' = T \ {w}
    BY <1>1 DEF Trying
  <1>5. /\ IsFiniteSet(R) /\ Cardinality(R) \in Nat /\ IsFiniteSet(T) /\ Cardinality(T) \in Nat
        /\ Cardinality(Workers) \in Nat /\ IsFiniteSet(failures[u]) /\ IsFiniteSet(tries[u])
        /\ Cardinality(R) + Cardinality(T) <= LoginTries - 1 + Cardinality(Workers)
    BY Counted DEF LimitAt
  <1>6. ASSUME NEW x \in Recent(u)' PROVE x \in tries'[u] \/ \E v \in Noting(u)' : x = Attempt(v)'
    <2>1. CASE x = a
      <3>1. w \in Noting(u)'
        BY <1>1 DEF Noting
      <3> QED
        BY <2>1, <3>1, <1>2
    <2>2. CASE x \in R
      <3>1. ASSUME NEW v \in Noting(u), x = Attempt(v) PROVE v \in Noting(u)' /\ x = Attempt(v)'
        <4>1. v # w /\ task'[v] = task[v]
          BY <1>1 DEF Noting
        <4> QED
          BY <3>1, <4>1 DEF Noting, Attempt
      <3> QED
        BY <2>2, <3>1 DEF LimitAt
    <2> QED
      BY <1>3, <2>1, <2>2
  <1> DEFINE F == failures'[u]
  <1>7. F \subseteq Attempts /\ IsFiniteSet(F)
    <2>1. IsFiniteSet(failures[u] \cup {a})
      BY <1>5, FS_AddElement, Zenon
    <2> QED
      BY <1>2, <2>1 DEF LimitAt
  <1> HIDE DEF a, R, T, F
  <1>8. Cardinality(Recent(u)') <= Cardinality(R) + 1 /\ Cardinality(Recent(u)') \in Nat
    <2>1. IsFiniteSet(R \cup {a}) /\ Cardinality(R \cup {a}) \in Nat /\ Cardinality(R \cup {a}) <= Cardinality(R) + 1
      <3>1. /\ IsFiniteSet(R \cup {a})
            /\ Cardinality(R \cup {a}) = IF a \in R THEN Cardinality(R) ELSE Cardinality(R) + 1
        BY <1>5, FS_AddElement, Zenon
      <3> QED
        BY <1>5, <3>1
    <2> QED
      BY <1>3, <1>5, <2>1, FS_Subset, FS_CardinalityType
  <1>9. Cardinality(Trying(u)') = Cardinality(T) - 1
    BY <1>4, <1>5, FS_RemoveElement
  <1>10. Cardinality(Recent(u)') + Cardinality(Trying(u)') <= LoginTries - 1 + Cardinality(Workers)
    BY <1>0, <1>5, <1>8, <1>9
  <1>11. tries'[u] \subseteq Attempts /\ IsFiniteSet(tries'[u])
    BY <1>5 DEF LimitAt
  <1> QED
    BY <1>6, <1>7, <1>10, <1>11 DEF LimitAt, F

\* A failure is recorded by the worker that held it.
LEMMA LimitRecorded ==
  ASSUME NEW u \in Users, LimitAt(u), NEW w \in Workers, now \in Nat, now' = now,
         task \in [Workers -> Task], task[w].user = u, task[w].at <= now, At(w, "record"),
         tries'[u] = Prune(tries[u], task[w].at) \cup {Attempt(w)}, failures'[u] = failures[u], End(w)
  PROVE  LimitAt(u)'
  <1>0. LoginWindow \in Nat /\ LoginTries \in Nat /\ task[w].at \in Nat
    BY LimitsAssumption DEF Task
  <1>1. task'[w].st = "idle" /\ \A v \in Workers : v # w => task'[v] = task[v]
    BY RestingType DEF End
  <1>2. Attempt(w) \in Attempts
    BY DEF Attempt, Attempts, Task
  <1>3. Recent(u)' = Recent(u)
    BY DEF Recent
  <1>4. Trying(u)' = Trying(u)
    BY <1>1 DEF Trying, At
  <1>5. tries'[u] \subseteq Attempts /\ IsFiniteSet(tries'[u])
    <2>1. Prune(tries[u], task[w].at) \subseteq tries[u]
      BY DEF Prune
    <2>2. IsFiniteSet(Prune(tries[u], task[w].at))
      BY <2>1, FS_Subset DEF LimitAt
    <2> QED
      BY <1>2, <2>1, <2>2, FS_AddElement DEF LimitAt
  <1>6. ASSUME NEW x \in Recent(u)' PROVE x \in tries'[u] \/ \E v \in Noting(u)' : x = Attempt(v)'
    <2>1. x \in Recent(u) /\ x \in Attempts /\ x.at > task[w].at - LoginWindow
      BY <1>0, <1>3 DEF Recent, LimitAt, Attempts
    <2>2. CASE x \in tries[u]
      BY <2>1, <2>2 DEF Prune
    <2>3. ASSUME NEW v \in Noting(u), x = Attempt(v), v # w PROVE v \in Noting(u)' /\ x = Attempt(v)'
      BY <1>1, <2>3 DEF Noting, Attempt
    <2>4. x \in tries[u] \/ \E v \in Noting(u) : x = Attempt(v)
      BY <2>1 DEF LimitAt
    <2> QED
      BY <2>2, <2>3, <2>4
  <1> QED
    BY <1>3, <1>4, <1>5, <1>6 DEF LimitAt

\* A log-in that succeeds forgets the failures before it.
LEMMA LimitForgotten ==
  ASSUME NEW u \in Users, tries'[u] = {}, failures'[u] = {}
  PROVE  LimitAt(u)'
  <1>1. Recent(u)' = {} /\ Trying(u)' \in SUBSET Workers
    BY DEF Recent, Trying
  <1>2. Cardinality(Trying(u)') <= Cardinality(Workers) /\ Cardinality(Trying(u)') \in Nat /\ Cardinality(Workers) \in Nat
    BY <1>1, WorkersAssumption, FS_Subset, FS_CardinalityType
  <1>3. Cardinality(Recent(u)') = 0 /\ IsFiniteSet({})
    BY <1>1, FS_EmptySet
  <1>4. Cardinality(Recent(u)') + Cardinality(Trying(u)') <= LoginTries - 1 + Cardinality(Workers)
    BY <1>2, <1>3, LimitsAssumption
  <1> QED
    BY <1>1, <1>3, <1>4 DEF LimitAt

\* A step touches the attempts of one user only.
OneUser(v) ==
  /\ tries' = [tries EXCEPT ![v] = tries'[v]]
  /\ failures' = [failures EXCEPT ![v] = failures'[v]]

\* The check of an attempt, for every user.
LEMMA CheckStep ==
  ASSUME TypeInv, LimitInv, NEW w \in Workers, CheckLimit(w), NEW u \in Users
  PROVE  LimitAt(u)' /\ OneUser(task[w].user)
  <1> DEFINE v == task[w].user
             kept == Prune(tries[v], task[w].at)
  <1>1. /\ v \in Users /\ task[w].at \in Nat /\ task \in [Workers -> Task] /\ now \in Nat
        /\ task[w].at <= now /\ tries \in [Users -> SUBSET Attempts] /\ LimitAt(u) /\ LoginWindow \in Nat
        /\ failures \in [Users -> SUBSET Attempts]
    BY LimitsAssumption DEF TypeInv, TaskType, Task, LimitInv, Started
  <1>2. /\ At(w, "allowed") /\ now' = now /\ failures' = failures
        /\ tries' = [tries EXCEPT ![v] = kept]
        /\ (Allowed(kept) /\ Goto(w, "lookup")) \/ End(w)
    BY DEF CheckLimit, Quiet, QuietGhosts, ghosts
  <1> HIDE DEF v, kept
  <1>3. OneUser(v)
    BY <1>1, <1>2 DEF OneUser
  <1>4. \A x \in Workers : x # w => task'[x] = task[x]
    BY <1>1, <1>2 DEF Goto, End
  <1>5. CASE End(w) \/ u # v
    <2>1. tries'[u] \subseteq tries[u] /\ \A x \in tries[u] : x.at > now' - LoginWindow => x \in tries'[u]
      <3>1. CASE u = v
        <4>1. tries'[u] = Prune(tries[u], task[w].at) /\ tries[u] \subseteq Attempts
          BY <1>1, <1>2, <3>1 DEF kept
        <4> QED
          BY <1>1, <1>2, <4>1 DEF Prune, Attempts
      <3>2. CASE u # v
        BY <1>1, <1>2, <3>2
      <3> QED
        BY <3>1, <3>2
    <2>2. w \notin Trying(u)'
      <3>1. CASE End(w)
        BY <1>1, <3>1, RestingType DEF End, Trying
      <3>2. CASE u # v /\ Goto(w, "lookup")
        BY <1>1, <3>2 DEF Goto, Trying, v, Task
      <3> QED
        BY <1>2, <1>5, <3>1, <3>2
    <2>3. Trying(u)' \subseteq Trying(u) /\ \A x \in Noting(u) : task'[x] = task[x]
      BY <1>2, <1>4, <2>2 DEF Trying, Noting, At
    <2> QED
      BY <1>1, <1>2, <1>3, <2>1, <2>3, LimitKept DEF v
  <1>6. CASE u = v /\ Allowed(kept) /\ Goto(w, "lookup")
    <2>1. tries'[u] = Prune(tries[u], task[w].at) /\ Allowed(tries'[u])
      BY <1>1, <1>2, <1>6 DEF kept
    <2>2. task' = [task EXCEPT ![w].st = "lookup"]
      BY <1>6 DEF Goto
    <2> QED
      BY <1>1, <1>2, <1>3, <1>6, <2>1, <2>2, LimitPassed DEF v
  <1> QED
    BY <1>2, <1>5, <1>6

\* The two ends of a look at the password, for every user.
LEMMA TryStep ==
  ASSUME TypeInv, LimitInv, NEW w \in Workers, LookUp(w) \/ Verify(w), NEW u \in Users
  PROVE  LimitAt(u)' /\ OneUser(task[w].user)
  <1> DEFINE v == task[w].user
  <1>1. /\ v \in Users /\ task \in [Workers -> Task] /\ now \in Nat
        /\ LimitAt(u) /\ LoginWindow \in Nat
        /\ tries \in [Users -> SUBSET Attempts] /\ failures \in [Users -> SUBSET Attempts]
    BY LimitsAssumption DEF TypeInv, TaskType, Task, LimitInv
  <1>2. /\ task[w].st \in {"lookup", "verify"} /\ now' = now /\ tries' = tries
        /\ \/ Goto(w, "record") /\ failures' = [failures EXCEPT ![v] = @ \cup {Attempt(w)}]
           \/ failures' = failures /\ (Goto(w, "verify") \/ Goto(w, "insert"))
    BY DEF LookUp, Verify, Refused, Quiet, QuietGhosts, ghosts, limiters, At
  <1> HIDE DEF v
  <1>3. OneUser(v)
    BY <1>1, <1>2 DEF OneUser
  <1>4. /\ \A x \in Workers : x # w => task'[x] = task[x]
        /\ task'[w].user = v
    BY <1>1, <1>2 DEF Goto, v, Task
  <1>5. CASE u = v /\ Goto(w, "record")
    <2>1. task'[w].st = "record"
      BY <1>1, <1>5 DEF Goto, Task
    <2>2. ~Goto(w, "verify") /\ ~Goto(w, "insert")
      BY <1>1, <2>1 DEF Goto, Task
    <2>3. failures'[u] = failures[u] \cup {Attempt(w)} /\ tries'[u] = tries[u]
      BY <1>1, <1>2, <1>5, <2>2
    <2> QED
      BY <1>1, <1>2, <1>3, <1>5, <2>3, LimitRefused DEF v
  <1>6. CASE u # v \/ failures' = failures
    <2>1. failures'[u] = failures[u] /\ tries'[u] = tries[u]
      BY <1>1, <1>2, <1>6
    <2>2. Trying(u)' \subseteq Trying(u) /\ \A x \in Noting(u) : task'[x] = task[x]
      BY <1>2, <1>4 DEF Trying, Noting, v
    <2> QED
      BY <1>1, <1>2, <1>3, <2>1, <2>2, LimitKept DEF v
  <1> QED
    BY <1>2, <1>5, <1>6

\* A failure recorded, and a log-in that succeeds, for every user.
LEMMA EndStep ==
  ASSUME TypeInv, LimitInv, NEW w \in Workers, Record(w) \/ Reset(w), NEW u \in Users
  PROVE  LimitAt(u)' /\ OneUser(task[w].user)
  <1> DEFINE v == task[w].user
  <1>1. /\ v \in Users /\ task \in [Workers -> Task] /\ now \in Nat /\ task[w].at <= now
        /\ LimitAt(u) /\ LoginWindow \in Nat
        /\ tries \in [Users -> SUBSET Attempts] /\ failures \in [Users -> SUBSET Attempts]
    BY LimitsAssumption DEF TypeInv, TaskType, Task, LimitInv, Started
  <1>2. /\ now' = now /\ End(w)
        /\ \/ /\ At(w, "record") /\ failures' = failures
              /\ tries' = [tries EXCEPT ![v] = Prune(@, task[w].at) \cup {Attempt(w)}]
           \/ /\ At(w, "reset")
              /\ tries' = [tries EXCEPT ![v] = {}] /\ failures' = [failures EXCEPT ![v] = {}]
    BY DEF Record, Reset, Quiet, QuietGhosts, ghosts
  <1> HIDE DEF v
  <1>3. OneUser(v)
    BY <1>1, <1>2 DEF OneUser
  <1>4. task'[w].st = "idle" /\ \A x \in Workers : x # w => task'[x] = task[x]
    BY <1>1, <1>2, RestingType DEF End
  <1>5. CASE u # v
    <2>1. failures'[u] = failures[u] /\ tries'[u] = tries[u]
      BY <1>1, <1>2, <1>5
    <2>2. Trying(u)' \subseteq Trying(u) /\ \A x \in Noting(u) : task'[x] = task[x]
      BY <1>4, <1>5 DEF Trying, Noting, v
    <2> QED
      BY <1>1, <1>2, <1>3, <2>1, <2>2, LimitKept DEF v
  <1>6. CASE u = v /\ At(w, "reset")
    <2>1. tries'[u] = {} /\ failures'[u] = {}
      BY <1>1, <1>2, <1>6 DEF At
    <2> QED
      BY <1>3, <2>1, LimitForgotten DEF v
  <1>7. CASE u = v /\ At(w, "record")
    <2>1. failures'[u] = failures[u] /\ tries'[u] = Prune(tries[u], task[w].at) \cup {Attempt(w)}
      BY <1>1, <1>2, <1>7 DEF At
    <2> QED
      BY <1>1, <1>2, <1>3, <1>7, <2>1, LimitRecorded DEF v
  <1> QED
    BY <1>2, <1>5, <1>6, <1>7

\* What no worker does, for every user.
LEMMA QuietStep ==
  ASSUME TypeInv, LimitInv, UNCHANGED vars \/ Tick \/ ReapTries \/ ReapBuckets, NEW u \in Users
  PROVE  LimitAt(u)' /\ \E v \in Users : OneUser(v)
  <1>1. /\ now \in Nat /\ LimitAt(u) /\ LoginWindow \in Nat
        /\ tries \in [Users -> SUBSET Attempts] /\ failures \in [Users -> SUBSET Attempts]
    BY LimitsAssumption DEF TypeInv, LimitInv
  <1>2. task' = task /\ failures' = failures /\ (now' = now \/ now' = now + 1)
    BY DEF vars, Quiet, QuietGhosts, ghosts, Tick, ReapTries, ReapBuckets
  <1>3. Trying(u)' = Trying(u) /\ \A x \in Noting(u) : task'[x] = task[x]
    BY <1>2 DEF Trying
  <1>4. CASE tries' = tries
    <2>1. OneUser(u)
      BY <1>1, <1>2, <1>4 DEF OneUser
    <2> QED
      BY <1>1, <1>2, <1>3, <1>4, <2>1, LimitKept
  <1>5. CASE ReapTries
    <2>1. PICK v \in Users : Prune(tries[v], now) = {} /\ tries' = [tries EXCEPT ![v] = {}]
      BY <1>5 DEF ReapTries
    <2>2. OneUser(v)
      BY <1>1, <1>2, <2>1 DEF OneUser
    <2>3. now' = now
      BY <1>5 DEF ReapTries, Quiet
    <2>4. tries'[u] \subseteq tries[u] /\ \A x \in tries[u] : x.at > now' - LoginWindow => x \in tries'[u]
      BY <1>1, <2>1, <2>3 DEF Prune
    <2> QED
      BY <1>1, <1>2, <1>3, <2>2, <2>3, <2>4, LimitKept
  <1> QED
    BY <1>4, <1>5 DEF vars, limiters, Tick, ReapBuckets

LEMMA LimitNext ==
  ASSUME TypeInv, LimitInv, [Next]_vars
  PROVE  LimitInv'
  <1>1. (\A u \in Users : LimitAt(u)') /\ \E v \in Users : OneUser(v)
    <2>1. CASE UNCHANGED vars \/ Tick \/ ReapTries \/ ReapBuckets
      BY <2>1, QuietStep, UsersAssumption
    <2>2. ASSUME NEW w \in Workers, Work(w)
          PROVE  (\A u \in Users : LimitAt(u)') /\ \E v \in Users : OneUser(v)
      <3>0. task[w].user \in Users
        BY DEF TypeInv, TaskType, Task
      <3>1. CASE CheckLimit(w)
        BY <3>0, <3>1, CheckStep
      <3>2. CASE LookUp(w) \/ Verify(w)
        BY <3>0, <3>2, TryStep
      <3>3. CASE Record(w) \/ Reset(w)
        BY <3>0, <3>3, EndStep
      <3>4. CASE ~CheckLimit(w) /\ ~LookUp(w) /\ ~Verify(w) /\ ~Record(w) /\ ~Reset(w)
        <4>1. /\ UNCHANGED <<now, tries, failures>>
              /\ task[w].st # "record" /\ task'[w].st \notin {"lookup", "verify", "record"}
          BY <2>2, <3>4, OtherWork
        <4>2. \A x \in Workers : x # w => task'[x] = task[x]
          BY <2>2, OthersKept
        <4>3. ASSUME NEW u \in Users PROVE LimitAt(u)' /\ OneUser(u)
          <5>1. Trying(u)' \subseteq Trying(u) /\ \A x \in Noting(u) : task'[x] = task[x]
            BY <4>1, <4>2 DEF Trying, Noting
          <5>2. LimitAt(u) /\ now \in Nat
            BY DEF LimitInv, TypeInv
          <5>3. OneUser(u)
            BY <4>1 DEF OneUser, LimitInv
          <5> QED
            BY <4>1, <5>1, <5>2, <5>3, LimitKept
        <4> QED
          BY <3>0, <4>3
      <3> QED
        BY <3>1, <3>2, <3>3, <3>4
    <2> QED
      BY <2>1, <2>2 DEF Next
  <1>2. PICK v \in Users : OneUser(v)
    BY <1>1
  <1>3. tries'[v] \in SUBSET Attempts /\ failures'[v] \in SUBSET Attempts
    BY <1>1 DEF LimitAt
  <1>4. tries' \in [Users -> SUBSET Attempts] /\ failures' \in [Users -> SUBSET Attempts]
    BY <1>2, <1>3, Zenon DEF OneUser, LimitInv
  <1>5. Started'
    BY StartedNext DEF LimitInv
  <1> QED
    BY <1>1, <1>4, <1>5 DEF LimitInv

(* However the log-ins of a name overlap, no more of them fail within a window   *)
(* than the limit and the other workers account for.                             *)
THEOREM FailedLoginsAreLimited == Spec => []FailuresLimited
  <1> DEFINE Inv == TypeInv /\ TokensType /\ LimitInv
  <1>1. Init => Inv
    <2> SUFFICES ASSUME Init PROVE LimitInv
      BY TypeInvInit, TokensInit
    <2>1. now = 0 /\ Started
      BY RestingAt DEF Init, Started
    <2>2. tries \in [Users -> SUBSET Attempts] /\ failures \in [Users -> SUBSET Attempts]
      BY DEF Init
    <2>3. ASSUME NEW u \in Users PROVE LimitAt(u)
      <3>1. tries[u] = {} /\ failures[u] = {} /\ Recent(u) = {} /\ Trying(u) = {}
        BY RestingType DEF Init, Recent, Trying
      <3>2. Cardinality({}) = 0 /\ IsFiniteSet({}) /\ Cardinality(Workers) \in Nat
        BY FS_EmptySet, FS_CardinalityType, WorkersAssumption
      <3> QED
        BY <3>1, <3>2, LimitsAssumption DEF LimitAt
    <2> QED
      BY <2>1, <2>2, <2>3 DEF LimitInv
  <1>2. Inv /\ [Next]_vars => Inv'
    BY TypeInvNext, TokensStep, LimitNext
  <1>3. Inv => FailuresLimited
    <2> SUFFICES ASSUME Inv, NEW u \in Users
                 PROVE  Cardinality(Recent(u)) <= LoginTries - 1 + Cardinality(Workers)
      BY DEF FailuresLimited, Recent
    <2> QED
      BY Counted, LimitsAssumption DEF LimitInv, LimitAt
  <1> HIDE DEF Inv
  <1>4. QED
    BY <1>1, <1>2, <1>3, PTL DEF Spec

------------------------------------------------------------------------------
(* Tenants *)

\* Where a request is: reading its headers, before its insert, or in its scope.
Heading == {"select", "member", "space"}
Before == Heading \cup {"quota", "usage", "taken", "insert"}
Inside == {"quota", "usage", "taken", "insert", "found", "first", "owner", "open", "issue", "attach", "write",
           "find", "delete", "limit", "room", "source", "target", "observe"}
CallPlaces == {"idle"} \cup Heading \cup Inside

Calls == [st : CallPlaces, id : 0 .. MaxCalls, op : Operations, web : BOOLEAN, user : People \cup {Nobody},
         tenant : Slugs, asked : Slugs \cup {NoSlug}, space : Spaces, name : Titles \cup Slugs \cup {NoSlug},
         row : 0 .. MaxCalls, other : 0 .. MaxCalls]

(* What a call has chosen by the place it is at. *)
NamesChosen ==
  \A h \in Handlers :
    /\ In(h, "insert") => calls[h].name \in Titles
    /\ calls[h].st \in {"first", "owner"} => calls[h].name \in Slugs
    /\ In(h, "owner") => calls[h].user \in People

(* Nobody is in a tenant he may not enter, nor has anything there. *)
Admitted ==
  /\ \A h \in Handlers : MayEnter(calls[h].user, calls[h].tenant)
  /\ \A k \in keys : MayEnter(k.user, k.home)
  /\ \A p \in projects : MayEnter(p.by, p.tenant)

(* A workspace that was found stays, and so does that of a project. *)
Housed ==
  /\ \A h \in Handlers : calls[h].st \in Inside => <<calls[h].tenant, calls[h].space>> \in spaces
  /\ \A p \in projects : <<p.tenant, p.space>> \in spaces

(* A request has a number of its own, under which it inserts at most once. *)
Numbered ==
  /\ \A h \in Handlers : ~In(h, "idle") => calls[h].id \in 1 .. served
  /\ \A g, h \in Handlers : g # h /\ ~In(g, "idle") /\ ~In(h, "idle") => calls[g].id # calls[h].id
  /\ \A p \in projects : p.id \in 1 .. served
  /\ \A p, q \in projects : p.id = q.id => p = q
  /\ \A h \in Handlers : calls[h].st \in Before => \A p \in projects : p.id # calls[h].id

(* The number of a project a request has seen in its scope: whatever became  *)
(* of the project, no other will have the number.                            *)
Seen(h, row) ==
  /\ row \in 1 .. served
  /\ \A p \in projects : p.id = row => p \in Scope(calls[h])
  /\ \A g \in Handlers : calls[g].st \in Before => calls[g].id # row

Remembered ==
  \A h \in Handlers :
    /\ calls[h].st \in {"target", "observe"} => Seen(h, calls[h].row)
    /\ In(h, "observe") /\ calls[h].other # 0 => Seen(h, calls[h].other)

EdgesJoin ==
  \A e \in edges : \A id \in {e.source, e.target} \ {0} :
    \E p \in projects : p.id = id /\ p.tenant = e.tenant /\ p.space = e.space

Typed == TenantsTypeOK /\ calls \in [Handlers -> Calls] /\ NamesChosen

TenantsInv == Typed /\ Admitted /\ Housed /\ Numbered /\ Remembered /\ EdgesJoin

------------------------------------------------------------------------------
(* What a step does to the requests *)

\* The request that takes a step is where it was, for the same user, in the same
\* tenant and workspace, under the same number.
SameScope(h) ==
  /\ calls'[h].id = calls[h].id /\ calls'[h].user = calls[h].user
  /\ calls'[h].tenant = calls[h].tenant /\ calls'[h].space = calls[h].space

\* Where a request goes from where it is.
Ways == {<<"select", "member">>, <<"space", "found">>, <<"space", "open">>, <<"space", "quota">>, <<"space", "find">>,
         <<"space", "delete">>, <<"space", "limit">>, <<"space", "issue">>, <<"found", "first">>, <<"first", "owner">>,
         <<"quota", "usage">>, <<"quota", "taken">>, <<"usage", "taken">>, <<"taken", "insert">>,
         <<"insert", "attach">>, <<"insert", "write">>, <<"attach", "write">>, <<"find", "write">>,
         <<"limit", "room">>, <<"limit", "source">>, <<"room", "source">>, <<"source", "target">>,
         <<"target", "observe">>}

Goes(h) == <<calls[h].st, calls'[h].st>> \in Ways /\ SameScope(h)

Starts(h) ==
  /\ In(h, "idle") /\ calls'[h].st = "select" /\ served' = served + 1 /\ calls'[h].id = served'
  /\ MayEnter(calls'[h].user, calls'[h].tenant)

Enters(h) ==
  /\ calls[h].st \in {"select", "member"} /\ calls'[h].st = "space"
  /\ calls'[h].id = calls[h].id /\ calls'[h].user = calls[h].user /\ calls'[h].space = calls[h].space
  /\ MayEnter(calls'[h].user, calls'[h].tenant)

LEMMA WaitingCall == Waiting \in Calls /\ Waiting.st = "idle" /\ Waiting.tenant = Main /\ Waiting.user = Nobody
  BY TenantsAssumption DEF Waiting, Calls, CallPlaces, Operations

LEMMA AnsweredCall ==
  ASSUME calls \in [Handlers -> Calls], NEW h \in Handlers, Answered(h)
  PROVE  /\ calls' \in [Handlers -> Calls] /\ calls'[h] = Waiting
         /\ \A g \in Handlers \ {h} : calls'[g] = calls[g]
  BY WaitingCall DEF Answered

LEMMA ThenCall ==
  ASSUME calls \in [Handlers -> Calls], NEW h \in Handlers, NEW st \in CallPlaces, Then(h, st)
  PROVE  /\ calls' \in [Handlers -> Calls] /\ calls'[h].st = st /\ SameScope(h) /\ calls'[h].name = calls[h].name
         /\ \A g \in Handlers \ {h} : calls'[g] = calls[g]
  <1> DEFINE c == [calls[h] EXCEPT !.st = st]
  <1>1. calls' = [calls EXCEPT ![h] = c]
    BY DEF Then
  <1>2. calls[h] \in Calls
    OBVIOUS
  <1>3. /\ c \in Calls /\ c.st = st /\ c.id = calls[h].id /\ c.user = calls[h].user /\ c.tenant = calls[h].tenant
        /\ c.space = calls[h].space /\ c.name = calls[h].name
    BY <1>2 DEF Calls
  <1> HIDE DEF c
  <1>4. QED
    BY <1>1, <1>3 DEF SameScope

LEMMA EnterCall ==
  ASSUME calls \in [Handlers -> Calls], NEW h \in Handlers, NEW t \in Slugs, Enter(h, t)
  PROVE  /\ calls' \in [Handlers -> Calls] /\ calls'[h].st = "space" /\ calls'[h].tenant = t
         /\ calls'[h].id = calls[h].id /\ calls'[h].user = calls[h].user /\ calls'[h].space = calls[h].space
         /\ \A g \in Handlers \ {h} : calls'[g] = calls[g]
  <1> DEFINE c == [calls[h] EXCEPT !.st = "space", !.tenant = t, !.asked = NoSlug]
  <1>1. calls' = [calls EXCEPT ![h] = c]
    BY DEF Enter
  <1>2. calls[h] \in Calls
    OBVIOUS
  <1>3. /\ c \in Calls /\ c.st = "space" /\ c.id = calls[h].id /\ c.user = calls[h].user /\ c.tenant = t
        /\ c.space = calls[h].space
    BY <1>2 DEF Calls, CallPlaces, Heading
  <1> HIDE DEF c
  <1>4. QED
    BY <1>1, <1>3

\* A request arrives.
LEMMA ArriveCall ==
  ASSUME Typed, Admitted, NEW h \in Handlers, Arrive(h)
  PROVE  /\ calls' \in [Handlers -> Calls] /\ Starts(h)
         /\ \A g \in Handlers \ {h} : calls'[g] = calls[g]
  <1>1. PICK who \in keys \cup [home : {Main}, user : People], web \in BOOLEAN, op \in Operations,
             asked \in Slugs \cup {NoSlug}, space \in Spaces :
          /\ web => who.home = Main /\ who.user \in People
          /\ ~web => who \in keys
          /\ web => op \notin {"tenant", "space", "edges"}
          /\ ~web => op # "key"
          /\ calls' = [calls EXCEPT ![h] = [Waiting EXCEPT !.st = "select", !.id = served', !.op = op, !.web = web,
                      !.user = who.user, !.tenant = who.home, !.asked = asked, !.space = space]]
    BY Zenon DEF Arrive
  <1> DEFINE c == [Waiting EXCEPT !.st = "select", !.id = served', !.op = op, !.web = web,
                     !.user = who.user, !.tenant = who.home, !.asked = asked, !.space = space]
  <1>2. In(h, "idle") /\ served' = served + 1 /\ served' \in 0 .. MaxCalls
    BY TenantsAssumption DEF Arrive, Typed, TenantsTypeOK
  <1>3. who.user \in People \cup {Nobody} /\ who.home \in Slugs /\ MayEnter(who.user, who.home)
    BY TenantsAssumption DEF Typed, TenantsTypeOK, Admitted, MayEnter
  <1>4. c \in Calls /\ c.st = "select" /\ c.id = served' /\ c.user = who.user /\ c.tenant = who.home
    <2>1. "select" \in CallPlaces
      BY DEF CallPlaces, Heading
    <2>2. QED
      BY <1>2, <1>3, <2>1, WaitingCall DEF Calls
  <1>5. calls \in [Handlers -> Calls] /\ calls' = [calls EXCEPT ![h] = c]
    BY <1>1 DEF Typed
  <1> HIDE DEF c
  <1>6. /\ calls' \in [Handlers -> Calls] /\ calls'[h] = c
        /\ \A g \in Handlers \ {h} : calls'[g] = calls[g]
    BY <1>4, <1>5
  <1>7. MayEnter(c.user, c.tenant)
    BY <1>3, <1>4
  <1>8. QED
    BY <1>2, <1>4, <1>6, <1>7 DEF Starts

\* The headers are read: the request stays out, or it is let in.
LEMMA HeaderCall ==
  ASSUME Typed, Admitted, NEW h \in Handlers, Select(h) \/ CheckMember(h)
  PROVE  /\ calls' \in [Handlers -> Calls]
         /\ calls'[h] = Waiting \/ Goes(h) \/ Enters(h)
         /\ \A g \in Handlers \ {h} : calls'[g] = calls[g]
  <1>1. calls \in [Handlers -> Calls] /\ calls[h] \in Calls
    BY DEF Typed
  <1>2. calls[h].st \in {"select", "member"}
    BY DEF Select, CheckMember, In
  <1>3. CASE Answered(h)
    BY <1>1, <1>3, AnsweredCall
  <1>4. CASE Select(h) /\ Then(h, "member")
    <2>1. "member" \in CallPlaces
      BY DEF CallPlaces, Heading
    <2>2. calls[h].st = "select"
      BY <1>4 DEF Select, In
    <2>3. QED
      BY <1>1, <1>4, <2>1, <2>2, ThenCall DEF Goes, Ways
  <1>5. ASSUME NEW t \in Slugs, Enter(h, t), MayEnter(calls[h].user, t)
        PROVE  /\ calls' \in [Handlers -> Calls] /\ Enters(h)
               /\ \A g \in Handlers \ {h} : calls'[g] = calls[g]
    BY <1>1, <1>2, <1>5, EnterCall DEF Enters
  <1>6. CASE Select(h)
    <2>1. CASE calls[h].asked = NoSlug
      <3>1. Enter(h, calls[h].tenant)
        BY <1>6, <2>1, TenantsAssumption DEF Select, Typed, TenantsTypeOK
      <3>2. calls[h].tenant \in Slugs /\ MayEnter(calls[h].user, calls[h].tenant)
        BY <1>1 DEF Calls, Admitted
      <3>3. QED
        BY <1>5, <3>1, <3>2
    <2>2. CASE calls[h].asked # NoSlug /\ calls[h].asked \in tenants /\ Trusted(calls[h], calls[h].asked)
      <3>1. Enter(h, calls[h].asked)
        BY <1>6, <2>2 DEF Select
      <3>2. calls[h].asked \in Slugs
        BY <2>2 DEF Typed, TenantsTypeOK
      <3>3. MayEnter(calls[h].user, calls[h].asked)
        BY <2>2 DEF Trusted, MayEnter, Admitted
      <3>4. QED
        BY <1>5, <3>1, <3>2, <3>3
    <2>3. CASE calls[h].asked # NoSlug /\ calls[h].asked \in tenants /\ ~Trusted(calls[h], calls[h].asked)
      BY <1>4, <1>6, <2>3 DEF Select
    <2>4. CASE calls[h].asked # NoSlug /\ calls[h].asked \notin tenants
      BY <1>3, <1>6, <2>4 DEF Select
    <2>5. QED
      BY <2>1, <2>2, <2>3, <2>4
  <1>7. CASE CheckMember(h)
    <2>1. CASE CanAccessTenant(calls[h].user, calls[h].asked)
      <3>1. Enter(h, calls[h].asked)
        BY <1>7, <2>1 DEF CheckMember
      <3>2. calls[h].asked \in Slugs /\ MayEnter(calls[h].user, calls[h].asked)
        BY <2>1 DEF CanAccessTenant, MayEnter, Typed, TenantsTypeOK
      <3>3. QED
        BY <1>5, <3>1, <3>2
    <2>2. CASE ~CanAccessTenant(calls[h].user, calls[h].asked)
      BY <1>3, <1>7, <2>2 DEF CheckMember
    <2>3. QED
      BY <2>1, <2>2
  <1>8. QED
    BY <1>6, <1>7

\* The name a request has chosen is kept for where it is needed.
NameFits(h) ==
  /\ calls'[h].st = "insert" => calls'[h].name \in Titles
  /\ calls'[h].st \in {"first", "owner"} => calls'[h].name \in Slugs
  /\ calls'[h].st = "owner" => calls'[h].user \in People

\* The other steps of a request end it or bring it on.
InnerStep(h) ==
  \/ Break(h) \/ FindSpace(h) \/ FoundTenant(h) \/ FirstSpace(h) \/ MakeOwner(h) \/ OpenSpace(h) \/ IssueKey(h)
  \/ ReadProjectQuota(h) \/ CountProjects(h) \/ SeekName(h) \/ InsertProject(h) \/ AttachCredential(h)
  \/ WritePolicy(h) \/ FindProject(h) \/ DropProject(h)
  \/ ReadEdgeQuota(h) \/ CountEdges(h) \/ FindSource(h) \/ FindTarget(h) \/ Observe(h)

Brought(h) ==
  /\ calls' \in [Handlers -> Calls] /\ NameFits(h)
  /\ calls'[h] = Waiting \/ Goes(h)
  /\ \A g \in Handlers \ {h} : calls'[g] = calls[g]

LEMMA BroughtByAnswer ==
  ASSUME Typed, NEW h \in Handlers, Answered(h)
  PROVE  Brought(h)
  BY AnsweredCall, WaitingCall DEF Typed, Brought, NameFits

LEMMA BroughtByThen ==
  ASSUME Typed, NEW h \in Handlers, NEW st \in CallPlaces, Then(h, st), <<calls[h].st, st>> \in Ways,
         st # "insert", st # "first", st = "owner" => calls[h].st = "first" /\ calls[h].user \in People
  PROVE  Brought(h)
  <1>1. calls \in [Handlers -> Calls] /\ NamesChosen
    BY DEF Typed
  <1>2. /\ calls' \in [Handlers -> Calls] /\ calls'[h].st = st /\ SameScope(h) /\ calls'[h].name = calls[h].name
        /\ \A g \in Handlers \ {h} : calls'[g] = calls[g]
    BY <1>1, ThenCall
  <1>3. NameFits(h)
    BY <1>1, <1>2 DEF NameFits, NamesChosen, SameScope
  <1>4. QED
    BY <1>2, <1>3 DEF Brought, Goes

LEMMA BroughtByChoice ==
  ASSUME Typed, NEW h \in Handlers, NEW c \in Calls, calls' = [calls EXCEPT ![h] = c],
         <<calls[h].st, c.st>> \in Ways, c.st # "owner",
         c.id = calls[h].id, c.user = calls[h].user, c.tenant = calls[h].tenant, c.space = calls[h].space,
         c.st = "insert" => c.name \in Titles, c.st = "first" => c.name \in Slugs
  PROVE  Brought(h)
  <1>1. /\ calls' \in [Handlers -> Calls] /\ calls'[h] = c
        /\ \A g \in Handlers \ {h} : calls'[g] = calls[g]
    BY DEF Typed
  <1>2. Goes(h) /\ NameFits(h)
    BY <1>1 DEF Goes, SameScope, NameFits
  <1>3. QED
    BY <1>1, <1>2 DEF Brought

LEMMA InnerCall ==
  ASSUME Typed, NEW h \in Handlers, InnerStep(h)
  PROVE  Brought(h)
  <1>1. calls \in [Handlers -> Calls] /\ calls[h] \in Calls
    BY DEF Typed
  <1> USE DEF CallPlaces, Inside, Heading, Ways
  <1>2. CASE Answered(h)
    BY <1>2, BroughtByAnswer
  <1>3. CASE FindSpace(h)
    <2>1. calls[h].op \in Operations /\ calls[h].st = "space"
      BY <1>1, <1>3 DEF Calls, FindSpace, In
    <2>2. FirstStep(calls[h].op) \in {"found", "open", "quota", "find", "delete", "limit", "issue"}
      BY <2>1 DEF FirstStep, Operations
    <2>3. CASE Then(h, FirstStep(calls[h].op))
      BY <2>1, <2>2, <2>3, BroughtByThen
    <2>4. QED
      BY <1>2, <1>3, <2>3 DEF FindSpace
  <1>4. CASE FoundTenant(h)
    <2>1. ASSUME NEW slug \in Slugs, calls' = [calls EXCEPT ![h].st = "first", ![h].name = slug]
          PROVE  Brought(h)
      <3> DEFINE c == [calls[h] EXCEPT !.st = "first", !.name = slug]
      <3>1. calls' = [calls EXCEPT ![h] = c]
        BY <1>1, <2>1
      <3>2. /\ c \in Calls /\ c.st = "first" /\ c.name = slug /\ c.id = calls[h].id /\ c.user = calls[h].user
            /\ c.tenant = calls[h].tenant /\ c.space = calls[h].space
        <4>1. "first" \in CallPlaces /\ slug \in Titles \cup Slugs
          OBVIOUS
        <4> HIDE DEF CallPlaces, Inside, Heading, Ways
        <4>2. c \in Calls
          BY <1>1, <4>1, Zenon DEF Calls
        <4>3. QED
          BY <1>1, <4>2 DEF Calls
      <3>3. calls[h].st = "found"
        BY <1>4 DEF FoundTenant, In
      <3> HIDE DEF c
      <3>4. QED
        BY <3>1, <3>2, <3>3, BroughtByChoice
    <2>2. QED
      BY <1>2, <1>4, <2>1 DEF FoundTenant
  <1>5. CASE FirstSpace(h)
    <2>1. calls[h].st = "first" /\ (Answered(h) \/ (calls[h].user \in People /\ Then(h, "owner")))
      BY <1>5 DEF FirstSpace, In
    <2>2. QED
      BY <1>2, <2>1, BroughtByThen
  <1>6. CASE MakeOwner(h) \/ OpenSpace(h) \/ IssueKey(h) \/ WritePolicy(h) \/ DropProject(h) \/ Observe(h) \/ Break(h)
    BY <1>2, <1>6 DEF MakeOwner, OpenSpace, IssueKey, WritePolicy, DropProject, Observe, Break
  <1>7. CASE ReadProjectQuota(h)
    <2>1. calls[h].st = "quota" /\ (Answered(h) \/ \E st \in {"usage", "taken"} : Then(h, st))
      BY <1>7 DEF ReadProjectQuota, ReadQuota, In
    <2>2. QED
      BY <1>2, <2>1, BroughtByThen
  <1>8. CASE CountProjects(h)
    <2>1. calls[h].st = "usage" /\ (Answered(h) \/ Then(h, "taken"))
      BY <1>8 DEF CountProjects, In
    <2>2. QED
      BY <1>2, <2>1, BroughtByThen
  <1>9. CASE SeekName(h)
    <2>1. ASSUME NEW n \in Titles, calls' = [calls EXCEPT ![h].st = "insert", ![h].name = n]
          PROVE  Brought(h)
      <3> DEFINE c == [calls[h] EXCEPT !.st = "insert", !.name = n]
      <3>1. calls' = [calls EXCEPT ![h] = c]
        BY <1>1, <2>1
      <3>2. /\ c \in Calls /\ c.st = "insert" /\ c.name = n /\ c.id = calls[h].id /\ c.user = calls[h].user
            /\ c.tenant = calls[h].tenant /\ c.space = calls[h].space
        <4>1. "insert" \in CallPlaces /\ n \in Titles \cup Slugs
          OBVIOUS
        <4> HIDE DEF CallPlaces, Inside, Heading, Ways
        <4>2. c \in Calls
          BY <1>1, <4>1, Zenon DEF Calls
        <4>3. QED
          BY <1>1, <4>2 DEF Calls
      <3>3. calls[h].st = "taken"
        BY <1>9 DEF SeekName, In
      <3> HIDE DEF c
      <3>4. QED
        BY <3>1, <3>2, <3>3, BroughtByChoice
    <2>2. QED
      BY <1>2, <1>9, <2>1 DEF SeekName
  <1>10. CASE InsertProject(h)
    <2>1. ASSUME NEW st \in {"attach", "write"}, calls' = [calls EXCEPT ![h].row = calls[h].id, ![h].st = st]
          PROVE  Brought(h)
      <3> DEFINE c == [calls[h] EXCEPT !.st = st, !.row = calls[h].id]
      <3>1. calls' = [calls EXCEPT ![h] = c]
        BY <1>1, <2>1
      <3>2. /\ c \in Calls /\ c.st = st /\ c.id = calls[h].id /\ c.user = calls[h].user
            /\ c.tenant = calls[h].tenant /\ c.space = calls[h].space
        <4>1. st \in CallPlaces /\ calls[h].id \in 0 .. MaxCalls
          BY <1>1 DEF Calls
        <4> HIDE DEF CallPlaces, Inside, Heading, Ways
        <4>2. c \in Calls
          BY <1>1, <4>1, Zenon DEF Calls
        <4>3. QED
          BY <1>1, <4>2 DEF Calls
      <3>3. calls[h].st = "insert"
        BY <1>10 DEF InsertProject, In
      <3> HIDE DEF c
      <3>4. QED
        BY <3>1, <3>2, <3>3, BroughtByChoice
    <2>2. \/ Answered(h)
          \/ \E later \in {"attach", "write"} :
               calls' = [calls EXCEPT ![h].row = calls[h].id, ![h].st = IF calls[h].web THEN "write" ELSE later]
      BY <1>10, Zenon DEF InsertProject
    <2>3. QED
      BY <1>2, <2>1, <2>2
  <1>11. CASE AttachCredential(h)
    <2>1. calls[h].st = "attach" /\ (Answered(h) \/ Then(h, "write"))
      BY <1>11 DEF AttachCredential, In
    <2>2. QED
      BY <1>2, <2>1, BroughtByThen
  <1>12. ASSUME NEW p \in projects, NEW st \in {"write", "target"}, <<calls[h].st, st>> \in Ways,
                calls' = [calls EXCEPT ![h].st = st, ![h].row = p.id]
         PROVE  Brought(h)
    <2> DEFINE c == [calls[h] EXCEPT !.st = st, !.row = p.id]
    <2>1. calls' = [calls EXCEPT ![h] = c]
      BY <1>1, <1>12
    <2>2. p.id \in 0 .. MaxCalls
      BY DEF Typed, TenantsTypeOK
    <2>3. /\ c \in Calls /\ c.st = st /\ c.id = calls[h].id /\ c.user = calls[h].user
          /\ c.tenant = calls[h].tenant /\ c.space = calls[h].space
      <3>1. st \in CallPlaces
        OBVIOUS
      <3> HIDE DEF CallPlaces, Inside, Heading, Ways
      <3>2. c \in Calls
        BY <1>1, <2>2, <3>1, Zenon DEF Calls
      <3>3. QED
        BY <1>1, <3>2 DEF Calls
    <2> HIDE DEF c
    <2>4. QED
      BY <1>12, <2>1, <2>3, BroughtByChoice
  <1>13. CASE FindProject(h)
    <2>1. calls[h].st = "find" /\ (Answered(h) \/ \E p \in projects : calls' = [calls EXCEPT ![h].st = "write", ![h].row = p.id])
      BY <1>13 DEF FindProject, In, Scope
    <2>2. QED
      BY <1>2, <1>12, <2>1
  <1>14. CASE ReadEdgeQuota(h)
    <2>1. calls[h].st = "limit" /\ (Answered(h) \/ \E st \in {"room", "source"} : Then(h, st))
      BY <1>14 DEF ReadEdgeQuota, ReadQuota, In
    <2>2. QED
      BY <1>2, <2>1, BroughtByThen
  <1>15. CASE CountEdges(h)
    <2>1. calls[h].st = "room" /\ (Answered(h) \/ Then(h, "source"))
      BY <1>15 DEF CountEdges, In
    <2>2. QED
      BY <1>2, <2>1, BroughtByThen
  <1>16. CASE FindSource(h)
    <2>1. calls[h].st = "source" /\ (Answered(h) \/ \E p \in projects : calls' = [calls EXCEPT ![h].st = "target", ![h].row = p.id])
      BY <1>16 DEF FindSource, In, Named, Scope
    <2>2. QED
      BY <1>2, <1>12, <2>1
  <1>17. CASE FindTarget(h)
    <2>1. ASSUME NEW row \in 0 .. MaxCalls, calls' = [calls EXCEPT ![h].st = "observe", ![h].other = row]
          PROVE  Brought(h)
      <3> DEFINE c == [calls[h] EXCEPT !.st = "observe", !.other = row]
      <3>1. calls' = [calls EXCEPT ![h] = c]
        BY <1>1, <2>1
      <3>2. /\ c \in Calls /\ c.st = "observe" /\ c.id = calls[h].id /\ c.user = calls[h].user
            /\ c.tenant = calls[h].tenant /\ c.space = calls[h].space
        BY <1>1 DEF Calls
      <3>3. calls[h].st = "target"
        BY <1>17 DEF FindTarget, In
      <3> HIDE DEF c
      <3>4. QED
        BY <3>1, <3>2, <3>3, BroughtByChoice
    <2>2. \A p \in projects : p.id \in 0 .. MaxCalls
      BY DEF Typed, TenantsTypeOK
    <2>3. 0 \in 0 .. MaxCalls
      BY TenantsAssumption
    <2>4. \/ calls' = [calls EXCEPT ![h].st = "observe", ![h].other = 0]
          \/ \E p \in projects : calls' = [calls EXCEPT ![h].st = "observe", ![h].other = p.id]
      BY <1>17 DEF FindTarget, Named, Scope
    <2>5. QED
      BY <2>1, <2>2, <2>3, <2>4
  <1>18. QED
    BY <1>3, <1>4, <1>5, <1>6, <1>7, <1>8, <1>9, <1>10, <1>11, <1>13, <1>14, <1>15, <1>16, <1>17 DEF InnerStep

------------------------------------------------------------------------------
(* What a step does to the rows *)

\* A row of projects but for its policy.
Alike(p, q) == p.id = q.id /\ p.tenant = q.tenant /\ p.space = q.space /\ p.name = q.name /\ p.by = q.by

\* WritePolicy gives every row its policy and changes nothing else.
LEMMA PolicyRows ==
  ASSUME Typed, NEW h \in Handlers, WritePolicy(h)
  PROVE  \E f \in [projects -> projects'] :
           /\ \A p \in projects : Alike(p, f[p]) /\ f[p].mode \in Modes
           /\ \A q \in projects' : \E p \in projects : q = f[p]
           /\ \A p \in projects : f[p] \in [id : 1 .. MaxCalls, tenant : Slugs, space : Spaces, name : Titles, mode : Modes,
                                            by : People \cup {Nobody}]
  <1>1. PICK m \in Modes :
          projects' = {IF p.id = calls[h].row /\ p \in Scope(calls[h]) THEN [p EXCEPT !.mode = m] ELSE p : p \in projects}
    BY DEF WritePolicy
  <1> DEFINE F(p) == IF p.id = calls[h].row /\ p \in Scope(calls[h]) THEN [p EXCEPT !.mode = m] ELSE p
  <1> DEFINE f == [p \in projects |-> F(p)]
  <1>2. ASSUME NEW p \in projects
        PROVE  /\ Alike(p, F(p)) /\ F(p).mode \in Modes
               /\ F(p) \in [id : 1 .. MaxCalls, tenant : Slugs, space : Spaces, name : Titles, mode : Modes,
                            by : People \cup {Nobody}]
    <2>1. p \in [id : 1 .. MaxCalls, tenant : Slugs, space : Spaces, name : Titles, mode : Modes,
                 by : People \cup {Nobody}]
      BY DEF Typed, TenantsTypeOK
    <2>2. F(p) = p \/ F(p) = [p EXCEPT !.mode = m]
      OBVIOUS
    <2>3. QED
      BY <2>1, <2>2 DEF Alike
  <1>3. projects' = {F(p) : p \in projects}
    BY <1>1
  <1> HIDE DEF F
  <1>4. f \in [projects -> projects'] /\ \A p \in projects : f[p] = F(p)
    BY <1>3
  <1>5. \A q \in projects' : \E p \in projects : q = f[p]
    BY <1>3, <1>4
  <1> HIDE DEF f
  <1>6. \A p \in projects :
          /\ Alike(p, f[p]) /\ f[p].mode \in Modes
          /\ f[p] \in [id : 1 .. MaxCalls, tenant : Slugs, space : Spaces, name : Titles, mode : Modes,
                       by : People \cup {Nobody}]
    BY <1>2, <1>4
  <1>7. QED
    BY <1>4, <1>5, <1>6

\* The steps that leave all the rows alone.
Looks(h) ==
  \/ Arrive(h) \/ Break(h) \/ Select(h) \/ CheckMember(h) \/ FindSpace(h) \/ ReadProjectQuota(h) \/ CountProjects(h)
  \/ SeekName(h) \/ AttachCredential(h) \/ FindProject(h) \/ ReadEdgeQuota(h) \/ CountEdges(h) \/ FindSource(h)
  \/ FindTarget(h)

LEMMA LooksOnly ==
  ASSUME NEW h \in Handlers, Looks(h)
  PROVE  NoRows
  BY DEF Looks, Arrive, Break, Select, CheckMember, FindSpace, ReadProjectQuota, CountProjects, SeekName, AttachCredential,
         FindProject, ReadEdgeQuota, CountEdges, FindSource, FindTarget

\* The row an insert adds.
RowOf(c) == [id |-> c.id, tenant |-> c.tenant, space |-> c.space, name |-> c.name, mode |-> "hybrid", by |-> c.user]

Inserts(h) ==
  /\ calls[h].st = "insert" /\ calls'[h].st \in {"attach", "write"}
  /\ projects' = projects \cup {RowOf(calls[h])}
  /\ UNCHANGED <<tenants, spaces, members, keys, edges, served, broken>>

LEMMA InsertRows ==
  ASSUME Typed, NEW h \in Handlers, InsertProject(h)
  PROVE  Inserts(h) \/ (NoRows /\ UNCHANGED <<served, broken>>)
  <1>1. calls \in [Handlers -> Calls] /\ calls[h] \in Calls
    BY DEF Typed
  <1>2. CASE Named(calls[h], calls[h].name) # {}
    BY <1>2 DEF InsertProject, NoRows, Unsaid
  <1>3. CASE Named(calls[h], calls[h].name) = {}
    <2>1. /\ projects' = projects \cup {RowOf(calls[h])}
          /\ \E later \in {"attach", "write"} :
               calls' = [calls EXCEPT ![h].row = calls[h].id, ![h].st = IF calls[h].web THEN "write" ELSE later]
      BY <1>3, Zenon DEF InsertProject, RowOf
    <2>2. PICK st \in {"attach", "write"} : calls' = [calls EXCEPT ![h].row = calls[h].id, ![h].st = st]
      BY <2>1
    <2>3. calls'[h].st = st
      BY <1>1, <2>2 DEF Calls
    <2>4. calls[h].st = "insert" /\ UNCHANGED <<tenants, spaces, members, keys, edges, served, broken>>
      BY DEF InsertProject, In, Unsaid
    <2>5. QED
      BY <2>1, <2>3, <2>4 DEF Inserts
  <1>4. QED
    BY <1>2, <1>3

\* Every row keeps its type.
LEMMA TypedNext ==
  ASSUME TenantsInv, NEW h \in Handlers, TenantsStep(h)
  PROVE  Typed'
  <1> USE TenantsAssumption
  <1>1. Typed /\ TenantsTypeOK /\ calls \in [Handlers -> Calls] /\ calls[h] \in Calls /\ NamesChosen /\ Numbered
    BY DEF TenantsInv, Typed
  <1>2. calls' \in [Handlers -> Calls] /\ NamesChosen'
    <2>1. CASE Arrive(h) \/ Select(h) \/ CheckMember(h)
      <3>1. /\ calls' \in [Handlers -> Calls]
            /\ calls'[h].st \in {"select", "member", "space", "idle"}
            /\ \A g \in Handlers \ {h} : calls'[g] = calls[g]
        <4>1. CASE Arrive(h)
          BY <4>1, ArriveCall DEF Starts, TenantsInv
        <4>2. CASE Select(h) \/ CheckMember(h)
          <5>1. calls[h].st \in {"select", "member"}
            BY <4>2 DEF Select, CheckMember, In
          <5>2. QED
            BY <4>2, <5>1, HeaderCall, WaitingCall DEF Goes, Enters, TenantsInv, Ways
        <4>3. QED
          BY <2>1, <4>1, <4>2
      <3>2. QED
        BY <1>1, <3>1 DEF NamesChosen, In
    <2>2. CASE InnerStep(h)
      <3>1. Brought(h)
        BY <1>1, <2>2, InnerCall
      <3>2. QED
        BY <1>1, <3>1 DEF Brought, NameFits, NamesChosen, In
    <2>3. QED
      BY <2>1, <2>2 DEF TenantsStep, InnerStep
  <1>3. TenantsTypeOK'
    <2>1. CASE Looks(h)
      <3>1. served' \in 0 .. MaxCalls /\ broken' \in 0 .. MaxBroken
        <4>1. CASE Arrive(h)
          <5>1. served < MaxCalls /\ served' = served + 1 /\ broken' = broken
            BY <4>1, Zenon DEF Arrive
          <5>2. QED
            BY <1>1, <5>1 DEF TenantsTypeOK
        <4>2. CASE Break(h)
          BY <1>1, <4>2 DEF Break, TenantsTypeOK
        <4>3. CASE ~Arrive(h) /\ ~Break(h)
          <5>1. UNCHANGED <<served, broken>>
            BY <2>1, <4>3, Zenon DEF Looks, Select, CheckMember, FindSpace, ReadProjectQuota, CountProjects, SeekName,
               AttachCredential, FindProject, ReadEdgeQuota, CountEdges, FindSource, FindTarget, Unsaid
          <5>2. QED
            BY <1>1, <5>1 DEF TenantsTypeOK
        <4>4. QED
          BY <4>1, <4>2, <4>3
      <3>2. QED
        BY <1>1, <2>1, <3>1, LooksOnly DEF NoRows, TenantsTypeOK
    <2>2. CASE FoundTenant(h) \/ FirstSpace(h) \/ OpenSpace(h)
      <3>1. UNCHANGED <<members, keys, projects, edges, served, broken>>
        BY <2>2 DEF FoundTenant, FirstSpace, OpenSpace, Unsaid
      <3>2. tenants' \subseteq Slugs
        BY <1>1, <2>2 DEF FoundTenant, FirstSpace, OpenSpace, TenantsTypeOK
      <3>3. spaces' \subseteq Slugs \X Spaces
        <4>1. calls[h].tenant \in Slugs
          BY <1>1 DEF Calls
        <4>2. CASE FirstSpace(h)
          <5>1. calls[h].name \in Slugs
            BY <1>1, <4>2 DEF FirstSpace, In, NamesChosen
          <5>2. QED
            BY <1>1, <4>2, <5>1 DEF FirstSpace, TenantsTypeOK
        <4>3. QED
          BY <1>1, <2>2, <4>1, <4>2 DEF FoundTenant, OpenSpace, TenantsTypeOK
      <3>4. QED
        BY <1>1, <3>1, <3>2, <3>3 DEF TenantsTypeOK
    <2>3. CASE MakeOwner(h)
      <3>1. calls[h].name \in Slugs /\ calls[h].user \in People
        BY <1>1, <2>3 DEF MakeOwner, In, NamesChosen
      <3>2. QED
        BY <1>1, <2>3, <3>1 DEF MakeOwner, TenantsTypeOK, Unsaid
    <2>4. CASE IssueKey(h)
      <3>1. calls[h].tenant \in Slugs /\ calls[h].user \in People \cup {Nobody}
        BY <1>1 DEF Calls
      <3>2. QED
        BY <1>1, <2>4, <3>1 DEF IssueKey, TenantsTypeOK, Unsaid
    <2>5. CASE InsertProject(h)
      <3>1. CASE Inserts(h)
        <4>1. calls[h].id \in 1 .. MaxCalls /\ calls[h].name \in Titles
          BY <1>1, <3>1 DEF Inserts, Numbered, In, NamesChosen, TenantsTypeOK
        <4>2. RowOf(calls[h]) \in [id : 1 .. MaxCalls, tenant : Slugs, space : Spaces, name : Titles, mode : Modes,
                                   by : People \cup {Nobody}]
          BY <1>1, <4>1 DEF RowOf, Calls, Modes
        <4>3. QED
          BY <1>1, <3>1, <4>2 DEF Inserts, TenantsTypeOK
      <3>2. QED
        BY <1>1, <2>5, <3>1, InsertRows DEF NoRows, TenantsTypeOK
    <2>6. CASE WritePolicy(h)
      <3>1. \A q \in projects' : q \in [id : 1 .. MaxCalls, tenant : Slugs, space : Spaces, name : Titles, mode : Modes,
                                        by : People \cup {Nobody}]
        BY <1>1, <2>6, PolicyRows
      <3>2. UNCHANGED <<tenants, spaces, members, keys, edges, served, broken>>
        BY <2>6 DEF WritePolicy, Unsaid
      <3>3. QED
        BY <1>1, <3>1, <3>2 DEF TenantsTypeOK
    <2>7. CASE DropProject(h)
      <3>1. projects' \subseteq projects /\ edges' \subseteq edges
        BY <2>7 DEF DropProject
      <3>2. QED
        BY <1>1, <2>7, <3>1 DEF DropProject, Unsaid, TenantsTypeOK
    <2>8. CASE Observe(h)
      <3>1. calls[h].row \in 1 .. MaxCalls
        BY <1>1, <2>8 DEF Observe, In, TenantsInv, Remembered, Seen, TenantsTypeOK
      <3>2. [tenant |-> calls[h].tenant, space |-> calls[h].space, source |-> calls[h].row, target |-> calls[h].other]
              \in [tenant : Slugs, space : Spaces, source : 1 .. MaxCalls, target : 0 .. MaxCalls]
        BY <1>1, <3>1 DEF Calls
      <3>3. edges' = edges \/ edges' = edges \cup {[tenant |-> calls[h].tenant, space |-> calls[h].space,
                                                    source |-> calls[h].row, target |-> calls[h].other]}
        BY <2>8 DEF Observe
      <3>4. QED
        BY <1>1, <2>8, <3>2, <3>3 DEF Observe, Unsaid, TenantsTypeOK
    <2>9. QED
      BY <2>1, <2>2, <2>3, <2>4, <2>5, <2>6, <2>7, <2>8 DEF TenantsStep, Looks
  <1>4. QED
    BY <1>2, <1>3 DEF Typed

\* What a step does to the request that takes it, and to the numbers given.
LEMMA CallMoves ==
  ASSUME TenantsInv, NEW h \in Handlers, TenantsStep(h)
  PROVE  /\ \A g \in Handlers \ {h} : calls'[g] = calls[g]
         /\ \/ calls'[h] = Waiting /\ served' = served
            \/ Goes(h) /\ served' = served
            \/ Enters(h) /\ served' = served
            \/ Starts(h)
  <1>1. Typed /\ Admitted
    BY DEF TenantsInv
  <1>2. CASE Arrive(h)
    BY <1>1, <1>2, ArriveCall
  <1>3. CASE Select(h) \/ CheckMember(h)
    BY <1>1, <1>3, HeaderCall DEF Select, CheckMember, Unsaid
  <1>4. CASE InnerStep(h)
    <2>1. served' = served
      BY <1>4, Zenon DEF InnerStep, Break, FindSpace, FoundTenant, FirstSpace, MakeOwner, OpenSpace, IssueKey,
         ReadProjectQuota, CountProjects, SeekName, InsertProject, AttachCredential, WritePolicy, FindProject, DropProject,
         ReadEdgeQuota, CountEdges, FindSource, FindTarget, Observe, Unsaid
    <2>2. QED
      BY <1>1, <1>4, <2>1, InnerCall DEF Brought
  <1>5. QED
    BY <1>2, <1>3, <1>4 DEF TenantsStep, InnerStep

\* What a step does to the rows.
LEMMA RowMoves ==
  ASSUME TenantsInv, NEW h \in Handlers, TenantsStep(h)
  PROVE  /\ members \subseteq members' /\ spaces \subseteq spaces'
         /\ keys' = keys \/ IssueKey(h)
         /\ \/ UNCHANGED <<projects, edges>>
            \/ Inserts(h) \/ WritePolicy(h) \/ DropProject(h) \/ Observe(h)
  <1>1. CASE Looks(h)
    BY <1>1, LooksOnly DEF NoRows
  <1>2. CASE InsertProject(h)
    <2>1. Inserts(h) \/ NoRows
      BY <1>2, InsertRows DEF TenantsInv
    <2>2. QED
      BY <2>1 DEF Inserts, NoRows
  <1>3. CASE FoundTenant(h) \/ FirstSpace(h) \/ MakeOwner(h) \/ OpenSpace(h) \/ IssueKey(h)
    BY <1>3 DEF FoundTenant, FirstSpace, MakeOwner, OpenSpace, IssueKey
  <1>4. CASE WritePolicy(h) \/ DropProject(h) \/ Observe(h)
    BY <1>4 DEF WritePolicy, DropProject, Observe
  <1>5. QED
    BY <1>1, <1>2, <1>3, <1>4 DEF TenantsStep, Looks

\* Where the projects there are after a step come from.
LEMMA RowsFrom ==
  ASSUME TenantsInv, NEW h \in Handlers, TenantsStep(h)
  PROVE  \A q \in projects' :
           \/ \E p \in projects : Alike(p, q)
           \/ /\ Inserts(h) /\ q.id = calls[h].id
              /\ q.tenant = calls[h].tenant /\ q.space = calls[h].space /\ q.by = calls[h].user
  <1>1. ASSUME NEW q \in projects' \cap projects PROVE \E p \in projects : Alike(p, q)
    BY DEF Alike
  <1>2. CASE projects' \subseteq projects
    BY <1>1, <1>2
  <1>3. CASE Inserts(h)
    <2>1. \A q \in projects' : q \in projects \/ q = RowOf(calls[h])
      BY <1>3 DEF Inserts
    <2>2. /\ RowOf(calls[h]).id = calls[h].id /\ RowOf(calls[h]).tenant = calls[h].tenant
          /\ RowOf(calls[h]).space = calls[h].space /\ RowOf(calls[h]).by = calls[h].user
      BY DEF RowOf
    <2>3. QED
      BY <1>1, <1>3, <2>1, <2>2
  <1>4. CASE WritePolicy(h)
    <2>1. \A q \in projects' : \E p \in projects : Alike(p, q)
      BY <1>4, PolicyRows DEF TenantsInv
    <2>2. QED
      BY <2>1
  <1>5. QED
    BY <1>2, <1>3, <1>4, RowMoves DEF DropProject, Observe

LEMMA AdmittedNext ==
  ASSUME TenantsInv, NEW h \in Handlers, TenantsStep(h)
  PROVE  Admitted'
  <1>1. Typed /\ Admitted
    BY DEF TenantsInv
  <1>2. members \subseteq members'
    BY RowMoves
  <1>3. \A g \in Handlers : MayEnter(calls[g].user, calls[g].tenant)'
    <2>1. ASSUME NEW g \in Handlers \ {h} PROVE MayEnter(calls[g].user, calls[g].tenant)'
      BY <1>1, <1>2, CallMoves DEF Admitted, MayEnter
    <2>2. MayEnter(calls[h].user, calls[h].tenant)'
      <3>1. CASE calls'[h] = Waiting
        BY <3>1, WaitingCall DEF MayEnter
      <3>2. CASE Goes(h)
        BY <1>1, <1>2, <3>2 DEF Goes, SameScope, Admitted, MayEnter
      <3>3. CASE Enters(h) \/ Starts(h)
        BY <1>2, <3>3 DEF Enters, Starts, MayEnter
      <3>4. QED
        BY <3>1, <3>2, <3>3, CallMoves
    <2>3. QED
      BY <2>1, <2>2
  <1>4. \A k \in keys' : MayEnter(k.user, k.home)'
    <2>1. CASE keys' = keys
      BY <1>1, <1>2, <2>1 DEF Admitted, MayEnter
    <2>2. CASE IssueKey(h)
      <3>1. keys' = keys \cup {[home |-> calls[h].tenant, user |-> calls[h].user]}
        BY <2>2 DEF IssueKey
      <3>2. \A k \in keys' : k \in keys \/ (k.home = calls[h].tenant /\ k.user = calls[h].user)
        BY <3>1
      <3>3. ASSUME NEW k \in keys PROVE MayEnter(k.user, k.home)'
        BY <1>1, <1>2 DEF Admitted, MayEnter
      <3>4. ASSUME NEW k \in keys', k.home = calls[h].tenant, k.user = calls[h].user PROVE MayEnter(k.user, k.home)'
        BY <1>1, <1>2, <3>4 DEF Admitted, MayEnter
      <3>5. QED
        BY <3>2, <3>3, <3>4
    <2>3. QED
      BY <2>1, <2>2, RowMoves
  <1>5. \A p \in projects' : MayEnter(p.by, p.tenant)'
    <2>1. ASSUME NEW q \in projects', NEW p \in projects, Alike(p, q)
          PROVE  MayEnter(q.by, q.tenant)'
      BY <1>1, <1>2, <2>1 DEF Alike, Admitted, MayEnter
    <2>2. ASSUME NEW q \in projects', q.by = calls[h].user, q.tenant = calls[h].tenant
          PROVE  MayEnter(q.by, q.tenant)'
      BY <1>1, <1>2, <2>2 DEF Admitted, MayEnter
    <2>3. QED
      BY <2>1, <2>2, RowsFrom
  <1>6. QED
    BY <1>3, <1>4, <1>5 DEF Admitted, MayEnter

LEMMA HousedNext ==
  ASSUME TenantsInv, NEW h \in Handlers, TenantsStep(h)
  PROVE  Housed'
  <1>1. Typed /\ Housed /\ spaces \subseteq spaces'
    BY RowMoves DEF TenantsInv
  <1>2. ASSUME NEW g \in Handlers, calls'[g].st \in Inside
        PROVE  <<calls'[g].tenant, calls'[g].space>> \in spaces'
    <2>1. CASE g # h
      BY <1>1, <1>2, <2>1, CallMoves DEF Housed
    <2>2. CASE g = h
      <3>1. Goes(h)
        BY <1>2, <2>2, CallMoves, WaitingCall DEF Enters, Starts, Inside
      <3>2. CASE calls[h].st \in Inside
        BY <1>1, <2>2, <3>1, <3>2 DEF Goes, SameScope, Housed
      <3>3. CASE calls[h].st \notin Inside
        <4>1. calls[h].st = "space"
          BY <1>2, <2>2, <3>1, <3>3 DEF Goes, Ways, Inside
        <4>2. FindSpace(h)
          BY <4>1 DEF TenantsStep, In, Arrive, Break, Select, CheckMember, FoundTenant, FirstSpace, MakeOwner, OpenSpace,
             IssueKey, ReadProjectQuota, CountProjects, SeekName, InsertProject, AttachCredential, WritePolicy, FindProject,
             DropProject, ReadEdgeQuota, CountEdges, FindSource, FindTarget, Observe
        <4>3. calls'[h] # Waiting
          BY <3>1, WaitingCall DEF Goes, Ways
        <4>4. <<calls[h].tenant, calls[h].space>> \in spaces
          <5>1. calls \in [Handlers -> Calls]
            BY <1>1 DEF Typed
          <5>2. QED
            BY <4>2, <4>3, <5>1, AnsweredCall DEF FindSpace
        <4>5. QED
          BY <1>1, <2>2, <3>1, <4>4 DEF Goes, SameScope
      <3>4. QED
        BY <3>2, <3>3
    <2>3. QED
      BY <2>1, <2>2
  <1>3. \A p \in projects' : <<p.tenant, p.space>> \in spaces'
    <2>1. ASSUME NEW q \in projects', NEW p \in projects, Alike(p, q)
          PROVE  <<q.tenant, q.space>> \in spaces'
      BY <1>1, <2>1 DEF Alike, Housed
    <2>2. ASSUME NEW q \in projects', Inserts(h), q.tenant = calls[h].tenant, q.space = calls[h].space
          PROVE  <<q.tenant, q.space>> \in spaces'
      <3>1. calls[h].st \in Inside
        BY <2>2 DEF Inserts, Inside
      <3>2. QED
        BY <1>1, <2>2, <3>1 DEF Housed
    <2>3. QED
      BY <2>1, <2>2, RowsFrom
  <1>4. QED
    BY <1>2, <1>3 DEF Housed

LEMMA NumberedNext ==
  ASSUME TenantsInv, NEW h \in Handlers, TenantsStep(h)
  PROVE  Numbered'
  <1> USE DEF Before, Heading
  <1>1. Typed /\ Numbered /\ served \in Nat
    BY TenantsAssumption DEF TenantsInv, Typed, TenantsTypeOK
  <1>2. served' \in Nat /\ served' \in {served, served + 1}
    BY <1>1, CallMoves DEF Starts
  <1>3. \A g \in Handlers \ {h} : calls'[g] = calls[g]
    BY CallMoves
  <1>4. \/ calls'[h].st = "idle"
        \/ /\ calls[h].st # "idle" /\ calls'[h].id = calls[h].id /\ served' = served
           /\ calls'[h].st \in Before => calls[h].st \in Before
        \/ calls[h].st = "idle" /\ calls'[h].id = served + 1 /\ served' = served + 1
    BY CallMoves, WaitingCall DEF Goes, Ways, SameScope, Enters, Starts, In
  <1>5. \A q \in projects' :
          \/ \E p \in projects : p.id = q.id
          \/ calls[h].st = "insert" /\ calls'[h].st \notin Before /\ q.id = calls[h].id /\ served' = served
    BY RowsFrom DEF Alike, Inserts
  <1>6. \A q \in projects' : q.id \in 1 .. served'
    <2>1. calls[h].st = "insert" => calls[h].id \in 1 .. served
      BY <1>1 DEF Numbered, In
    <2>2. \A p \in projects : p.id \in 1 .. served'
      BY <1>1, <1>2 DEF Numbered
    <2>3. QED
      BY <1>5, <2>1, <2>2
  <1>7. \A g \in Handlers : calls'[g].st # "idle" => calls'[g].id \in 1 .. served'
    BY <1>1, <1>2, <1>3, <1>4 DEF Numbered, In
  <1>8. \A g, k \in Handlers : g # k /\ calls'[g].st # "idle" /\ calls'[k].st # "idle" => calls'[g].id # calls'[k].id
    BY <1>1, <1>2, <1>3, <1>4 DEF Numbered, In
  <1>9. \A g \in Handlers : calls'[g].st \in Before => \A q \in projects' : q.id # calls'[g].id
    <2>1. ASSUME NEW g \in Handlers, calls'[g].st \in Before, NEW p \in projects
          PROVE  p.id # calls'[g].id
      BY <1>1, <1>3, <1>4, <2>1 DEF Numbered
    <2>2. ASSUME NEW g \in Handlers, calls'[g].st \in Before, calls[h].st = "insert", calls'[h].st \notin Before
          PROVE  calls[h].id # calls'[g].id
      BY <1>1, <1>3, <2>2 DEF Numbered, In
    <2>3. QED
      BY <1>5, <2>1, <2>2
  <1>10. \A p, q \in projects' : p.id = q.id => p = q
    <2>1. CASE projects' \subseteq projects
      BY <1>1, <2>1 DEF Numbered
    <2>2. CASE Inserts(h)
      <3>1. \A p \in projects : p.id # calls[h].id
        BY <1>1, <2>2 DEF Inserts, Numbered
      <3>2. \A p \in projects' : p \in projects \/ p = RowOf(calls[h])
        BY <2>2 DEF Inserts
      <3>3. RowOf(calls[h]).id = calls[h].id
        BY DEF RowOf
      <3>4. QED
        BY <1>1, <3>1, <3>2, <3>3 DEF Numbered
    <2>3. CASE WritePolicy(h)
      <3>1. PICK f \in [projects -> projects'] :
              /\ \A p \in projects : Alike(p, f[p])
              /\ \A q \in projects' : \E p \in projects : q = f[p]
        BY <1>1, <2>3, PolicyRows
      <3>2. \A p, q \in projects : f[p].id = f[q].id => f[p] = f[q]
        BY <1>1, <3>1 DEF Alike, Numbered
      <3>3. QED
        BY <3>1, <3>2
    <2>4. QED
      BY <2>1, <2>2, <2>3, RowMoves DEF DropProject, Observe
  <1>11. QED
    BY <1>6, <1>7, <1>8, <1>9, <1>10 DEF Numbered, In

\* A number seen in the scope of a request stays seen.
LEMMA SeenStays ==
  ASSUME TenantsInv, NEW h \in Handlers, TenantsStep(h), NEW g \in Handlers, NEW row, Seen(g, row),
         calls'[g].tenant = calls[g].tenant, calls'[g].space = calls[g].space
  PROVE  Seen(g, row)'
  <1>1. Typed /\ Numbered /\ served \in Nat
    BY TenantsAssumption DEF TenantsInv, Typed, TenantsTypeOK
  <1>2. row \in 1 .. served'
    BY <1>1, CallMoves DEF Starts, Seen
  <1>3. \A q \in projects' : q.id = row => q \in Scope(calls[g])'
    <2>1. ASSUME NEW q \in projects', q.id = row PROVE q.tenant = calls'[g].tenant /\ q.space = calls'[g].space
      <3>1. ASSUME NEW p \in projects, Alike(p, q) PROVE p.tenant = calls[g].tenant /\ p.space = calls[g].space
        BY <2>1, <3>1 DEF Seen, Scope, Alike
      <3>2. ~(Inserts(h) /\ q.id = calls[h].id)
        BY <2>1 DEF Inserts, Seen, Before
      <3>3. QED
        BY <2>1, <3>1, <3>2, RowsFrom DEF Alike
    <2>2. QED
      BY <2>1 DEF Scope
  <1>4. \A k \in Handlers : calls'[k].st \in Before => calls'[k].id # row
    <2>1. \A k \in Handlers \ {h} : calls'[k] = calls[k]
      BY CallMoves
    <2>2. calls'[h].st \in Before => calls'[h].id # row
      <3>1. CASE calls'[h] = Waiting
        BY <3>1, WaitingCall DEF Before, Heading
      <3>2. CASE Goes(h)
        BY <3>2 DEF Goes, Ways, SameScope, Before, Heading, Seen
      <3>3. CASE Enters(h)
        BY <3>3 DEF Enters, Before, Heading, Seen
      <3>4. CASE Starts(h)
        BY <1>1, <3>4 DEF Starts, Seen
      <3>5. QED
        BY <3>1, <3>2, <3>3, <3>4, CallMoves
    <2>3. QED
      BY <2>1, <2>2 DEF Seen
  <1>5. QED
    BY <1>2, <1>3, <1>4 DEF Seen

\* A project a request finds in its scope is seen.
LEMMA FoundIsSeen ==
  ASSUME TenantsInv, NEW g \in Handlers, NEW p \in projects, p \in Scope(calls[g])
  PROVE  Seen(g, p.id)
  BY DEF TenantsInv, Numbered, Seen

\* The numbers a request keeps are those of projects it found.
LEMMA FoundRows ==
  ASSUME TenantsInv, NEW h \in Handlers, TenantsStep(h), Goes(h), calls'[h].st \in {"target", "observe"}
  PROVE  /\ Seen(h, calls'[h].row)
         /\ calls'[h].st = "observe" /\ calls'[h].other # 0 => Seen(h, calls'[h].other)
  <1>1. Typed /\ Remembered /\ calls \in [Handlers -> Calls] /\ calls[h] \in Calls
    BY DEF TenantsInv, Typed
  <1>2. ~Answered(h)
    BY <1>1, AnsweredCall, WaitingCall
  <1>3. (calls[h].st = "source" /\ calls'[h].st = "target") \/ (calls[h].st = "target" /\ calls'[h].st = "observe")
    BY DEF Goes, Ways
  <1>4. CASE calls[h].st = "source"
    <2>1. FindSource(h)
      BY <1>4 DEF TenantsStep, In, Arrive, Break, Select, CheckMember, FindSpace, FoundTenant, FirstSpace, MakeOwner,
         OpenSpace, IssueKey, ReadProjectQuota, CountProjects, SeekName, InsertProject, AttachCredential, WritePolicy,
         FindProject, DropProject, ReadEdgeQuota, CountEdges, FindTarget, Observe
    <2>2. PICK p \in Scope(calls[h]) : calls' = [calls EXCEPT ![h].st = "target", ![h].row = p.id]
      BY <1>2, <2>1 DEF FindSource, Named
    <2>3. calls'[h].row = p.id /\ calls'[h].st = "target"
      BY <1>1, <2>2 DEF Calls
    <2>4. QED
      BY <2>2, <2>3, FoundIsSeen DEF Scope
  <1>5. CASE calls[h].st = "target"
    <2>1. FindTarget(h)
      BY <1>5 DEF TenantsStep, In, Arrive, Break, Select, CheckMember, FindSpace, FoundTenant, FirstSpace, MakeOwner,
         OpenSpace, IssueKey, ReadProjectQuota, CountProjects, SeekName, InsertProject, AttachCredential, WritePolicy,
         FindProject, DropProject, ReadEdgeQuota, CountEdges, FindSource, Observe
    <2>2. \/ calls' = [calls EXCEPT ![h].st = "observe", ![h].other = 0]
          \/ \E p \in Scope(calls[h]) : calls' = [calls EXCEPT ![h].st = "observe", ![h].other = p.id]
      BY <2>1 DEF FindTarget, Named
    <2>3. ASSUME NEW row, calls' = [calls EXCEPT ![h].st = "observe", ![h].other = row]
          PROVE  calls'[h].row = calls[h].row /\ calls'[h].other = row
      BY <1>1, <2>3 DEF Calls
    <2>4. calls'[h].row = calls[h].row /\ (calls'[h].other = 0 \/ \E p \in Scope(calls[h]) : calls'[h].other = p.id)
      BY <2>2, <2>3
    <2>5. Seen(h, calls[h].row)
      BY <1>1, <1>5 DEF Remembered
    <2>6. QED
      BY <2>4, <2>5, FoundIsSeen DEF Scope
  <1>6. QED
    BY <1>3, <1>4, <1>5

LEMMA RememberedNext ==
  ASSUME TenantsInv, NEW h \in Handlers, TenantsStep(h)
  PROVE  Remembered'
  <1>1. Remembered
    BY DEF TenantsInv
  <1>2. ASSUME NEW g \in Handlers, NEW row, row = calls'[g].row, calls'[g].st \in {"target", "observe"}
        PROVE  Seen(g, row)'
    <2>1. CASE g # h
      <3>1. calls'[g] = calls[g]
        BY <2>1, CallMoves
      <3>2. Seen(g, row)
        BY <1>1, <1>2, <3>1 DEF Remembered
      <3>3. QED
        BY <3>1, <3>2, SeenStays
    <2>2. CASE g = h
      <3>1. Goes(h)
        BY <1>2, <2>2, CallMoves, WaitingCall DEF Enters, Starts
      <3>2. Seen(h, row)
        BY <1>2, <2>2, <3>1, FoundRows
      <3>3. QED
        BY <2>2, <3>1, <3>2, SeenStays DEF Goes, SameScope
    <2>3. QED
      BY <2>1, <2>2
  <1>3. ASSUME NEW g \in Handlers, NEW row, row = calls'[g].other, row # 0, calls'[g].st = "observe"
        PROVE  Seen(g, row)'
    <2>1. CASE g # h
      <3>1. calls'[g] = calls[g]
        BY <2>1, CallMoves
      <3>2. Seen(g, row)
        BY <1>1, <1>3, <3>1 DEF Remembered, In
      <3>3. QED
        BY <3>1, <3>2, SeenStays
    <2>2. CASE g = h
      <3>1. Goes(h)
        BY <1>3, <2>2, CallMoves, WaitingCall DEF Enters, Starts
      <3>2. Seen(h, row)
        BY <1>3, <2>2, <3>1, FoundRows
      <3>3. QED
        BY <2>2, <3>1, <3>2, SeenStays DEF Goes, SameScope
    <2>3. QED
      BY <2>1, <2>2
  <1>4. QED
    BY <1>2, <1>3 DEF Remembered, In

\* An edge is added between projects the request has seen, if they are still there.
LEMMA EdgesJoinNext ==
  ASSUME TenantsInv, NEW h \in Handlers, TenantsStep(h)
  PROVE  EdgesJoin'
  <1>1. EdgesJoin /\ Numbered /\ Remembered /\ Typed
    BY DEF TenantsInv
  <1>2. CASE UNCHANGED edges /\ \A p \in projects : \E q \in projects' : Alike(p, q)
    BY <1>1, <1>2 DEF EdgesJoin, Alike
  <1>3. CASE UNCHANGED <<projects, edges>>
    BY <1>2, <1>3 DEF Alike
  <1>4. CASE Inserts(h)
    <2>1. edges' = edges /\ projects \subseteq projects'
      BY <1>4 DEF Inserts
    <2>2. QED
      BY <1>2, <2>1 DEF Alike
  <1>5. CASE WritePolicy(h)
    <2>1. edges' = edges
      BY <1>5 DEF WritePolicy
    <2>2. \A p \in projects : \E q \in projects' : Alike(p, q)
      BY <1>1, <1>5, PolicyRows
    <2>3. QED
      BY <1>2, <2>1, <2>2
  <1>6. CASE DropProject(h)
    <2>1. PICK gone :
            /\ projects' = {p \in projects : p.id \notin gone}
            /\ edges' = {e \in edges : e.source \notin gone /\ e.target \notin gone}
      BY <1>6 DEF DropProject
    <2>2. QED
      BY <1>1, <2>1 DEF EdgesJoin
  <1>7. CASE Observe(h)
    <2> DEFINE e == [tenant |-> calls[h].tenant, space |-> calls[h].space, source |-> calls[h].row, target |-> calls[h].other]
    <2>1. projects' = projects /\ calls[h].st = "observe"
      BY <1>7 DEF Observe, In
    <2>2. \/ edges' = edges
          \/ edges' = edges \cup {e} /\ {calls[h].row, calls[h].other} \subseteq {p.id : p \in projects} \cup {0}
      BY <1>7 DEF Observe
    <2>3. ASSUME {calls[h].row, calls[h].other} \subseteq {p.id : p \in projects} \cup {0},
                 NEW id \in {calls[h].row, calls[h].other} \ {0}
          PROVE  \E p \in projects : p.id = id /\ p.tenant = calls[h].tenant /\ p.space = calls[h].space
      <3>1. PICK p \in projects : p.id = id
        BY <2>3
      <3>2. Seen(h, id)
        BY <1>1, <2>1 DEF Remembered, In
      <3>3. QED
        BY <3>1, <3>2 DEF Seen, Scope
    <2>4. e.tenant = calls[h].tenant /\ e.space = calls[h].space /\ e.source = calls[h].row /\ e.target = calls[h].other
      OBVIOUS
    <2> HIDE DEF e
    <2>5. CASE edges' = edges
      BY <1>3, <2>1, <2>5
    <2>6. CASE edges' = edges \cup {e} /\ {calls[h].row, calls[h].other} \subseteq {p.id : p \in projects} \cup {0}
      <3>1. \A id \in {e.source, e.target} \ {0} :
              \E p \in projects : p.id = id /\ p.tenant = e.tenant /\ p.space = e.space
        BY <2>3, <2>4, <2>6
      <3>2. QED
        BY <1>1, <2>1, <2>6, <3>1 DEF EdgesJoin
    <2>7. QED
      BY <2>2, <2>5, <2>6
  <1>8. QED
    BY <1>3, <1>4, <1>5, <1>6, <1>7, RowMoves

------------------------------------------------------------------------------
LEMMA TenantsInvInit == TenantsInit => TenantsInv
  <1> SUFFICES ASSUME TenantsInit PROVE TenantsInv
    OBVIOUS
  <1> USE TenantsAssumption DEF TenantsInit
  <1>1. \A h \in Handlers : calls[h] = Waiting /\ calls[h].st = "idle"
    BY WaitingCall
  <1>2. TenantsTypeOK
    BY DEF TenantsTypeOK
  <1>3. calls \in [Handlers -> Calls]
    BY WaitingCall
  <1>4. Admitted
    <2>1. \A h \in Handlers : MayEnter(calls[h].user, calls[h].tenant)
      BY <1>1, WaitingCall DEF MayEnter
    <2>2. \A k \in keys : MayEnter(k.user, k.home)
      BY DEF MayEnter
    <2>3. QED
      BY <2>1, <2>2 DEF Admitted
  <1>5. NamesChosen /\ Housed /\ Numbered /\ Remembered /\ EdgesJoin
    BY <1>1 DEF NamesChosen, Housed, Numbered, Remembered, EdgesJoin, In, Inside, Before, Heading
  <1>6. QED
    BY <1>2, <1>3, <1>4, <1>5 DEF TenantsInv, Typed

LEMMA TenantsInvNext == TenantsInv /\ [TenantsNext]_tenantVars => TenantsInv'
  <1> SUFFICES ASSUME TenantsInv, [TenantsNext]_tenantVars PROVE TenantsInv'
    OBVIOUS
  <1>1. CASE UNCHANGED tenantVars
    BY <1>1 DEF tenantVars, TenantsInv, Typed, TenantsTypeOK, NamesChosen, Admitted, MayEnter, Housed, Numbered, Remembered,
       Seen, Scope, EdgesJoin, In
  <1>2. ASSUME NEW h \in Handlers, TenantsStep(h) PROVE TenantsInv'
    BY <1>2, TypedNext, AdmittedNext, HousedNext, NumberedNext, RememberedNext, EdgesJoinNext DEF TenantsInv
  <1>3. QED
    BY <1>1, <1>2 DEF TenantsNext

\* Every row and every request keeps its type, whatever runs beside what: in
\* particular no request inserts under a number or a name it has not got
\* (store.go, tenants.go, runtime.go).
THEOREM TenantsTypeCorrect == TenantsSpec => []TenantsTypeOK
  <1>1. TenantsInv => TenantsTypeOK
    BY DEF TenantsInv, Typed
  <1>2. QED
    BY <1>1, TenantsInvInit, TenantsInvNext, PTL DEF TenantsSpec

\* However many requests run beside each other, a tenant holds only what those
\* who may enter it have put there, a key opens no tenant closed to its user,
\* and an edge joins projects of its own workspace (server/auth.go authed,
\* webadmin withTenantContext, store.go and runtime.go).
THEOREM TenantsStayApart == TenantsSpec => []TenantsApart
  <1>1. TenantsInv => TenantsApart
    BY DEF TenantsInv, Admitted, Housed, EdgesJoin, TenantsApart
  <1>2. QED
    BY <1>1, TenantsInvInit, TenantsInvNext, PTL DEF TenantsSpec

------------------------------------------------------------------------------
(* The quotas: how far requests beside each other go past one.             *)

ProjectRacing == {"taken", "insert"}
EdgeRacing == {"source", "target", "observe"}

QuotaInv == TenantsInv /\ IsFiniteSet(projects) /\ IsFiniteSet(edges) /\ OnlyRacersExceed

\* The requests past a check are finitely many, no more than handlers.
LEMMA PastFinite ==
  ASSUME NEW t, NEW sts
  PROVE  IsFiniteSet(Past(t, sts)) /\ Cardinality(Past(t, sts)) \in Nat /\ Cardinality(Past(t, sts)) <= Cardinality(Handlers)
  <1>1. Past(t, sts) \in SUBSET Handlers
    BY DEF Past
  <1>2. QED
    BY <1>1, TenantsAssumption, FS_Subset, FS_CardinalityType

LEMMA OneMore ==
  ASSUME NEW S, NEW x, IsFiniteSet(S)
  PROVE  Cardinality(S \cup {x}) <= Cardinality(S) + 1
  <1>1. Cardinality(S) \in Nat
    BY FS_CardinalityType
  <1>2. Cardinality(S \cup {x}) \in {Cardinality(S), Cardinality(S) + 1}
    BY FS_AddElement
  <1>3. QED
    BY <1>1, <1>2

\* Only the request that takes a step comes to be past a check, and only in its tenant.
LEMMA PastMoves ==
  ASSUME TenantsInv, NEW h \in Handlers, TenantsStep(h), NEW t, NEW sts \in SUBSET Inside,
         ~(Goes(h) /\ calls'[h].st \in sts /\ calls[h].st \notin sts /\ calls[h].tenant = t)
  PROVE  Past(t, sts)' \subseteq Past(t, sts)
  <1>1. \A g \in Handlers \ {h} : calls'[g] = calls[g]
    BY CallMoves
  <1>2. calls'[h].st \in sts /\ calls'[h].tenant = t => calls[h].st \in sts /\ calls[h].tenant = t
    <2>1. CASE Goes(h)
      BY <2>1 DEF Goes, SameScope
    <2>2. CASE calls'[h] = Waiting \/ Enters(h) \/ Starts(h)
      BY <2>2, WaitingCall DEF Enters, Starts, Inside
    <2>3. QED
      BY <2>1, <2>2, CallMoves
  <1>3. QED
    BY <1>1, <1>2 DEF Past

\* The projects of a tenant are as many as before or fewer, but for an insert.
LEMMA ProjectsGrow ==
  ASSUME TenantsInv, NEW h \in Handlers, TenantsStep(h), IsFiniteSet(projects)
  PROVE  /\ IsFiniteSet(projects')
         /\ \A t : \/ Cardinality(ProjectsOf(t)') <= Cardinality(ProjectsOf(t))
                   \/ /\ Inserts(h) /\ calls[h].tenant = t
                      /\ Cardinality(ProjectsOf(t)') <= Cardinality(ProjectsOf(t)) + 1
  <1>1. \A t : IsFiniteSet(ProjectsOf(t)) /\ Cardinality(ProjectsOf(t)) \in Nat
    <2>1. \A t : ProjectsOf(t) \in SUBSET projects
      BY DEF ProjectsOf
    <2>2. QED
      BY <2>1, FS_Subset, FS_CardinalityType
  <1>2. CASE projects' \subseteq projects
    <2>1. \A t : ProjectsOf(t)' \in SUBSET ProjectsOf(t)
      BY <1>2 DEF ProjectsOf
    <2>2. QED
      BY <1>1, <1>2, <2>1, FS_Subset
  <1>3. CASE Inserts(h)
    <2> DEFINE new == RowOf(calls[h])
    <2>1. projects' = projects \cup {new} /\ new.tenant = calls[h].tenant
      BY <1>3 DEF Inserts, RowOf
    <2> HIDE DEF new
    <2>2. IsFiniteSet(projects')
      BY <2>1, FS_AddElement
    <2>3. ASSUME NEW t, t # calls[h].tenant PROVE ProjectsOf(t)' = ProjectsOf(t)
      BY <2>1, <2>3 DEF ProjectsOf
    <2>4. ASSUME NEW t, t = calls[h].tenant PROVE ProjectsOf(t)' = ProjectsOf(t) \cup {new}
      BY <2>1, <2>4 DEF ProjectsOf
    <2>5. ASSUME NEW t PROVE Cardinality(ProjectsOf(t) \cup {new}) <= Cardinality(ProjectsOf(t)) + 1
      BY <1>1, OneMore
    <2>6. QED
      BY <1>1, <1>3, <2>2, <2>3, <2>4, <2>5
  <1>4. CASE WritePolicy(h)
    <2>1. PICK f \in [projects -> projects'] :
            /\ \A p \in projects : Alike(p, f[p])
            /\ \A q \in projects' : \E p \in projects : q = f[p]
      BY <1>4, PolicyRows DEF TenantsInv
    <2>2. IsFiniteSet(projects')
      <3>1. f \in Surjection(projects, projects')
        BY <2>1 DEF Surjection
      <3>2. QED
        BY <3>1, FS_Surjection
    <2>3. ASSUME NEW t PROVE Cardinality(ProjectsOf(t)') <= Cardinality(ProjectsOf(t))
      <3> DEFINE r == [p \in ProjectsOf(t) |-> f[p]]
      <3>1. r \in [ProjectsOf(t) -> ProjectsOf(t)']
        BY <2>1 DEF ProjectsOf, Alike
      <3>2. \A q \in ProjectsOf(t)' : \E p \in ProjectsOf(t) : r[p] = q
        BY <2>1 DEF ProjectsOf, Alike
      <3> HIDE DEF r
      <3>3. r \in Surjection(ProjectsOf(t), ProjectsOf(t)')
        BY <3>1, <3>2 DEF Surjection
      <3>4. QED
        BY <1>1, <3>3, FS_Surjection
    <2>4. QED
      BY <2>2, <2>3
  <1>5. QED
    BY <1>2, <1>3, <1>4, RowMoves DEF DropProject, Observe

\* The edges of a tenant are as many as before or fewer, but for those observed.
LEMMA EdgesGrow ==
  ASSUME TenantsInv, NEW h \in Handlers, TenantsStep(h), IsFiniteSet(edges)
  PROVE  /\ IsFiniteSet(edges')
         /\ \A t : \/ Cardinality(EdgesOf(t)') <= Cardinality(EdgesOf(t))
                   \/ /\ Observe(h) /\ calls[h].tenant = t
                      /\ Cardinality(EdgesOf(t)') <= Cardinality(EdgesOf(t)) + 1
  <1>1. \A t : IsFiniteSet(EdgesOf(t)) /\ Cardinality(EdgesOf(t)) \in Nat
    <2>1. \A t : EdgesOf(t) \in SUBSET edges
      BY DEF EdgesOf
    <2>2. QED
      BY <2>1, FS_Subset, FS_CardinalityType
  <1>2. CASE edges' \subseteq edges
    <2>1. \A t : EdgesOf(t)' \in SUBSET EdgesOf(t)
      BY <1>2 DEF EdgesOf
    <2>2. QED
      BY <1>1, <1>2, <2>1, FS_Subset
  <1>3. CASE Observe(h) /\ ~(edges' \subseteq edges)
    <2> DEFINE new == [tenant |-> calls[h].tenant, space |-> calls[h].space, source |-> calls[h].row,
                       target |-> calls[h].other]
    <2>1. edges' = edges \cup {new} /\ new.tenant = calls[h].tenant
      BY <1>3 DEF Observe
    <2> HIDE DEF new
    <2>2. IsFiniteSet(edges')
      BY <2>1, FS_AddElement
    <2>3. ASSUME NEW t, t # calls[h].tenant PROVE EdgesOf(t)' = EdgesOf(t)
      BY <2>1, <2>3 DEF EdgesOf
    <2>4. ASSUME NEW t, t = calls[h].tenant PROVE EdgesOf(t)' = EdgesOf(t) \cup {new}
      BY <2>1, <2>4 DEF EdgesOf
    <2>5. ASSUME NEW t PROVE Cardinality(EdgesOf(t) \cup {new}) <= Cardinality(EdgesOf(t)) + 1
      BY <1>1, OneMore
    <2>6. QED
      BY <1>1, <1>3, <2>2, <2>3, <2>4, <2>5
  <1>4. CASE ~Observe(h)
    <2>1. edges' \subseteq edges
      BY <1>4, RowMoves DEF Inserts, WritePolicy, DropProject
    <2>2. QED
      BY <1>2, <2>1
  <1>5. QED
    BY <1>2, <1>3, <1>4

\* A request that comes to be past the check of projects has found room for one more.
LEMMA PassesProjectCheck ==
  ASSUME TenantsInv, NEW h \in Handlers, TenantsStep(h), MaxProjects[calls[h].tenant] > 0,
         Goes(h), calls'[h].st \in ProjectRacing, calls[h].st \notin ProjectRacing
  PROVE  NoRows /\ QuotaLeft(calls[h].tenant)
  <1>1. Typed /\ calls \in [Handlers -> Calls] /\ calls[h] \in Calls
    BY DEF TenantsInv, Typed
  <1>2. ~Answered(h)
    BY <1>1, AnsweredCall, WaitingCall DEF ProjectRacing
  <1>3. calls[h].st \in {"quota", "usage"} /\ calls'[h].st = "taken"
    BY DEF Goes, Ways, ProjectRacing
  <1>4. CASE calls[h].st = "quota"
    <2>1. ReadProjectQuota(h)
      BY <1>4 DEF TenantsStep, In, Arrive, Break, Select, CheckMember, FindSpace, FoundTenant, FirstSpace, MakeOwner,
         OpenSpace, IssueKey, CountProjects, SeekName, InsertProject, AttachCredential, WritePolicy,
         FindProject, DropProject, ReadEdgeQuota, CountEdges, FindSource, FindTarget, Observe
    <2>2. Then(h, "usage")
      BY <1>2, <2>1 DEF ReadProjectQuota, ReadQuota
    <2>3. QED
      BY <1>1, <1>3, <2>2, ThenCall DEF CallPlaces, Inside
  <1>5. CASE calls[h].st = "usage"
    <2>1. CountProjects(h)
      BY <1>5 DEF TenantsStep, In, Arrive, Break, Select, CheckMember, FindSpace, FoundTenant, FirstSpace, MakeOwner,
         OpenSpace, IssueKey, ReadProjectQuota, SeekName, InsertProject, AttachCredential, WritePolicy,
         FindProject, DropProject, ReadEdgeQuota, CountEdges, FindSource, FindTarget, Observe
    <2>2. QED
      BY <1>2, <2>1 DEF CountProjects
  <1>6. QED
    BY <1>3, <1>4, <1>5

LEMMA PassesEdgeCheck ==
  ASSUME TenantsInv, NEW h \in Handlers, TenantsStep(h), MaxEdges[calls[h].tenant] > 0,
         Goes(h), calls'[h].st \in EdgeRacing, calls[h].st \notin EdgeRacing
  PROVE  NoRows /\ ~(Cardinality(EdgesOf(calls[h].tenant)) + 1 > MaxEdges[calls[h].tenant])
  <1>1. Typed /\ calls \in [Handlers -> Calls] /\ calls[h] \in Calls
    BY DEF TenantsInv, Typed
  <1>2. ~Answered(h)
    BY <1>1, AnsweredCall, WaitingCall DEF EdgeRacing
  <1>3. calls[h].st \in {"limit", "room"} /\ calls'[h].st = "source"
    BY DEF Goes, Ways, EdgeRacing
  <1>4. CASE calls[h].st = "limit"
    <2>1. ReadEdgeQuota(h)
      BY <1>4 DEF TenantsStep, In, Arrive, Break, Select, CheckMember, FindSpace, FoundTenant, FirstSpace, MakeOwner,
         OpenSpace, IssueKey, ReadProjectQuota, CountProjects, SeekName, InsertProject, AttachCredential, WritePolicy,
         FindProject, DropProject, CountEdges, FindSource, FindTarget, Observe
    <2>2. Then(h, "room")
      BY <1>2, <2>1 DEF ReadEdgeQuota, ReadQuota
    <2>3. QED
      BY <1>1, <1>3, <2>2, ThenCall DEF CallPlaces, Inside
  <1>5. CASE calls[h].st = "room"
    <2>1. CountEdges(h)
      BY <1>5 DEF TenantsStep, In, Arrive, Break, Select, CheckMember, FindSpace, FoundTenant, FirstSpace, MakeOwner,
         OpenSpace, IssueKey, ReadProjectQuota, CountProjects, SeekName, InsertProject, AttachCredential, WritePolicy,
         FindProject, DropProject, ReadEdgeQuota, FindSource, FindTarget, Observe
    <2>2. QED
      BY <1>2, <2>1 DEF CountEdges
  <1>6. QED
    BY <1>3, <1>4, <1>5

\* The arithmetic of a race: rows held, requests past the check, limit and handlers.
LEMMA RaceBound ==
  ASSUME NEW held \in Nat, NEW held2 \in Nat, NEW past \in Nat, NEW past2 \in Nat, NEW limit \in Nat, NEW n \in Nat,
         held + past <= limit + n - 1, past2 <= n,
         \/ held2 <= held /\ past2 <= past
         \/ held2 <= held + 1 /\ past2 <= past - 1
         \/ held2 <= held /\ held + 1 <= limit
  PROVE  held2 + past2 <= limit + n - 1
  OBVIOUS

\* A request that leaves the set past the check makes it smaller.
LEMMA PastLeft ==
  ASSUME TenantsInv, NEW h \in Handlers, TenantsStep(h), NEW t, NEW sts \in SUBSET Inside,
         calls[h].tenant = t, calls[h].st \in sts, calls'[h].st \notin sts
  PROVE  Cardinality(Past(t, sts)') <= Cardinality(Past(t, sts)) - 1
  <1>1. Past(t, sts)' \subseteq Past(t, sts)
    BY PastMoves
  <1>2. h \in Past(t, sts) /\ h \notin Past(t, sts)'
    BY DEF Past
  <1>3. Past(t, sts)' \in SUBSET (Past(t, sts) \ {h})
    BY <1>1, <1>2
  <1>4. /\ IsFiniteSet(Past(t, sts) \ {h})
        /\ Cardinality(Past(t, sts) \ {h}) = Cardinality(Past(t, sts)) - 1
    BY <1>2, PastFinite, FS_RemoveElement
  <1>5. QED
    BY <1>3, <1>4, PastFinite, FS_Subset

LEMMA PastShrinks ==
  ASSUME NEW t, NEW sts, Past(t, sts)' \subseteq Past(t, sts)
  PROVE  Cardinality(Past(t, sts)') <= Cardinality(Past(t, sts))
  BY PastFinite, FS_Subset

LEMMA ProjectQuotaNext ==
  ASSUME QuotaInv, NEW h \in Handlers, TenantsStep(h), NEW t \in Founded, MaxProjects[t] > 0
  PROVE  Cardinality(ProjectsOf(t)') + Cardinality(Past(t, ProjectRacing)') <= MaxProjects[t] + Cardinality(Handlers) - 1
  <1>1. TenantsInv /\ IsFiniteSet(projects) /\ OnlyRacersExceed
    BY DEF QuotaInv
  <1>2. Cardinality(Handlers) \in Nat /\ MaxProjects[t] \in Nat
    BY TenantsAssumption, FS_CardinalityType
  <1>3. /\ Cardinality(Past(t, ProjectRacing)) \in Nat
        /\ Cardinality(Past(t, ProjectRacing)') \in Nat
        /\ Cardinality(Past(t, ProjectRacing)') <= Cardinality(Handlers)
    <2>1. /\ IsFiniteSet(Past(t, ProjectRacing)') /\ Cardinality(Past(t, ProjectRacing)') \in Nat
          /\ Cardinality(Past(t, ProjectRacing)') <= Cardinality(Handlers)
      <3>1. Past(t, ProjectRacing)' \in SUBSET Handlers
        BY DEF Past
      <3>2. QED
        BY <3>1, TenantsAssumption, FS_Subset, FS_CardinalityType
    <2>2. QED
      BY <2>1, PastFinite
  <1>4. IsFiniteSet(projects')
    BY <1>1, ProjectsGrow
  <1>5. Cardinality(ProjectsOf(t)) \in Nat /\ Cardinality(ProjectsOf(t)') \in Nat
    <2>1. ProjectsOf(t) \in SUBSET projects /\ ProjectsOf(t)' \in SUBSET projects'
      BY DEF ProjectsOf
    <2>2. QED
      BY <1>1, <1>4, <2>1, FS_Subset, FS_CardinalityType
  <1>6. Cardinality(ProjectsOf(t)) + Cardinality(Past(t, ProjectRacing)) <= MaxProjects[t] + Cardinality(Handlers) - 1
    BY <1>1 DEF OnlyRacersExceed, ProjectRacing
  <1>7. ProjectRacing \in SUBSET Inside
    BY DEF ProjectRacing, Inside
  <1>8. CASE Goes(h) /\ calls'[h].st \in ProjectRacing /\ calls[h].st \notin ProjectRacing /\ calls[h].tenant = t
    <2>1. NoRows /\ QuotaLeft(t)
      BY <1>1, <1>8, PassesProjectCheck
    <2>2. ProjectsOf(t)' = ProjectsOf(t) /\ Cardinality(ProjectsOf(t)) + 1 <= MaxProjects[t]
      BY <1>2, <1>5, <2>1 DEF NoRows, ProjectsOf, QuotaLeft
    <2>3. QED
      BY <1>2, <1>3, <1>5, <1>6, <2>2, RaceBound
  <1>9. CASE Inserts(h) /\ calls[h].tenant = t
    <2>1. Cardinality(Past(t, ProjectRacing)') <= Cardinality(Past(t, ProjectRacing)) - 1
      <3>1. calls[h].st \in ProjectRacing /\ calls'[h].st \notin ProjectRacing
        BY <1>9 DEF Inserts, ProjectRacing
      <3>2. QED
        BY <1>1, <1>7, <1>9, <3>1, PastLeft
    <2>2. Cardinality(ProjectsOf(t)') <= Cardinality(ProjectsOf(t)) + 1
      BY <1>1, <1>5, ProjectsGrow
    <2>3. QED
      BY <1>2, <1>3, <1>5, <1>6, <2>1, <2>2, RaceBound
  <1>10. CASE /\ ~(Goes(h) /\ calls'[h].st \in ProjectRacing /\ calls[h].st \notin ProjectRacing /\ calls[h].tenant = t)
              /\ ~(Inserts(h) /\ calls[h].tenant = t)
    <2>1. Past(t, ProjectRacing)' \subseteq Past(t, ProjectRacing)
      BY <1>1, <1>7, <1>10, PastMoves
    <2>2. Cardinality(Past(t, ProjectRacing)') <= Cardinality(Past(t, ProjectRacing))
      BY <2>1, PastShrinks
    <2>3. Cardinality(ProjectsOf(t)') <= Cardinality(ProjectsOf(t))
      BY <1>1, <1>10, ProjectsGrow
    <2>4. QED
      BY <1>2, <1>3, <1>5, <1>6, <2>2, <2>3, RaceBound
  <1>11. QED
    BY <1>8, <1>9, <1>10

LEMMA EdgeQuotaNext ==
  ASSUME QuotaInv, NEW h \in Handlers, TenantsStep(h), NEW t \in Founded, MaxEdges[t] > 0
  PROVE  Cardinality(EdgesOf(t)') + Cardinality(Past(t, EdgeRacing)') <= MaxEdges[t] + Cardinality(Handlers) - 1
  <1>1. TenantsInv /\ IsFiniteSet(edges) /\ OnlyRacersExceed
    BY DEF QuotaInv
  <1>2. Cardinality(Handlers) \in Nat /\ MaxEdges[t] \in Nat
    BY TenantsAssumption, FS_CardinalityType
  <1>3. /\ Cardinality(Past(t, EdgeRacing)) \in Nat
        /\ Cardinality(Past(t, EdgeRacing)') \in Nat
        /\ Cardinality(Past(t, EdgeRacing)') <= Cardinality(Handlers)
    <2>1. /\ IsFiniteSet(Past(t, EdgeRacing)') /\ Cardinality(Past(t, EdgeRacing)') \in Nat
          /\ Cardinality(Past(t, EdgeRacing)') <= Cardinality(Handlers)
      <3>1. Past(t, EdgeRacing)' \in SUBSET Handlers
        BY DEF Past
      <3>2. QED
        BY <3>1, TenantsAssumption, FS_Subset, FS_CardinalityType
    <2>2. QED
      BY <2>1, PastFinite
  <1>4. IsFiniteSet(edges')
    BY <1>1, EdgesGrow
  <1>5. Cardinality(EdgesOf(t)) \in Nat /\ Cardinality(EdgesOf(t)') \in Nat
    <2>1. EdgesOf(t) \in SUBSET edges /\ EdgesOf(t)' \in SUBSET edges'
      BY DEF EdgesOf
    <2>2. QED
      BY <1>1, <1>4, <2>1, FS_Subset, FS_CardinalityType
  <1>6. Cardinality(EdgesOf(t)) + Cardinality(Past(t, EdgeRacing)) <= MaxEdges[t] + Cardinality(Handlers) - 1
    BY <1>1 DEF OnlyRacersExceed, EdgeRacing
  <1>7. EdgeRacing \in SUBSET Inside
    BY DEF EdgeRacing, Inside
  <1>8. CASE Goes(h) /\ calls'[h].st \in EdgeRacing /\ calls[h].st \notin EdgeRacing /\ calls[h].tenant = t
    <2>1. NoRows /\ ~(Cardinality(EdgesOf(t)) + 1 > MaxEdges[t])
      BY <1>1, <1>8, PassesEdgeCheck
    <2>2. EdgesOf(t)' = EdgesOf(t) /\ Cardinality(EdgesOf(t)) + 1 <= MaxEdges[t]
      BY <1>2, <1>5, <2>1 DEF NoRows, EdgesOf
    <2>3. QED
      BY <1>2, <1>3, <1>5, <1>6, <2>2, RaceBound
  <1>9. CASE Observe(h) /\ calls[h].tenant = t
    <2>1. Cardinality(Past(t, EdgeRacing)') <= Cardinality(Past(t, EdgeRacing)) - 1
      <3>1. calls[h].st \in EdgeRacing /\ Answered(h)
        BY <1>9 DEF Observe, In, EdgeRacing
      <3>2. calls'[h].st \notin EdgeRacing
        BY <1>1, <3>1, AnsweredCall, WaitingCall DEF TenantsInv, Typed, EdgeRacing
      <3>3. QED
        BY <1>1, <1>7, <1>9, <3>1, <3>2, PastLeft
    <2>2. Cardinality(EdgesOf(t)') <= Cardinality(EdgesOf(t)) + 1
      BY <1>1, <1>5, EdgesGrow
    <2>3. QED
      BY <1>2, <1>3, <1>5, <1>6, <2>1, <2>2, RaceBound
  <1>10. CASE /\ ~(Goes(h) /\ calls'[h].st \in EdgeRacing /\ calls[h].st \notin EdgeRacing /\ calls[h].tenant = t)
              /\ ~(Observe(h) /\ calls[h].tenant = t)
    <2>1. Past(t, EdgeRacing)' \subseteq Past(t, EdgeRacing)
      BY <1>1, <1>7, <1>10, PastMoves
    <2>2. Cardinality(Past(t, EdgeRacing)') <= Cardinality(Past(t, EdgeRacing))
      BY <2>1, PastShrinks
    <2>3. Cardinality(EdgesOf(t)') <= Cardinality(EdgesOf(t))
      BY <1>1, <1>10, EdgesGrow
    <2>4. QED
      BY <1>2, <1>3, <1>5, <1>6, <2>2, <2>3, RaceBound
  <1>11. QED
    BY <1>8, <1>9, <1>10

LEMMA QuotaInvInit == TenantsInit => QuotaInv
  <1> SUFFICES ASSUME TenantsInit PROVE QuotaInv
    OBVIOUS
  <1>1. TenantsInv
    BY TenantsInvInit
  <1>2. projects = {} /\ edges = {} /\ \A h \in Handlers : calls[h].st = "idle"
    BY WaitingCall DEF TenantsInit
  <1>3. IsFiniteSet({}) /\ Cardinality({}) = 0
    BY FS_EmptySet
  <1>4. \A t : ProjectsOf(t) = {} /\ EdgesOf(t) = {} /\ Past(t, {"taken", "insert"}) = {}
               /\ Past(t, {"source", "target", "observe"}) = {}
    BY <1>2 DEF ProjectsOf, EdgesOf, Past
  <1>5. Cardinality(Handlers) \in Nat
    BY TenantsAssumption, FS_CardinalityType
  <1>6. OnlyRacersExceed
    <2>1. \A t : /\ Cardinality(ProjectsOf(t)) = 0 /\ Cardinality(Past(t, {"taken", "insert"})) = 0
                 /\ Cardinality(EdgesOf(t)) = 0 /\ Cardinality(Past(t, {"source", "target", "observe"})) = 0
      BY <1>3, <1>4
    <2>2. \A t \in Founded : MaxProjects[t] \in Nat /\ MaxEdges[t] \in Nat
      BY TenantsAssumption
    <2>3. QED
      BY <1>5, <2>1, <2>2 DEF OnlyRacersExceed
  <1>7. QED
    BY <1>1, <1>2, <1>3, <1>6 DEF QuotaInv

LEMMA QuotaInvNext == QuotaInv /\ [TenantsNext]_tenantVars => QuotaInv'
  <1> SUFFICES ASSUME QuotaInv, [TenantsNext]_tenantVars PROVE QuotaInv'
    OBVIOUS
  <1>1. TenantsInv'
    BY TenantsInvNext DEF QuotaInv
  <1>2. CASE UNCHANGED tenantVars
    BY <1>1, <1>2 DEF tenantVars, QuotaInv, OnlyRacersExceed, ProjectsOf, EdgesOf, Past
  <1>3. ASSUME NEW h \in Handlers, TenantsStep(h) PROVE QuotaInv'
    <2>1. IsFiniteSet(projects)' /\ IsFiniteSet(edges)'
      BY <1>3, ProjectsGrow, EdgesGrow DEF QuotaInv
    <2>2. OnlyRacersExceed'
      BY <1>3, ProjectQuotaNext, EdgeQuotaNext DEF OnlyRacersExceed, ProjectRacing, EdgeRacing
    <2>3. QED
      BY <1>1, <2>1, <2>2 DEF QuotaInv
  <1>4. QED
    BY <1>2, <1>3 DEF TenantsNext

\* A quota that is checked before the row is inserted, with no lock in between,
\* is exceeded by requests that run at the same time and by nothing else: never
\* by more than one row for every further handler (saas.go enforceProjectQuota
\* and enforceRuntimeEdgeQuota).
THEOREM QuotasRaceOnly == TenantsSpec => []OnlyRacersExceed
  <1>1. QuotaInv => OnlyRacersExceed
    BY DEF QuotaInv
  <1>2. QED
    BY <1>1, QuotaInvInit, QuotaInvNext, PTL DEF TenantsSpec
================================================================================
