--------------------------------- MODULE Access ---------------------------------
(***************************************************************************)
(* Who may call the server: log-ins with their limit on attempts, web      *)
(* sessions, API keys and control tokens, accounts that are disabled, and  *)
(* the limit on requests per second (internal/server/auth.go, server.go,   *)
(* internal/webadmin, and the statements of internal/store behind them).   *)
(*                                                                         *)
(* A request is a goroutine (a worker here) that takes one step per store  *)
(* call; anything may happen between two steps.  Passwords are right or    *)
(* wrong, and a bearer is the row it hashes to.                            *)
(***************************************************************************)
EXTENDS Integers, FiniteSets

CONSTANTS
  Workers,     \* goroutines that serve requests
  Users,       \* accounts
  Keys,        \* rows of api_tokens a user may create
  Owner,       \* key to user
  Lifetime,    \* key to its ttl; 0 never expires (an API key is such a one)
  TTL,         \* sessionTTL or rememberMeTTL
  LoginTries,  \* loginMaxTries
  LoginWindow, \* loginWindow
  Rate,        \* requests per second and bearer
  Second,      \* that second
  MaxTime,     \* bound: the clock
  MaxRequests, \* bound: requests
  MaxErrs      \* bound: statements that fail

ASSUME UsersAssumption == Users # {} /\ Keys # {}
ASSUME WorkersAssumption == IsFiniteSet(Workers)
ASSUME OwnerAssumption == Owner \in [Keys -> Users]
ASSUME LifetimeAssumption == Lifetime \in [Keys -> Nat] /\ TTL \subseteq Nat \ {0}
ASSUME LimitsAssumption ==
  /\ {LoginTries, LoginWindow, Rate, Second} \subseteq Nat \ {0}
  /\ {MaxTime, MaxRequests, MaxErrs} \subseteq Nat

VARIABLES
  now,        \* the clock
  disabled,   \* users.disabled_at IS NOT NULL
  sessions,   \* rows of web_sessions
  tokens,     \* rows of api_tokens: key to the time it expires at
  revoked,    \* api_tokens.revoked_at IS NOT NULL
  tries,      \* loginLimiter.tries: the attempts that failed, by user
  buckets,    \* apiRateLimiter.counts
  cookies,    \* sessions whose cookie a browser has been given
  task,       \* what each worker does
  requests, errs,
  failures,   \* ghost: per user, the log-ins that failed
  eras,       \* ghost: how often a user has been disabled
  unfinished  \* ghost: users whose last disabling failed half-way

rows == <<disabled, sessions, tokens, revoked>>
limiters == <<tries, buckets>>
ghosts == <<failures, eras, unfinished>>
vars == <<now, rows, limiters, cookies, task, requests, errs, ghosts>>

Never == MaxTime + 1
Times == 0 .. MaxTime
NoBucket == [count |-> 0, window |-> -1]
AnyUser == CHOOSE u \in Users : TRUE
AnyKey == CHOOSE k \in Keys : TRUE
Resting == [st |-> "idle", id |-> 0, at |-> 0, user |-> AnyUser, right |-> FALSE, ttl |-> 0,
            session |-> 0, key |-> AnyKey, over |-> FALSE]
ExpiryOf(k, t) == IF Lifetime[k] = 0 THEN Never ELSE t + Lifetime[k]

Init ==
  /\ now = 0
  /\ disabled = {} /\ sessions = {} /\ revoked = {}
  /\ \E K \in SUBSET Keys : tokens = [k \in K |-> ExpiryOf(k, 0)]
  /\ tries = [u \in Users |-> {}]
  /\ buckets = [k \in Keys |-> NoBucket]
  /\ cookies = {}
  /\ task = [w \in Workers |-> Resting]
  /\ requests = 0 /\ errs = 0
  /\ failures = [u \in Users |-> {}]
  /\ eras = [u \in Users |-> 0]
  /\ unfinished = {}

------------------------------------------------------------------------------
At(w, st) == task[w].st = st
Goto(w, st) == task' = [task EXCEPT ![w].st = st]
End(w) == task' = [task EXCEPT ![w] = Resting]
Receive(w, t) ==
  /\ At(w, "idle") /\ requests < MaxRequests
  /\ requests' = requests + 1
  /\ task' = [task EXCEPT ![w] = [t EXCEPT !.id = requests']]
Quiet == UNCHANGED <<now, cookies, requests, errs>>
QuietGhosts == UNCHANGED ghosts

Tick == now < MaxTime /\ now' = now + 1 /\ UNCHANGED <<rows, limiters, cookies, task, requests, errs, ghosts>>

(* A store call fails: 500, and nothing else happens. *)
Fail(w) ==
  /\ task[w].st \in {"lookup", "insert", "update", "delete", "resolve", "bearer", "logout", "mint", "revoke", "enable"}
  /\ errs < MaxErrs /\ errs' = errs + 1
  /\ End(w)
  /\ unfinished' = IF At(w, "delete") THEN unfinished \cup {task[w].user} ELSE unfinished
  /\ UNCHANGED <<now, rows, limiters, cookies, requests, failures, eras>>

------------------------------------------------------------------------------
(* apiLogin *)
ReceiveLogin(w) ==
  /\ \E u \in Users, ok \in BOOLEAN, ttl \in TTL :
       Receive(w, [Resting EXCEPT !.st = "allowed", !.at = now, !.user = u, !.right = ok, !.ttl = ttl])
  /\ UNCHANGED <<now, rows, limiters, cookies, errs, ghosts>>

\* An attempt, with the time it began at.
Attempt(w) == [id |-> task[w].id, at |-> task[w].at]

Prune(ts, t) == {x \in ts : x.at > t - LoginWindow}

\* Mutant of Allowed: one try more.
AllowedOneMore(ts) == Cardinality(ts) <= LoginTries

Allowed(ts) == Cardinality(ts) < LoginTries

CheckLimit(w) ==
  /\ At(w, "allowed")
  /\ LET u == task[w].user
         kept == Prune(tries[u], task[w].at)
     IN /\ tries' = [tries EXCEPT ![u] = kept]
        /\ IF Allowed(kept) THEN Goto(w, "lookup") ELSE End(w)
  /\ UNCHANGED <<rows, buckets>> /\ Quiet /\ QuietGhosts

\* The user is unknown or disabled, or the password is wrong.
Refused(w) ==
  /\ Goto(w, "record")
  /\ failures' = [failures EXCEPT ![task[w].user] = @ \cup {Attempt(w)}]
  /\ UNCHANGED <<eras, unfinished>>

LookUp(w) ==
  /\ At(w, "lookup")
  /\ IF task[w].user \in disabled THEN Refused(w) ELSE Goto(w, "verify") /\ QuietGhosts
  /\ UNCHANGED <<rows, limiters>> /\ Quiet

Verify(w) ==
  /\ At(w, "verify")
  /\ IF task[w].right THEN Goto(w, "insert") /\ QuietGhosts ELSE Refused(w)
  /\ UNCHANGED <<rows, limiters>> /\ Quiet

Record(w) ==
  /\ At(w, "record")
  /\ LET u == task[w].user
     IN tries' = [tries EXCEPT ![u] = Prune(@, task[w].at) \cup {Attempt(w)}]
  /\ End(w)
  /\ UNCHANGED <<rows, buckets>> /\ Quiet /\ QuietGhosts

CreateSession(w) ==
  /\ At(w, "insert")
  /\ LET u == task[w].user
     IN sessions' = sessions \cup {[id |-> task[w].id, user |-> u, until |-> task[w].at + task[w].ttl,
                                     era |-> eras[u]]}
  /\ Goto(w, "reset")
  /\ UNCHANGED <<disabled, tokens, revoked, limiters>> /\ Quiet /\ QuietGhosts

Reset(w) ==
  /\ At(w, "reset")
  /\ tries' = [tries EXCEPT ![task[w].user] = {}]
  /\ failures' = [failures EXCEPT ![task[w].user] = {}]
  /\ cookies' = cookies \cup {task[w].id}
  /\ End(w)
  /\ UNCHANGED <<now, rows, buckets, requests, errs, eras, unfinished>>

\* reap: names whose tries are all too old.
ReapTries ==
  /\ \E u \in Users : /\ tries[u] # {} /\ Prune(tries[u], now) = {}
                      /\ tries' = [tries EXCEPT ![u] = {}]
  /\ UNCHANGED <<rows, buckets, task>> /\ Quiet /\ QuietGhosts

------------------------------------------------------------------------------
(* apiSetUserDisabled: an administrator disables or enables another account. *)
ReceiveSwitch(w) ==
  /\ \E u \in Users, st \in {"update", "enable"} : Receive(w, [Resting EXCEPT !.st = st, !.user = u])
  /\ UNCHANGED <<now, rows, limiters, cookies, errs, ghosts>>

\* Mutant of Update: the sessions stay, since SessionUser does not serve them now.
UpdateOnly(w) ==
  /\ At(w, "update")
  /\ disabled' = disabled \cup {task[w].user}
  /\ eras' = [eras EXCEPT ![task[w].user] = @ + 1]
  /\ End(w)
  /\ UNCHANGED <<sessions, tokens, revoked, limiters, failures, unfinished>> /\ Quiet

Update(w) ==
  /\ At(w, "update")
  /\ disabled' = disabled \cup {task[w].user}
  /\ eras' = [eras EXCEPT ![task[w].user] = @ + 1]
  /\ Goto(w, "delete")
  /\ UNCHANGED <<sessions, tokens, revoked, limiters, failures, unfinished>> /\ Quiet

DeleteSessions(w) ==
  /\ At(w, "delete")
  /\ sessions' = {s \in sessions : s.user # task[w].user}
  /\ unfinished' = unfinished \ {task[w].user}
  /\ End(w)
  /\ UNCHANGED <<disabled, tokens, revoked, limiters, failures, eras>> /\ Quiet

Enable(w) ==
  /\ At(w, "enable")
  /\ disabled' = disabled \ {task[w].user}
  /\ End(w)
  /\ UNCHANGED <<sessions, tokens, revoked, limiters>> /\ Quiet /\ QuietGhosts

------------------------------------------------------------------------------
(* protectAPI: a request with a session cookie. *)
Live(id, t) == \E s \in sessions : s.id = id /\ s.until > t

ReceivePage(w) ==
  /\ \E id \in cookies :
       Receive(w, [Resting EXCEPT !.st = "resolve", !.session = id, !.over = ~Live(id, now)])
  /\ UNCHANGED <<now, rows, limiters, cookies, errs, ghosts>>

\* Mutant of SessionUser: any row will do.
SessionUserOfAnyRow(id) == {s.user : s \in {r \in sessions : r.id = id}} \ disabled

SessionUser(id) == {s.user : s \in {r \in sessions : r.id = id /\ r.until > now}} \ disabled

Resolve(w) ==
  /\ At(w, "resolve")
  /\ LET found == SessionUser(task[w].session)
     IN IF found = {} THEN End(w)
        ELSE \E u \in found : task' = [task EXCEPT ![w].st = "page", ![w].user = u]
  /\ UNCHANGED <<rows, limiters>> /\ Quiet /\ QuietGhosts

\* The handler: apiLogout, apiCreateKey or apiCreateToken, apiRevokeKey or
\* apiRevokeToken, or one that reads.
Handle(w) ==
  /\ At(w, "page")
  /\ \/ Goto(w, "logout") \/ End(w)
     \/ \E k \in Keys : task' = [task EXCEPT ![w].st = "mint", ![w].key = k]
     \/ \E k \in Keys : task' = [task EXCEPT ![w].st = "revoke", ![w].key = k]
  /\ UNCHANGED <<rows, limiters>> /\ Quiet /\ QuietGhosts

Logout(w) ==
  /\ At(w, "logout")
  /\ sessions' = {s \in sessions : s.id # task[w].session}
  /\ End(w)
  /\ UNCHANGED <<disabled, tokens, revoked, limiters>> /\ Quiet /\ QuietGhosts

Mint(w) ==
  /\ At(w, "mint")
  /\ LET k == task[w].key
     IN tokens' = IF Owner[k] # task[w].user \/ k \in DOMAIN tokens THEN tokens
                  ELSE [j \in DOMAIN tokens \cup {k} |-> IF j = k THEN ExpiryOf(k, now) ELSE tokens[j]]
  /\ End(w)
  /\ UNCHANGED <<disabled, sessions, revoked, limiters>> /\ Quiet /\ QuietGhosts

\* RevokeUserToken: only the user's own.
Revoke(w) ==
  /\ At(w, "revoke")
  /\ revoked' = revoked \cup ({task[w].key} \cap {k \in DOMAIN tokens : Owner[k] = task[w].user})
  /\ End(w)
  /\ UNCHANGED <<disabled, sessions, tokens, limiters>> /\ Quiet /\ QuietGhosts

------------------------------------------------------------------------------
(* rateLimit, then authed: a request with a bearer. *)
ReceiveCall(w) ==
  /\ \E k \in DOMAIN tokens :
       Receive(w, [Resting EXCEPT !.st = "limit", !.key = k,
                    !.over = k \in revoked \/ tokens[k] <= now])
  /\ UNCHANGED <<now, rows, limiters, cookies, errs, ghosts>>

NewBucket == [count |-> 1, window |-> now + Second]

LetThrough(w) == Goto(w, "bearer") /\ QuietGhosts

Limit(w) ==
  /\ At(w, "limit")
  /\ LET k == task[w].key b == buckets[k]
     IN IF now > b.window THEN buckets' = [buckets EXCEPT ![k] = NewBucket] /\ LetThrough(w)
        ELSE IF b.count >= Rate THEN End(w) /\ UNCHANGED buckets /\ QuietGhosts
        ELSE buckets' = [buckets EXCEPT ![k].count = @ + 1] /\ LetThrough(w)
  /\ UNCHANGED <<rows, tries>> /\ Quiet

ReapBuckets ==
  /\ \E k \in Keys : /\ buckets[k] # NoBucket /\ now > buckets[k].window
                     /\ buckets' = [buckets EXCEPT ![k] = NoBucket]
  /\ UNCHANGED <<rows, tries, task>> /\ Quiet /\ QuietGhosts

\* A control token is verified first, then its row is looked up, as a key's is.
TokenByHash(k) == k \in DOMAIN tokens /\ k \notin revoked /\ Owner[k] \notin disabled

Authorize(w) ==
  /\ At(w, "bearer")
  /\ IF tokens[task[w].key] > now THEN Goto(w, "token") ELSE End(w)
  /\ UNCHANGED <<rows, limiters>> /\ Quiet /\ QuietGhosts

FindToken(w) ==
  /\ At(w, "token")
  /\ IF TokenByHash(task[w].key) THEN Goto(w, "call") ELSE End(w)
  /\ UNCHANGED <<rows, limiters>> /\ Quiet /\ QuietGhosts

Call(w) == At(w, "call") /\ End(w) /\ UNCHANGED <<rows, limiters>> /\ Quiet /\ QuietGhosts

------------------------------------------------------------------------------
Work(w) ==
  \/ ReceiveLogin(w) \/ CheckLimit(w) \/ LookUp(w) \/ Verify(w) \/ Record(w)
  \/ CreateSession(w) \/ Reset(w)
  \/ ReceiveSwitch(w) \/ Update(w) \/ DeleteSessions(w) \/ Enable(w)
  \/ ReceivePage(w) \/ Resolve(w) \/ Handle(w) \/ Logout(w) \/ Mint(w) \/ Revoke(w)
  \/ ReceiveCall(w) \/ Limit(w) \/ Authorize(w) \/ FindToken(w) \/ Call(w)
  \/ Fail(w)

Next == Tick \/ ReapTries \/ ReapBuckets \/ \E w \in Workers : Work(w)

Spec == Init /\ [][Next]_vars

------------------------------------------------------------------------------
TypeOK ==
  /\ now \in Times
  /\ disabled \subseteq Users /\ revoked \subseteq DOMAIN tokens
  /\ \A s \in sessions : s.id \in 1 .. requests /\ s.user \in Users /\ s.until \in Nat /\ s.era \in Nat
  /\ DOMAIN tokens \subseteq Keys /\ \A k \in DOMAIN tokens : tokens[k] \in Nat
  /\ cookies \subseteq 1 .. requests
  /\ tries \in [Users -> SUBSET [id : 1 .. requests, at : Times]]
  /\ requests \in 0 .. MaxRequests /\ errs \in 0 .. MaxErrs

(* Attempts are let in before they are recorded, so those that are in flight *)
(* together may pass together; but within a window no more log-ins of a name *)
(* fail than the limit and the other workers account for, however they      *)
(* overlap, with whatever the reaper and later prunings drop.                *)
FailuresLimited ==
  \A u \in Users :
    LET recent == {x \in failures[u] : x.at > now - LoginWindow}
    IN Cardinality(recent) <= LoginTries - 1 + Cardinality(Workers)

(* "Disabling also invalidates their active sessions" (SetUserDisabled): a   *)
(* session that was opened before its user was disabled is gone when the     *)
(* disabling has answered well, and enabling the user does not revive it,    *)
(* whatever log-ins and other switches happen meanwhile.                     *)
DisabledSessionsGone ==
  \A s \in sessions :
    \/ s.era = eras[s.user]
    \/ s.user \in unfinished
    \/ \E w \in Workers : At(w, "delete") /\ task[w].user = s.user

(* What had ended when a request arrived does not get it served: a session   *)
(* that was closed or has expired, a key or token that was revoked or is     *)
(* past its time, even if a look-up is slow.                                 *)
EndedStaysEnded == \A w \in Workers : task[w].st \in {"page", "call"} => ~task[w].over
==============================================================================
