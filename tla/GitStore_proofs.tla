--------------------------- MODULE GitStore_proofs ---------------------------
(***************************************************************************)
(* Proofs about the state beside the index: GitSync for any number of      *)
(* workers, administrators, names, repositories, pushes and crashes (a job *)
(* indexes a whole checkout that is no older than the job, private keys    *)
(* are on disk only while they are used, and updates that overlap do not   *)
(* give a credential a secret of the wrong kind), and LocalStore for every *)
(* number of clients, processes, file versions and chunks.                 *)
(***************************************************************************)
EXTENDS GitSync, LocalStore, TLAPS

LEMMA FreeFacts ==
  /\ Free.st = "idle" /\ Free.name \in Names /\ Free.url \in Urls
  /\ Free.since \in History /\ Free.cred = None
  BY SomethingAssumption DEF Free, History

------------------------------------------------------------------------------
(* Credentials. *)
CredRow == [id : Nat, kind : {"https", "ssh"}, secret : Secrets, sealed : MasterKeys \cup {NoKey}]

CredInv ==
  /\ creds \in [Scopes -> CredRow \cup {None}]
  /\ edits \in Nat /\ key \in MasterKeys \cup {NoKey}
  /\ \A s \in Scopes : creds[s] # None => Fits(creds[s].kind, creds[s].secret)
  /\ edit \in [Admins -> [st : {"idle", "write"}, scope : Scopes, kind : {"", "https", "ssh"},
                          secret : Secrets \cup {None}, old : CredRow \cup {None}]]
  /\ \A a \in Admins : edit[a].st = "write" =>
       edit[a].old \in CredRow /\ Fits(edit[a].old.kind, edit[a].old.secret)

LEMMA CalmType ==
  Calm \in [st : {"idle", "write"}, scope : Scopes, kind : {"", "https", "ssh"},
            secret : Secrets \cup {None}, old : CredRow \cup {None}]
  BY SomethingAssumption DEF Calm, Scopes

\* The row that an update writes: of a kind that goes with its secret.
LEMMA UpdatedFits ==
  ASSUME CredInv, NEW a \in Admins, edit[a].st = "write", Acceptable(edit[a]),
         NEW row \in CredRow
  PROVE  /\ Updated(edit[a], row) \in CredRow
         /\ Fits(Updated(edit[a], row).kind, Updated(edit[a], row).secret)
  <1> DEFINE e == edit[a]
  <1>1. /\ e.kind \in {"", "https", "ssh"} /\ e.secret \in Secrets \cup {None}
        /\ e.old \in CredRow /\ Fits(e.old.kind, e.old.secret)
    BY DEF CredInv
  <1>2. KindOf(e) \in {"https", "ssh"}
    BY <1>1 DEF KindOf, CredRow
  <1>3. CASE e.secret = None
    BY <1>1, <1>2, <1>3 DEF Acceptable, Updated, CredRow, Fits
  <1>4. CASE e.secret # None
    BY <1>1, <1>2, <1>4 DEF Acceptable, Updated, CredRow, Fits, CredInv
  <1>5. QED
    BY <1>3, <1>4

LEMMA CredUnchanged ==
  ASSUME CredInv, UNCHANGED <<creds, edit>>, key' \in MasterKeys \cup {NoKey}, edits' \in Nat
  PROVE  CredInv'
  BY DEF CredInv

LEMMA EditCounts ==
  ASSUME CredInv, Edit
  PROVE  edits' \in Nat
  <1>1. edits \in Nat
    BY DEF CredInv
  <1>2. QED
    BY <1>1 DEF Edit

LEMMA CredNext == CredInv /\ [Next]_vars => CredInv'
  <1> SUFFICES ASSUME CredInv, [Next]_vars PROVE CredInv'
    OBVIOUS
  <1>1. CASE UNCHANGED vars
    BY <1>1, CredUnchanged DEF vars, stored, bounds, CredInv
  <1>2. ASSUME NEW u \in Urls, Push(u) PROVE CredInv'
    BY <1>2, CredUnchanged DEF Push, stored, CredInv
  <1>3. ASSUME NEW n \in Names, CreateProject(n) PROVE CredInv'
    BY <1>3, CredUnchanged, EditCounts DEF CreateProject, CredInv
  <1>4. ASSUME NEW n \in Names, DeleteProject(n) PROVE CredInv'
    <2>1. UNCHANGED <<key, edit>> /\ edits' \in Nat /\ creds' = [creds EXCEPT ![n] = None]
      BY <1>4, EditCounts DEF DeleteProject
    <2>2. QED
      BY <2>1 DEF CredInv
  <1>5. ASSUME NEW s \in Scopes, CreateCredential(s) PROVE CredInv'
    <2>1. PICK kind \in {"https", "ssh"}, secret \in Secrets :
            /\ Fits(kind, secret)
            /\ creds' = [creds EXCEPT ![s] = [id |-> edits', kind |-> kind, secret |-> secret, sealed |-> key]]
      BY <1>5 DEF CreateCredential
    <2>2. UNCHANGED <<key, edit>> /\ edits' \in Nat
      BY <1>5, EditCounts DEF CreateCredential
    <2> DEFINE row == [id |-> edits', kind |-> kind, secret |-> secret, sealed |-> key]
    <2>3. row \in CredRow /\ Fits(row.kind, row.secret) /\ creds' = [creds EXCEPT ![s] = row]
      BY <2>1, <2>2 DEF CredRow, CredInv
    <2> HIDE DEF row
    <2>4. QED
      BY <2>2, <2>3 DEF CredInv
  <1>6. ASSUME NEW s \in Scopes, DeleteCredential(s) PROVE CredInv'
    <2>1. UNCHANGED <<key, edit>> /\ edits' \in Nat /\ creds' = [creds EXCEPT ![s] = None]
      BY <1>6, EditCounts DEF DeleteCredential
    <2>2. QED
      BY <2>1 DEF CredInv
  <1>7. ASSUME NEW a \in Admins, ReadCredential(a) PROVE CredInv'
    <2>1. PICK s \in Scopes, kind \in {"", "https", "ssh"}, secret \in Secrets \cup {None} :
            /\ creds[s] # None
            /\ edit' = [edit EXCEPT ![a] = [st |-> "write", scope |-> s, kind |-> kind,
                                            secret |-> secret, old |-> creds[s]]]
      BY <1>7 DEF ReadCredential
    <2>2. UNCHANGED <<key, creds>> /\ edits' \in Nat
      BY <1>7, EditCounts DEF ReadCredential, stored
    <2>3. creds[s] \in CredRow /\ Fits(creds[s].kind, creds[s].secret)
      BY <2>1 DEF CredInv
    <2>4. QED
      BY <2>1, <2>2, <2>3 DEF CredInv
  <1>8. ASSUME NEW a \in Admins, WriteCredential(a) PROVE CredInv'
    <2> DEFINE e == edit[a]
    <2>1. UNCHANGED <<key, edits>> /\ edit' = [edit EXCEPT ![a] = Calm] /\ e.st = "write" /\ e.scope \in Scopes
      BY <1>8 DEF WriteCredential, bounds, CredInv
    <2>2. CASE creds' = creds
      BY <2>1, <2>2, CalmType DEF CredInv, Calm
    <2>3. CASE Acceptable(e) /\ creds[e.scope] # None /\ creds' = [creds EXCEPT ![e.scope] = Updated(e, @)]
      <3> DEFINE row == Updated(e, creds[e.scope])
      <3>1. row \in CredRow /\ Fits(row.kind, row.secret)
        BY <2>1, <2>3, UpdatedFits DEF CredInv
      <3>2. creds' = [creds EXCEPT ![e.scope] = row]
        BY <2>3
      <3> HIDE DEF row
      <3>3. QED
        BY <2>1, <3>1, <3>2, CalmType DEF CredInv, Calm
    <2>4. QED
      BY <1>8, <2>2, <2>3 DEF WriteCredential
  <1>9. ASSUME NEW w \in Workers, Step(w) PROVE CredInv'
    <2>1. UNCHANGED <<creds, edit, key, edits>>
      BY <1>9 DEF Step, Take, LookUpProject, LookUpHost, OpenSecret, WriteKey, Stat, StartClone, EndClone,
                  Pull, Return, Index, Fail, Still, stored, bounds
    <2>2. QED
      BY <2>1, CredUnchanged DEF CredInv
  <1>10. CASE Crash
    <2>1. UNCHANGED <<creds, key, edits>> /\ edit' = [a \in Admins |-> Calm]
      BY <1>10 DEF Crash, stored
    <2>2. QED
      BY <2>1, CalmType DEF CredInv, Calm
  <1>11. CASE Start
    BY <1>11, CredUnchanged DEF Start, stored, CredInv
  <1>12. QED
    BY <1>1, <1>2, <1>3, <1>4, <1>5, <1>6, <1>7, <1>8, <1>9, <1>10, <1>11 DEF Next

LEMMA CredInit == Init => CredInv
  <1> SUFFICES ASSUME Init PROVE CredInv
    OBVIOUS
  <1>1. Calm.st = "idle"
    BY DEF Calm
  <1>2. \A a \in Admins : edit[a] = Calm
    BY DEF Init
  <1>3. edits \in Nat /\ key \in MasterKeys \cup {NoKey} /\ creds = [s \in Scopes |-> None]
    BY DEF Init
  <1>4. edit \in [Admins -> {Calm}]
    BY DEF Init
  <1> HIDE DEF Calm
  <1>5. QED
    BY <1>1, <1>2, <1>3, <1>4, CalmType DEF CredInv

(* A credential of kind ssh holds a private key, for every number of scopes *)
(* and of updates that overlap.                                             *)
THEOREM SecretsFitKinds == Spec => []SecretFitsKind
  <1>1. CredInv => SecretFitsKind
    BY DEF CredInv, SecretFitsKind
  <1>2. QED
    BY <1>1, CredInit, CredNext, PTL DEF Spec

------------------------------------------------------------------------------
(* Types. *)
JobStates ==
  {"idle", "project", "host", "open", "write key", "stat", "clone", "cloning", "pull", "synced", "index"}

Job == [st : JobStates, id : Nat, name : Names, url : Urls, scope : Scopes \cup {None},
        cred : CredRow \cup {None}, since : History]

TypeInv ==
  /\ projects \in [Names -> [id : Nat, url : Urls] \cup {None}]
  /\ remote \in [Urls -> History]
  /\ repos \in [Names -> Checkout \cup {None}]
  /\ up \in BOOLEAN
  /\ job \in [Workers -> Job]

LEMMA FreeType == Free \in Job
  BY SomethingAssumption DEF Free, Job, JobStates, History

\* What the ways to leave a step do to the jobs.
LEMMA GotoJob ==
  ASSUME TypeInv, NEW w \in Workers, NEW st \in JobStates, Goto(w, st)
  PROVE  /\ job' \in [Workers -> Job]
         /\ \A v \in Workers : v # w => job'[v] = job[v]
         /\ job'[w].st = st
         /\ job'[w].name = job[w].name /\ job'[w].url = job[w].url
         /\ job'[w].cred = job[w].cred /\ job'[w].since = job[w].since
  BY DEF Goto, TypeInv, Job

LEMMA FreeJob ==
  ASSUME TypeInv, NEW w \in Workers, job' = [job EXCEPT ![w] = Free]
  PROVE  /\ job' \in [Workers -> Job]
         /\ \A v \in Workers : v # w => job'[v] = job[v]
         /\ job'[w] = Free
  BY FreeType DEF TypeInv

LEMMA UseJob ==
  ASSUME TypeInv, CredInv, NEW w \in Workers, NEW s \in Scopes, Use(w, s)
  PROVE  /\ job' \in [Workers -> Job]
         /\ \A v \in Workers : v # w => job'[v] = job[v]
         /\ job'[w].st = "open" /\ job'[w].cred = creds[s]
         /\ job'[w].name = job[w].name /\ job'[w].url = job[w].url /\ job'[w].since = job[w].since
  <1> DEFINE j == [job[w] EXCEPT !.st = "open", !.scope = s, !.cred = creds[s]]
  <1>1. creds[s] \in CredRow \cup {None}
    BY DEF CredInv
  <1>2. /\ j \in Job /\ j.st = "open" /\ j.cred = creds[s]
        /\ j.name = job[w].name /\ j.url = job[w].url /\ j.since = job[w].since
    BY <1>1 DEF TypeInv, Job, JobStates
  <1>3. job' = [job EXCEPT ![w] = j]
    BY DEF Use, TypeInv, Job
  <1> HIDE DEF j
  <1>4. QED
    BY <1>2, <1>3 DEF TypeInv

LEMMA TakeJob ==
  ASSUME TypeInv, NEW w \in Workers, Take(w)
  PROVE  /\ job' \in [Workers -> Job]
         /\ \A v \in Workers : v # w => job'[v] = job[v]
         /\ job'[w].st = "project" /\ job'[w].cred = None
         /\ job'[w].since = remote[job'[w].url]
  <1>1. PICK n \in Names :
          /\ projects[n] # None
          /\ job' = [job EXCEPT ![w] = [Free EXCEPT !.st = "project", !.name = n,
                                          !.id = projects[n].id, !.url = projects[n].url,
                                          !.since = remote[projects[n].url]]]
    BY DEF Take
  <1> DEFINE j == [Free EXCEPT !.st = "project", !.name = n, !.id = projects[n].id,
                     !.url = projects[n].url, !.since = remote[projects[n].url]]
  <1>2. projects[n].id \in Nat /\ projects[n].url \in Urls /\ remote[projects[n].url] \in History
    BY <1>1 DEF TypeInv
  <1>3. j \in Job /\ j.st = "project" /\ j.cred = None /\ j.since = remote[j.url]
    BY <1>2, FreeType, FreeFacts DEF Job, JobStates
  <1> HIDE DEF j
  <1>4. job' = [job EXCEPT ![w] = j]
    BY <1>1 DEF j
  <1>5. QED
    BY <1>3, <1>4 DEF TypeInv

LEMMA StepJob ==
  ASSUME TypeInv, CredInv, NEW w \in Workers, Step(w)
  PROVE  job' \in [Workers -> Job] /\ \A v \in Workers : v # w => job'[v] = job[v]
  <1>1. CASE Take(w)
    BY <1>1, TakeJob
  <1>2. CASE LookUpProject(w) \/ LookUpHost(w)
    <2>1. job[w].name \in Scopes /\ HostOf[job[w].url] \in Scopes
      BY HostsAssumption DEF TypeInv, Job, Scopes
    <2>2. \/ \E s \in Scopes : Use(w, s)
          \/ \E st \in {"host", "stat"} : Goto(w, st)
      BY <1>2, <2>1 DEF LookUpProject, LookUpHost
    <2>3. QED
      BY <2>2, UseJob, GotoJob DEF JobStates
  <1>3. CASE OpenSecret(w) \/ Stat(w)
    <2>1. \E st \in {"write key", "stat", "clone", "pull"} : Goto(w, st)
      BY <1>3 DEF OpenSecret, Stat
    <2>2. QED
      BY <2>1, GotoJob DEF JobStates
  <1>4. CASE WriteKey(w) \/ StartClone(w) \/ EndClone(w) \/ Pull(w) \/ Return(w)
    <2>1. \E st \in {"stat", "cloning", "synced", "index"} : Goto(w, st)
      BY <1>4 DEF WriteKey, StartClone, EndClone, Pull, Return
    <2>2. QED
      BY <2>1, GotoJob DEF JobStates
  <1>5. CASE Index(w) \/ Fail(w)
    BY <1>5, FreeJob DEF Index, Fail
  <1>6. QED
    BY <1>1, <1>2, <1>3, <1>4, <1>5 DEF Step

\* What a step makes of the checkout of its project: nothing, no checkout, or one
\* that is at the remote.
LEMMA StepRepos ==
  ASSUME TypeInv, NEW w \in Workers, Step(w)
  PROVE  \/ repos' = repos
         \/ /\ At(w, "clone") /\ repos[job[w].name] = None
            /\ repos' = [repos EXCEPT ![job[w].name] =
                           [url |-> job[w].url, at |-> remote[job[w].url], whole |-> FALSE]]
         \/ /\ At(w, "cloning")
            /\ repos' = [repos EXCEPT ![job[w].name].whole = TRUE, ![job[w].name].at = remote[job[w].url]]
         \/ /\ At(w, "pull") /\ repos[job[w].name] # None /\ repos[job[w].name].whole
            /\ repos' = [repos EXCEPT ![job[w].name].at = remote[repos[job[w].name].url]]
         \/ /\ At(w, "cloning")
            /\ repos' = [repos EXCEPT ![job[w].name] = None]
  BY DEF Step, Take, LookUpProject, LookUpHost, OpenSecret, WriteKey, Stat, StartClone, EndClone,
         Pull, Return, Index, Fail, disk

------------------------------------------------------------------------------
(* Checkouts. *)
CloningOf(w) ==
  At(w, "cloning") => LET r == repos[job[w].name] IN r # None /\ ~r.whole /\ r.url = job[w].url

SyncedOf(w) ==
  job[w].st \in {"synced", "index"} =>
    LET r == repos[job[w].name]
    IN r # None /\ r.whole /\ (r.url = job[w].url => AsRecent(r.at, job[w].since))

\* One clone at a time per project, and no job is ahead of its remote.
CheckoutInv ==
  /\ \A w \in Workers : CloningOf(w) /\ SyncedOf(w)
  /\ \A w \in Workers : ~At(w, "idle") => AsRecent(remote[job[w].url], job[w].since)
  /\ \A w, v \in Workers : w # v /\ At(w, "cloning") /\ At(v, "cloning") => job[w].name # job[v].name

LEMMA AsRecentSelf == \A h \in History : AsRecent(h, h)
  BY DEF AsRecent, History

\* The checkout that a step leaves under a name.
LEMMA StepRepo ==
  ASSUME TypeInv, CheckoutInv, NEW w \in Workers, Step(w)
  PROVE  /\ repos' \in [Names -> Checkout \cup {None}]
         /\ \A n \in Names : n # job[w].name => repos'[n] = repos[n]
         /\ LET r == repos[job[w].name]
                new == repos'[job[w].name]
            IN \/ new = r
               \/ At(w, "clone") /\ r = None
               \/ At(w, "cloning")
               \/ /\ At(w, "pull") /\ r # None /\ r.whole
                  /\ new # None /\ new.whole /\ new.url = r.url /\ new.at = remote[r.url]
  <1> DEFINE n == job[w].name
             r == repos[n]
  <1>1. /\ n \in Names /\ job[w].url \in Urls /\ remote[job[w].url] \in History
        /\ r # None => r \in Checkout /\ remote[r.url] \in History
        /\ At(w, "cloning") => r # None
    BY DEF TypeInv, Job, Checkout, CheckoutInv, CloningOf
  <1>2. CASE repos' = repos
    BY <1>1, <1>2 DEF TypeInv
  <1>3. ASSUME NEW c \in Checkout \cup {None}, repos' = [repos EXCEPT ![n] = c]
        PROVE  /\ repos' \in [Names -> Checkout \cup {None}]
               /\ \A m \in Names : m # n => repos'[m] = repos[m]
               /\ repos'[n] = c
    BY <1>1, <1>3 DEF TypeInv
  <1>4. CASE /\ At(w, "clone") /\ r = None
             /\ repos' = [repos EXCEPT ![n] = [url |-> job[w].url, at |-> remote[job[w].url], whole |-> FALSE]]
    <2>1. [url |-> job[w].url, at |-> remote[job[w].url], whole |-> FALSE] \in Checkout
      BY <1>1 DEF Checkout
    <2>2. QED
      BY <1>3, <1>4, <2>1
  <1>5. CASE /\ At(w, "cloning")
             /\ repos' = [repos EXCEPT ![n].whole = TRUE, ![n].at = remote[job[w].url]]
    <2> DEFINE c == [r EXCEPT !.whole = TRUE, !.at = remote[job[w].url]]
    <2>1. c \in Checkout
      BY <1>1, <1>5 DEF Checkout
    <2>2. repos' = [repos EXCEPT ![n] = c]
      BY <1>1, <1>5 DEF TypeInv
    <2> HIDE DEF c
    <2>3. QED
      BY <1>3, <1>5, <2>1, <2>2
  <1>6. CASE /\ At(w, "pull") /\ r # None /\ r.whole
             /\ repos' = [repos EXCEPT ![n].at = remote[r.url]]
    <2> DEFINE c == [r EXCEPT !.at = remote[r.url]]
    <2>1. c \in Checkout /\ c.whole = r.whole /\ c.url = r.url /\ c.at = remote[r.url]
      BY <1>1, <1>6 DEF Checkout
    <2>2. repos' = [repos EXCEPT ![n] = c]
      BY <1>6
    <2>3. c # None
      BY <2>1, NoneAssumption
    <2> HIDE DEF c
    <2>4. QED
      BY <1>3, <1>6, <2>1, <2>2, <2>3
  <1>7. CASE At(w, "cloning") /\ repos' = [repos EXCEPT ![n] = None]
    BY <1>3, <1>7
  <1>8. QED
    BY <1>2, <1>4, <1>5, <1>6, <1>7, StepRepos

LEMMA TypeNext == TypeInv /\ CredInv /\ CheckoutInv /\ [Next]_vars => TypeInv'
  <1> SUFFICES ASSUME TypeInv, CredInv, CheckoutInv, [Next]_vars PROVE TypeInv'
    OBVIOUS
  <1>1. CASE UNCHANGED vars
    BY <1>1 DEF vars, stored, disk, TypeInv
  <1>2. ASSUME NEW u \in Urls, Push(u) PROVE TypeInv'
    <2>1. UNCHANGED <<projects, repos, up, job>>
      BY <1>2 DEF Push, stored, disk
    <2>2. remote' \in [Urls -> History]
      BY <1>2 DEF Push, TypeInv, History
    <2>3. QED
      BY <2>1, <2>2 DEF TypeInv
  <1>3. ASSUME NEW n \in Names, CreateProject(n) PROVE TypeInv'
    <2>1. UNCHANGED <<remote, repos, up, job>>
      BY <1>3 DEF CreateProject, disk
    <2>2. PICK u \in Urls : projects' = [projects EXCEPT ![n] = [id |-> edits', url |-> u]]
      BY <1>3 DEF CreateProject
    <2>3. [id |-> edits', url |-> u] \in [id : Nat, url : Urls]
      BY <1>3, EditCounts DEF CreateProject
    <2>4. QED
      BY <2>1, <2>2, <2>3 DEF TypeInv
  <1>4. ASSUME NEW n \in Names, DeleteProject(n) PROVE TypeInv'
    <2>1. UNCHANGED <<remote, repos, up, job>> /\ projects' = [projects EXCEPT ![n] = None]
      BY <1>4 DEF DeleteProject, disk
    <2>2. QED
      BY <2>1 DEF TypeInv
  <1>5. CASE \/ \E s \in Scopes : CreateCredential(s) \/ DeleteCredential(s)
             \/ \E a \in Admins : ReadCredential(a) \/ WriteCredential(a)
    <2>1. UNCHANGED <<projects, remote, repos, up, job>>
      BY <1>5 DEF CreateCredential, DeleteCredential, ReadCredential, WriteCredential, stored, disk
    <2>2. QED
      BY <2>1 DEF TypeInv
  <1>6. ASSUME NEW w \in Workers, Step(w) PROVE TypeInv'
    <2>1. UNCHANGED <<projects, remote, up>>
      BY <1>6 DEF Step, Take, LookUpProject, LookUpHost, OpenSecret, WriteKey, Stat, StartClone, EndClone,
                  Pull, Return, Index, Fail, Still, stored
    <2>2. QED
      BY <1>6, <2>1, StepJob, StepRepo DEF TypeInv
  <1>7. CASE Crash
    <2>1. UNCHANGED <<projects, remote, repos>> /\ up' = FALSE /\ job' = [w \in Workers |-> Free]
      BY <1>7 DEF Crash, stored, disk
    <2>2. QED
      BY <2>1, FreeType DEF TypeInv
  <1>8. CASE Start
    <2>1. UNCHANGED <<projects, remote, repos, job>> /\ up' = TRUE
      BY <1>8 DEF Start, stored
    <2>2. QED
      BY <2>1 DEF TypeInv
  <1>9. QED
    BY <1>1, <1>2, <1>3, <1>4, <1>5, <1>6, <1>7, <1>8 DEF Next

\* The jobs beside the one that takes a step.
LEMMA OthersCheckout ==
  ASSUME TypeInv, CredInv, CheckoutInv, NEW w \in Workers, Step(w), remote' = remote,
         NEW v \in Workers, v # w
  PROVE  CloningOf(v)' /\ SyncedOf(v)'
  <1>1. job'[v] = job[v] /\ job[v].name \in Names /\ job[v].url \in Urls
    BY StepJob DEF TypeInv, Job
  <1>2. CASE repos'[job[v].name] = repos[job[v].name]
    BY <1>1, <1>2 DEF CheckoutInv, CloningOf, SyncedOf, At
  <1>3. CASE job[v].name = job[w].name
    <2> DEFINE r == repos[job[w].name]
               new == repos'[job[w].name]
    <2>1. CASE At(w, "clone") /\ r = None
      BY <1>1, <1>3, <2>1 DEF CheckoutInv, CloningOf, SyncedOf, At
    <2>2. CASE At(w, "cloning")
      BY <1>1, <1>3, <2>2 DEF CheckoutInv, CloningOf, SyncedOf, At
    <2>3. CASE /\ At(w, "pull") /\ r # None /\ r.whole
               /\ new # None /\ new.whole /\ new.url = r.url /\ new.at = remote[r.url]
      BY <1>1, <1>3, <2>3 DEF CheckoutInv, CloningOf, SyncedOf, At
    <2>4. QED
      BY <1>2, <1>3, <2>1, <2>2, <2>3, StepRepo
  <1>4. QED
    BY <1>1, <1>2, <1>3, StepRepo

\* The job that takes a step.
LEMMA OwnCheckout ==
  ASSUME TypeInv, CredInv, CheckoutInv, NEW w \in Workers, Step(w)
  PROVE  CloningOf(w)' /\ SyncedOf(w)'
  <1> DEFINE n == job[w].name
  <1>1. /\ n \in Names /\ job[w].url \in Urls /\ job'[w].name \in Names
        /\ repos[n] # None => repos[n] \in Checkout
    BY StepJob DEF TypeInv, Job
  <1>2. CASE Take(w) \/ LookUpProject(w) \/ LookUpHost(w) \/ OpenSecret(w) \/ WriteKey(w) \/ Stat(w)
             \/ Index(w) \/ Fail(w)
    <2>1. CASE Take(w)
      BY <2>1, TakeJob DEF CloningOf, SyncedOf, At
    <2>2. CASE Index(w) \/ Fail(w)
      BY <2>2, FreeJob, FreeFacts DEF Index, Fail, CloningOf, SyncedOf, At
    <2>3. CASE LookUpProject(w) \/ LookUpHost(w) \/ OpenSecret(w) \/ WriteKey(w) \/ Stat(w)
      <3>1. n \in Scopes /\ HostOf[job[w].url] \in Scopes
        BY <1>1, HostsAssumption DEF Scopes
      <3>2. \/ \E sc \in Scopes : Use(w, sc)
            \/ \E st \in {"host", "stat", "write key", "clone", "pull"} : Goto(w, st)
        BY <2>3, <3>1 DEF LookUpProject, LookUpHost, OpenSecret, WriteKey, Stat
      <3>3. job'[w].st \notin {"cloning", "synced", "index"}
        BY <3>2, UseJob, GotoJob DEF JobStates
      <3>4. QED
        BY <3>3 DEF CloningOf, SyncedOf, At
    <2>4. QED
      BY <1>2, <2>1, <2>2, <2>3
  <1>3. CASE StartClone(w)
    <2> DEFINE c == [url |-> job[w].url, at |-> remote[job[w].url], whole |-> FALSE]
    <2>1. job'[w].st = "cloning" /\ job'[w].name = n /\ job'[w].url = job[w].url
      BY <1>3, GotoJob DEF StartClone, JobStates
    <2>2. c \in Checkout
      BY <1>1 DEF Checkout, TypeInv
    <2>3. repos'[n] = c
      BY <1>1, <1>3 DEF StartClone, TypeInv
    <2>4. c # None /\ ~c.whole /\ c.url = job[w].url
      BY <2>2, NoneAssumption
    <2> HIDE DEF c
    <2>5. QED
      BY <2>1, <2>3, <2>4 DEF CloningOf, SyncedOf, At
  <1>4. CASE EndClone(w)
    <2> DEFINE c == [repos[n] EXCEPT !.whole = TRUE, !.at = remote[job[w].url]]
    <2>1. /\ job'[w].st = "synced" /\ job'[w].name = n /\ job'[w].url = job[w].url
          /\ job'[w].since = job[w].since
      BY <1>4, GotoJob DEF EndClone, JobStates
    <2>2. repos[n] \in Checkout /\ ~At(w, "idle")
      BY <1>1, <1>4 DEF EndClone, CheckoutInv, CloningOf, At
    <2>3. c \in Checkout /\ c.whole /\ c.at = remote[job[w].url]
      BY <1>1, <2>2 DEF Checkout, TypeInv
    <2>4. repos'[n] = c
      BY <1>1, <1>4, <2>2 DEF EndClone, TypeInv
    <2>5. c # None /\ AsRecent(remote[job[w].url], job[w].since)
      BY <2>2, <2>3, NoneAssumption DEF CheckoutInv
    <2> HIDE DEF c
    <2>6. QED
      BY <2>1, <2>3, <2>4, <2>5 DEF CloningOf, SyncedOf, At
  <1>5. CASE Pull(w)
    <2>1. /\ job'[w].st = "synced" /\ job'[w].name = n /\ job'[w].url = job[w].url
          /\ job'[w].since = job[w].since
      BY <1>5, GotoJob DEF Pull, JobStates
    <2>2. ~At(w, "idle") /\ At(w, "pull") /\ repos[n] # None /\ repos[n].whole
      BY <1>5 DEF Pull, At
    <2>3. repos' = [repos EXCEPT ![n].at = remote[repos[n].url]]
      BY <1>5 DEF Pull
    <2> DEFINE c == [repos[n] EXCEPT !.at = remote[repos[n].url]]
    <2>4. c \in Checkout /\ c.whole /\ c.url = repos[n].url /\ c.at = remote[repos[n].url]
      BY <1>1, <2>2 DEF Checkout, TypeInv
    <2>5. repos'[n] = c /\ c # None
      BY <1>1, <2>3, <2>4, NoneAssumption DEF TypeInv
    <2> HIDE DEF c
    <2>6. AsRecent(remote[job[w].url], job[w].since)
      BY <2>2 DEF CheckoutInv
    <2>7. QED
      BY <2>1, <2>4, <2>5, <2>6 DEF CloningOf, SyncedOf, At
  <1>6. CASE Return(w)
    <2>1. /\ job'[w].st = "index" /\ job'[w].name = n /\ job'[w].url = job[w].url
          /\ job'[w].since = job[w].since
      BY <1>6, GotoJob DEF Return, JobStates
    <2>2. repos' = repos /\ At(w, "synced")
      BY <1>6 DEF Return
    <2>3. QED
      BY <2>1, <2>2 DEF CheckoutInv, CloningOf, SyncedOf, At
  <1>7. QED
    BY <1>2, <1>3, <1>4, <1>5, <1>6 DEF Step

LEMMA StepCheckout ==
  ASSUME TypeInv, CredInv, CheckoutInv, NEW w \in Workers, Step(w), remote' = remote
  PROVE  CheckoutInv'
  <1>1. \A v \in Workers : CloningOf(v)' /\ SyncedOf(v)'
    BY OthersCheckout, OwnCheckout
  <1>2. \A v \in Workers : v # w => job'[v] = job[v]
    BY StepJob
  <1>3. job'[w].st # "idle" => AsRecent(remote[job'[w].url], job'[w].since)
    <2>1. CASE Take(w)
      <3>1. job'[w].url \in Urls /\ remote[job'[w].url] \in History
        BY StepJob DEF TypeInv, Job
      <3>2. QED
        BY <2>1, <3>1, TakeJob, AsRecentSelf
    <2>2. CASE job'[w].url = job[w].url /\ job'[w].since = job[w].since /\ ~At(w, "idle")
      BY <2>2 DEF CheckoutInv, At
    <2>3. CASE job'[w] = Free
      BY <2>3, FreeFacts
    <2>4. CASE ~Take(w) /\ job'[w] # Free
      <3>1. ~At(w, "idle")
        BY <2>4 DEF Step, At, LookUpProject, LookUpHost, OpenSecret, WriteKey, Stat, StartClone, EndClone,
                    Pull, Return, Index, Fail
      <3>2. ~Index(w) /\ ~Fail(w)
        BY <2>4, FreeJob DEF Index, Fail
      <3>3. job[w].name \in Scopes /\ HostOf[job[w].url] \in Scopes
        BY HostsAssumption DEF TypeInv, Job, Scopes
      <3>4. \/ \E sc \in Scopes : Use(w, sc)
            \/ \E st \in JobStates : Goto(w, st)
        BY <2>4, <3>2, <3>3 DEF Step, LookUpProject, LookUpHost, OpenSecret, WriteKey, Stat,
                                StartClone, EndClone, Pull, Return, JobStates
      <3>5. job'[w].url = job[w].url /\ job'[w].since = job[w].since
        BY <3>4, UseJob, GotoJob
      <3>6. QED
        BY <2>2, <3>1, <3>5
    <2>5. QED
      BY <2>1, <2>3, <2>4
  <1>4. ASSUME NEW v \in Workers, v # w, At(v, "cloning")', At(w, "cloning")'
        PROVE  job'[v].name # job'[w].name
    <2>1. At(v, "cloning") /\ job'[v].name = job[v].name
      BY <1>2, <1>4 DEF At
    <2>2. StartClone(w)
      <3>1. job'[w].st = "cloning"
        BY <1>4 DEF At
      <3>2. ~Take(w) /\ ~Index(w) /\ ~Fail(w)
        BY <3>1, TakeJob, FreeJob, FreeFacts DEF Index, Fail
      <3>3. job[w].name \in Scopes /\ HostOf[job[w].url] \in Scopes
        BY HostsAssumption DEF TypeInv, Job, Scopes
      <3>4. CASE LookUpProject(w) \/ LookUpHost(w)
        <4>1. (\E sc \in Scopes : Use(w, sc)) \/ Goto(w, "host") \/ Goto(w, "stat")
          BY <3>3, <3>4 DEF LookUpProject, LookUpHost
        <4>2. QED
          BY <3>1, <4>1, UseJob, GotoJob DEF JobStates
      <3>5. CASE OpenSecret(w) \/ WriteKey(w) \/ Stat(w) \/ EndClone(w) \/ Pull(w) \/ Return(w)
        <4>1. \E st \in JobStates \ {"cloning"} : Goto(w, st)
          BY <3>5 DEF OpenSecret, WriteKey, Stat, EndClone, Pull, Return, JobStates
        <4>2. QED
          BY <3>1, <4>1, GotoJob
      <3>6. QED
        BY <3>2, <3>4, <3>5 DEF Step
    <2>3. repos[job[w].name] = None /\ job'[w].name = job[w].name
      BY <2>2, GotoJob DEF StartClone, JobStates
    <2>4. QED
      BY <2>1, <2>3 DEF CheckoutInv, CloningOf
  <1>5. QED
    <2>1. \A v \in Workers : ~At(v, "idle")' => AsRecent(remote'[job'[v].url], job'[v].since)
      BY <1>2, <1>3 DEF CheckoutInv, At
    <2>2. \A u, v \in Workers : u # v /\ At(u, "cloning")' /\ At(v, "cloning")' => job'[u].name # job'[v].name
      BY <1>2, <1>4 DEF CheckoutInv, At
    <2>3. QED
      BY <1>1, <2>1, <2>2 DEF CheckoutInv

LEMMA CheckoutNext == TypeInv /\ CredInv /\ CheckoutInv /\ [Next]_vars => CheckoutInv'
  <1> SUFFICES ASSUME TypeInv, CredInv, CheckoutInv, [Next]_vars PROVE CheckoutInv'
    OBVIOUS
  <1>1. CASE UNCHANGED <<remote, repos, job>>
    BY <1>1 DEF CheckoutInv, CloningOf, SyncedOf, At
  <1>2. ASSUME NEW u \in Urls, Push(u) PROVE CheckoutInv'
    <2>1. UNCHANGED <<repos, job>>
      BY <1>2 DEF Push, disk
    <2>2. ASSUME NEW w \in Workers, AsRecent(remote[job[w].url], job[w].since)
          PROVE  AsRecent(remote'[job[w].url], job[w].since)
      <3>1. remote[job[w].url] \in History /\ job[w].since \in History /\ job[w].url \in Urls
        BY DEF TypeInv, Job
      <3>2. CASE remote' = [remote EXCEPT ![u].commit = @ + 1]
        BY <2>2, <3>1, <3>2 DEF AsRecent, History, TypeInv
      <3>3. CASE remote' = [remote EXCEPT ![u] = [line |-> @.line + 1, commit |-> 0]]
        BY <2>2, <3>1, <3>3 DEF AsRecent, History, TypeInv
      <3>4. QED
        BY <1>2, <3>2, <3>3 DEF Push
    <2>3. QED
      BY <2>1, <2>2 DEF CheckoutInv, CloningOf, SyncedOf, At
  <1>3. CASE \/ UNCHANGED vars \/ Start
             \/ \E n \in Names : CreateProject(n) \/ DeleteProject(n)
             \/ \E s \in Scopes : CreateCredential(s) \/ DeleteCredential(s)
             \/ \E a \in Admins : ReadCredential(a) \/ WriteCredential(a)
    BY <1>1, <1>3 DEF vars, disk, Start, CreateProject, DeleteProject, CreateCredential,
                      DeleteCredential, ReadCredential, WriteCredential
  <1>4. ASSUME NEW w \in Workers, Step(w) PROVE CheckoutInv'
    <2>1. remote' = remote
      BY <1>4 DEF Step, Take, LookUpProject, LookUpHost, OpenSecret, WriteKey, Stat, StartClone, EndClone,
                  Pull, Return, Index, Fail, Still
    <2>2. QED
      BY <1>4, <2>1, StepCheckout
  <1>5. CASE Crash
    <2>1. \A w \in Workers : job'[w].st = "idle"
      BY <1>5, FreeFacts DEF Crash
    <2>2. QED
      BY <2>1 DEF CheckoutInv, CloningOf, SyncedOf, At
  <1>6. QED
    BY <1>2, <1>3, <1>4, <1>5 DEF Next

BaseInv == TypeInv /\ CredInv /\ CheckoutInv

LEMMA BaseInit == Init => BaseInv
  <1> SUFFICES ASSUME Init PROVE BaseInv
    OBVIOUS
  <1>1. TypeInv
    BY FreeType DEF Init, TypeInv, History
  <1>2. CheckoutInv
    BY FreeFacts DEF Init, CheckoutInv, CloningOf, SyncedOf, At
  <1>3. QED
    BY <1>1, <1>2, CredInit DEF BaseInv

LEMMA BaseNext == BaseInv /\ [Next]_vars => BaseInv'
  BY TypeNext, CredNext, CheckoutNext DEF BaseInv

(* What a job goes on to index is whole and as recent as the job, for every  *)
(* number of workers, pushes, crashes and projects, whether names are used   *)
(* again or other processes run.                                             *)
THEOREM CheckoutsAreCurrent == Spec => []SyncedIsCurrent
  <1>1. BaseInv => SyncedIsCurrent
    BY DEF BaseInv, CheckoutInv, SyncedOf, SyncedIsCurrent
  <1>2. QED
    BY <1>1, BaseInit, BaseNext, PTL DEF Spec

------------------------------------------------------------------------------
(* Key files. *)
Known(w) ==
  /\ job[w].st \in {"project", "host"} => job[w].cred = None
  /\ At(w, "open") => job[w].cred # None
  /\ At(w, "write key") => job[w].cred # None /\ job[w].cred.kind = "ssh"

KeyInv ==
  /\ \A w \in Workers : Known(w)
  /\ ~up => \A w \in Workers : At(w, "idle")
  /\ temp \subseteq Workers
  /\ KeysSwept

\* A step puts a file there exactly when it starts to need it.
LEMMA OwnKey ==
  ASSUME TypeInv, CredInv, KeyInv, up, NEW w \in Workers, Step(w)
  PROVE  /\ Known(w)'
         /\ temp' \subseteq Workers
         /\ \A v \in Workers : v # w => (v \in temp' <=> v \in temp)
         /\ w \in temp' <=> HasKey(w)'
  <1>1. w \in temp <=> HasKey(w)
    BY DEF KeyInv, KeysSwept
  <1>2. /\ job[w].name \in Scopes /\ HostOf[job[w].url] \in Scopes
        /\ job[w].cred \in CredRow \cup {None}
    BY HostsAssumption DEF TypeInv, Job, Scopes
  <1>3. CASE Take(w)
    <2>1. temp' = temp /\ At(w, "idle")
      BY <1>3 DEF Take, disk
    <2>2. QED
      BY <1>1, <1>3, <2>1, TakeJob DEF KeyInv, HasKey, Known, At
  <1>4. CASE LookUpProject(w) \/ LookUpHost(w)
    <2>1. temp' = temp /\ (At(w, "project") \/ At(w, "host"))
      BY <1>4 DEF LookUpProject, LookUpHost, disk
    <2>2. job[w].cred = None
      BY <2>1 DEF KeyInv, Known, At
    <2>3. \/ \E sc \in Scopes : Use(w, sc) /\ creds[sc] # None
          \/ \E st \in {"host", "stat"} : Goto(w, st)
      BY <1>2, <1>4 DEF LookUpProject, LookUpHost
    <2>4. CASE \E sc \in Scopes : Use(w, sc) /\ creds[sc] # None
      BY <1>1, <2>1, <2>4, UseJob DEF KeyInv, HasKey, Known, At
    <2>5. CASE \E st \in {"host", "stat"} : Goto(w, st)
      BY <1>1, <2>1, <2>2, <2>5, GotoJob DEF JobStates, KeyInv, HasKey, Known, At
    <2>6. QED
      BY <2>3, <2>4, <2>5
  <1>5. CASE OpenSecret(w)
    <2>1. temp' = temp /\ At(w, "open") /\ job[w].cred # None
      BY <1>5 DEF OpenSecret, disk, KeyInv, Known
    <2>2. CASE job[w].cred.kind = "ssh"
      <3>1. Goto(w, "write key")
        BY <1>5, <2>2 DEF OpenSecret
      <3>2. QED
        BY <1>1, <2>1, <2>2, <3>1, GotoJob DEF JobStates, KeyInv, HasKey, Known, At
    <2>3. CASE job[w].cred.kind # "ssh"
      <3>1. Goto(w, "stat")
        BY <1>5, <2>3 DEF OpenSecret
      <3>2. QED
        BY <1>1, <2>1, <2>3, <3>1, GotoJob DEF JobStates, KeyInv, HasKey, Known, At
    <2>4. QED
      BY <2>2, <2>3
  <1>6. CASE WriteKey(w)
    <2>1. temp' = temp \cup {w} /\ At(w, "write key") /\ Goto(w, "stat")
      BY <1>6 DEF WriteKey
    <2>2. job[w].cred # None /\ job[w].cred.kind = "ssh"
      BY <2>1 DEF KeyInv, Known
    <2>3. QED
      BY <2>1, <2>2, GotoJob DEF JobStates, KeyInv, HasKey, Known, At
  <1>7. CASE Stat(w) \/ StartClone(w) \/ EndClone(w) \/ Pull(w)
    <2>1. temp' = temp /\ job[w].st \in {"stat", "clone", "cloning", "pull"}
      BY <1>7 DEF Stat, StartClone, EndClone, Pull, disk, At
    <2>2. \E st \in {"clone", "cloning", "pull", "synced"} : Goto(w, st)
      BY <1>7 DEF Stat, StartClone, EndClone, Pull
    <2>3. QED
      BY <1>1, <2>1, <2>2, GotoJob DEF JobStates, KeyInv, HasKey, Known, At
  <1>8. CASE Return(w) \/ Fail(w)
    <2>1. temp' = temp \ {w}
      BY <1>8 DEF Return, Fail, Cleanup
    <2>2. job'[w].st \in {"index", "idle"}
      BY <1>8, GotoJob, FreeJob, FreeFacts DEF Return, Fail, JobStates
    <2>3. QED
      BY <2>1, <2>2 DEF KeyInv, HasKey, Known, At
  <1>9. CASE Index(w)
    <2>1. temp' = temp /\ At(w, "index")
      BY <1>9 DEF Index, disk
    <2>2. QED
      BY <1>1, <1>9, <2>1, FreeJob, FreeFacts DEF Index, KeyInv, HasKey, Known, At
  <1>10. QED
    BY <1>3, <1>4, <1>5, <1>6, <1>7, <1>8, <1>9 DEF Step

LEMMA KeyNext ==
  ASSUME AllowReplicas = FALSE
  PROVE  BaseInv /\ KeyInv /\ [Next]_vars => KeyInv'
  <1> SUFFICES ASSUME BaseInv, KeyInv, [Next]_vars PROVE KeyInv'
    OBVIOUS
  <1>1. CASE UNCHANGED <<job, temp, up>>
    BY <1>1 DEF KeyInv, KeysSwept, HasKey, Known, At
  <1>2. CASE \/ UNCHANGED vars
             \/ \E u \in Urls : Push(u)
             \/ \E n \in Names : CreateProject(n) \/ DeleteProject(n)
             \/ \E s \in Scopes : CreateCredential(s) \/ DeleteCredential(s)
             \/ \E a \in Admins : ReadCredential(a) \/ WriteCredential(a)
    BY <1>1, <1>2 DEF vars, disk, Push, CreateProject, DeleteProject, CreateCredential,
                      DeleteCredential, ReadCredential, WriteCredential
  <1>3. ASSUME NEW w \in Workers, Step(w) PROVE KeyInv'
    <2>1. up
      BY <1>3 DEF Step, At, Take, LookUpProject, LookUpHost, OpenSecret, WriteKey, Stat, StartClone,
                  EndClone, Pull, Return, Index, Fail, KeyInv, BaseInv, TypeInv
    <2>2. up' = up
      BY <1>3 DEF Step, Take, LookUpProject, LookUpHost, OpenSecret, WriteKey, Stat, StartClone,
                  EndClone, Pull, Return, Index, Fail, Still
    <2>3. \A v \in Workers : v # w => job'[v] = job[v]
      BY <1>3, StepJob DEF BaseInv
    <2>4. \A v \in Workers : v # w => Known(v)' /\ HasKey(v)' = HasKey(v)
      BY <2>3 DEF KeyInv, Known, HasKey, At
    <2>5. \A v \in temp : HasKey(v) /\ v \in Workers
      BY <2>1 DEF KeyInv, KeysSwept
    <2>6. \A v \in Workers : v \in temp' <=> HasKey(v)'
      BY <1>3, <2>1, <2>4, OwnKey DEF BaseInv, KeyInv, KeysSwept
    <2>7. temp' \subseteq Workers /\ Known(w)'
      BY <1>3, <2>1, OwnKey DEF BaseInv
    <2>8. KeysSwept'
      BY <2>6, <2>7 DEF KeysSwept
    <2>9. QED
      BY <2>1, <2>2, <2>4, <2>7, <2>8 DEF KeyInv
  <1>4. CASE Crash
    <2>1. up' = FALSE /\ temp' = temp /\ \A w \in Workers : job'[w].st = "idle"
      BY <1>4, FreeFacts DEF Crash, disk
    <2>2. QED
      BY <2>1 DEF KeyInv, KeysSwept, Known, At
  <1>5. CASE Start
    <2>1. job' = job /\ temp' = {} /\ up' = TRUE /\ ~up
      BY <1>5 DEF Start, SweepTempKeys
    <2>2. \A w \in Workers : ~HasKey(w)' /\ Known(w)'
      BY <2>1 DEF KeyInv, HasKey, Known, At
    <2>3. QED
      BY <2>1, <2>2 DEF KeyInv, KeysSwept
  <1>6. QED
    BY <1>2, <1>3, <1>4, <1>5 DEF Next

(* With one process, private keys are on disk exactly while a sync uses      *)
(* them, for every number of workers, jobs and crashes.                      *)
THEOREM KeysAreSwept ==
  ASSUME AllowReplicas = FALSE
  PROVE  Spec => []KeysSwept
  <1>1. Init => KeyInv
    BY FreeFacts DEF Init, KeyInv, KeysSwept, HasKey, Known, At
  <1>2. BaseInv /\ KeyInv /\ [Next]_vars => KeyInv'
    BY KeyNext
  <1>3. KeyInv => KeysSwept
    BY DEF KeyInv
  <1>4. QED
    BY <1>1, <1>2, <1>3, BaseInit, BaseNext, PTL DEF Spec

------------------------------------------------------------------------------
(***************************************************************************)
(* Proofs about LocalStore for every number of clients, processes, file    *)
(* versions and chunks, whatever fails and whichever process ends: nobody  *)
(* waits for ever, and the dictionary of vectors covers the chunks.        *)
(***************************************************************************)
(* The locks: who has the connection, fillMu or the right to write is at the *)
(* steps that need it, and at no other.                                      *)
Places == {"idle", "upsert", "clear", "model", "begin", "insert", "commit", "search", "rows", "lock",
           "prepare", "fill", "keywords", "like", "delete", "manifest", "sweep", "gc", "done"}

Fields == {"op", "st", "ver", "file", "rows", "top", "hits", "seen"}
TaskOf(t) == [f \in Fields |-> t[f]]

Tasks ==
  /\ task = [c \in Clients |-> task[c]]
  /\ \A c \in Clients : task[c] = TaskOf(task[c]) /\ task[c].st \in Places

Locks ==
  /\ conn \in [Procs -> Clients \cup {NoClient}]
  /\ mu \in [Procs -> Clients \cup {NoClient}]
  /\ prepared \in [Procs -> BOOLEAN]
  /\ writer \in Clients \cup {NoClient}

HoldersKnown ==
  /\ \A p \in Procs : conn[p] # NoClient => Of[conn[p]] = p
  /\ \A p \in Procs : mu[p] # NoClient => Of[mu[p]] = p
  /\ \A c \in Clients : task[c].st \in {"insert", "commit", "rows"} <=> conn[Of[c]] = c
  /\ \A c \in Clients : task[c].st = "prepare" <=> mu[Of[c]] = c
  /\ \A c \in Clients : task[c].st = "commit" <=> writer = c

LockInv == Tasks /\ Locks /\ HoldersKnown

LEMMA RestingTask == Resting = TaskOf(Resting) /\ Resting.st = "idle"
  <1> DEFINE v == CHOOSE w \in Versions : TRUE
  <1>1. Resting = [op |-> "none", st |-> "idle", ver |-> v, file |-> 0, rows |-> <<>>, top |-> <<>>,
                   hits |-> <<>>, seen |-> {}]
    BY DEF Resting
  <1> HIDE DEF v
  <1>2. DOMAIN Resting = Fields
    BY <1>1 DEF Fields
  <1>3. Resting = [f \in DOMAIN Resting |-> Resting[f]]
    BY <1>1
  <1>4. Resting.st = "idle"
    BY <1>1
  <1>5. QED
    BY <1>2, <1>3, <1>4 DEF TaskOf

LEMMA LockInvInit == StoreInit => LockInv
  <1> SUFFICES ASSUME StoreInit PROVE LockInv
    OBVIOUS
  <1> USE ClientsAssumption
  <1>1. Tasks
    BY RestingTask DEF StoreInit, Tasks, Places, Resting
  <1>2. Locks
    BY DEF StoreInit, Locks
  <1>3. HoldersKnown
    BY RestingTask DEF StoreInit, HoldersKnown
  <1>4. QED
    BY <1>1, <1>2, <1>3 DEF LockInv

\* What every step of a client does to the tasks: only its own changes.
LEMMA TaskStays ==
  ASSUME Tasks, NEW c \in Clients, NEW t, t = TaskOf(t), t.st \in Places,
         task' = [task EXCEPT ![c] = t]
  PROVE  /\ Tasks'
         /\ task'[c] = t
         /\ \A d \in Clients \ {c} : task'[d] = task[d]
  BY DEF Tasks

LEMMA TurnsTask ==
  ASSUME Tasks, NEW c \in Clients, NEW st \in Places, Turns(c, st)
  PROVE  /\ Tasks'
         /\ task'[c].st = st
         /\ \A d \in Clients \ {c} : task'[d] = task[d]
  <1> DEFINE t == [task[c] EXCEPT !.st = st]
  <1>1. t = TaskOf(t) /\ t.st = st
    BY DEF Tasks, TaskOf, Fields
  <1>2. task' = [task EXCEPT ![c] = t]
    BY DEF Turns
  <1> HIDE DEF t
  <1>3. QED
    BY <1>1, <1>2, TaskStays

LEMMA QuitTask ==
  ASSUME Tasks, NEW c \in Clients, Quit(c)
  PROVE  /\ Tasks'
         /\ task'[c].st = "idle"
         /\ \A d \in Clients \ {c} : task'[d] = task[d]
  <1>1. Resting.st \in Places
    BY RestingTask DEF Places
  <1>2. QED
    BY <1>1, RestingTask, TaskStays DEF Quit

\* A step that leaves the locks alone and goes from one step that needs none of
\* them to another.
Unlocked == Places \ {"insert", "commit", "rows", "prepare"}

LEMMA LocksUntouched ==
  ASSUME LockInv, NEW c \in Clients, UNCHANGED <<conn, mu, writer>>, Locks',
         Tasks', \A d \in Clients \ {c} : task'[d] = task[d],
         \/ task[c].st \in Unlocked /\ task'[c].st \in Unlocked
         \/ task'[c].st = task[c].st
  PROVE  LockInv'
  BY DEF LockInv, HoldersKnown, Unlocked

\* The steps that neither take nor give back anything.
LEMMA FreeSteps ==
  ASSUME LockInv, NEW c \in Clients,
         \/ TakeConn(c) \/ Upsert(c) \/ ClearChunks(c) \/ ReadModel(c) \/ DeleteVersion(c) \/ SetManifest(c)
         \/ Sweep(c) \/ Collect(c) \/ PushHit(c) \/ Fill(c) \/ MatchWords(c) \/ MatchSubstrings(c) \/ Replies(c)
  PROVE  LockInv'
  <1>1. Tasks /\ task[c] = TaskOf(task[c])
    BY DEF LockInv, Tasks
  <1>2. UNCHANGED <<conn, mu, prepared, writer>>
    BY DEF TakeConn, Upsert, ClearChunks, ReadModel, DeleteVersion, SetManifest, Sweep, Collect, PushHit, Fill,
           MatchWords, MatchSubstrings, Replies, locks
  <1>3. Locks'
    BY <1>2 DEF LockInv, Locks
  <1> DEFINE Moved == /\ Tasks'
                      /\ \A d \in Clients \ {c} : task'[d] = task[d]
                      /\ \/ task[c].st \in Unlocked /\ task'[c].st \in Unlocked
                         \/ task'[c].st = task[c].st
  <1>4. CASE TakeConn(c)
    <2>1. PICK op \in Ops, v \in Versions :
            task' = [task EXCEPT ![c] = [Resting EXCEPT !.op = op, !.ver = v,
                                           !.st = IF op = "index" THEN "upsert" ELSE op]]
      BY <1>4 DEF TakeConn
    <2> DEFINE t == [Resting EXCEPT !.op = op, !.ver = v, !.st = IF op = "index" THEN "upsert" ELSE op]
    <2>2. t = TaskOf(t) /\ t.st = IF op = "index" THEN "upsert" ELSE op
      BY RestingTask DEF TaskOf, Fields
    <2>3. t.st \in Unlocked /\ task[c].st \in Unlocked
      <3>1. task[c].st = "idle"
        BY <1>4, Zenon DEF TakeConn, Doing
      <3>2. QED
        BY <2>2, <3>1, OpsAssumption DEF Unlocked, Places
    <2>4. task' = [task EXCEPT ![c] = t]
      BY <2>1
    <2> HIDE DEF t
    <2>5. Moved
      BY <1>1, <2>2, <2>3, <2>4, TaskStays DEF Unlocked
    <2>6. QED
      BY <1>2, <1>3, <2>5, LocksUntouched
  <1>5. CASE Upsert(c)
    <2>1. PICK id : task' = [task EXCEPT ![c].st = "clear", ![c].file = id]
      BY <1>5 DEF Upsert
    <2> DEFINE t == [task[c] EXCEPT !.st = "clear", !.file = id]
    <2>2. t = TaskOf(t) /\ t.st = "clear"
      BY <1>1 DEF TaskOf, Fields
    <2>3. task' = [task EXCEPT ![c] = t]
      BY <1>1, <2>1 DEF Tasks
    <2>4. task[c].st = "upsert"
      BY <1>5 DEF Upsert, Doing
    <2> HIDE DEF t
    <2>5. Moved
      BY <1>1, <2>2, <2>3, <2>4, TaskStays DEF Unlocked, Places
    <2>6. QED
      BY <1>2, <1>3, <2>5, LocksUntouched
  <1>6. CASE ClearChunks(c)
    <2>1. task[c].st = "clear" /\ Turns(c, "model")
      BY <1>6 DEF ClearChunks, Doing
    <2>2. Moved
      BY <1>1, <2>1, TurnsTask DEF Unlocked, Places
    <2>3. QED
      BY <1>2, <1>3, <2>2, LocksUntouched
  <1>7. CASE ReadModel(c)
    <2>1. task[c].st = "model" /\ Turns(c, "begin")
      BY <1>7 DEF ReadModel, Doing
    <2>2. Moved
      BY <1>1, <2>1, TurnsTask DEF Unlocked, Places
    <2>3. QED
      BY <1>2, <1>3, <2>2, LocksUntouched
  <1>8. CASE DeleteVersion(c) \/ SetManifest(c) \/ Sweep(c) \/ Collect(c) \/ Replies(c)
    <2>1. task[c].st \in Unlocked /\ Quit(c)
      BY <1>8 DEF DeleteVersion, SetManifest, Sweep, Collect, Replies, Doing, Unlocked, Places
    <2>2. Moved
      BY <1>1, <2>1, QuitTask DEF Unlocked, Places
    <2>3. QED
      BY <1>2, <1>3, <2>2, LocksUntouched
  <1>9. CASE PushHit(c)
    <2>1. PICK top : task' = [task EXCEPT ![c].rows = Tail(@), ![c].top = top]
      BY <1>9 DEF PushHit
    <2> DEFINE t == [task[c] EXCEPT !.rows = Tail(@), !.top = top]
    <2>2. t = TaskOf(t) /\ t.st = task[c].st
      BY <1>1 DEF TaskOf, Fields
    <2>3. task' = [task EXCEPT ![c] = t]
      BY <1>1, <2>1 DEF Tasks
    <2> HIDE DEF t
    <2>4. Moved
      BY <1>1, <2>2, <2>3, TaskStays DEF Tasks
    <2>5. QED
      BY <1>2, <1>3, <2>4, LocksUntouched
  <1>10. CASE Fill(c)
    <2>1. PICK hits : task' = [task EXCEPT ![c].st = "done", ![c].top = <<>>, ![c].hits = hits]
      BY <1>10 DEF Fill
    <2> DEFINE t == [task[c] EXCEPT !.st = "done", !.top = <<>>, !.hits = hits]
    <2>2. t = TaskOf(t) /\ t.st = "done"
      BY <1>1 DEF TaskOf, Fields
    <2>3. task' = [task EXCEPT ![c] = t]
      BY <1>1, <2>1 DEF Tasks
    <2>4. task[c].st = "fill"
      BY <1>10 DEF Fill, Doing
    <2> HIDE DEF t
    <2>5. Moved
      BY <1>1, <2>2, <2>3, <2>4, TaskStays DEF Unlocked, Places
    <2>6. QED
      BY <1>2, <1>3, <2>5, LocksUntouched
  <1>11. CASE MatchWords(c) \/ MatchSubstrings(c)
    <2>1. PICK hits : \E st \in {"done", "like"} :
            task' = [task EXCEPT ![c].hits = hits, ![c].st = st]
      <3>1. CASE MatchWords(c)
        <4>1. PICK o \in Orders(Matching(Words)) :
                task' = [task EXCEPT ![c].hits = HitsOf(Upto(o, TopK)),
                           ![c].st = IF Len(Upto(o, TopK)) >= TopK THEN "done" ELSE "like"]
          BY <3>1 DEF MatchWords
        <4>2. QED
          BY <4>1
      <3>2. CASE MatchSubstrings(c)
        <4>1. PICK found : task' = [task EXCEPT ![c].st = "done", ![c].hits = found]
          BY <3>2 DEF MatchSubstrings
        <4>2. task' = [task EXCEPT ![c].hits = found, ![c].st = "done"]
          BY <1>1, <4>1 DEF Tasks, TaskOf, Fields
        <4>3. QED
          BY <4>2
      <3>3. QED
        BY <1>11, <3>1, <3>2
    <2>0. PICK st \in {"done", "like"} : task' = [task EXCEPT ![c].hits = hits, ![c].st = st]
      BY <2>1
    <2> DEFINE t == [task[c] EXCEPT !.hits = hits, !.st = st]
    <2>2. t = TaskOf(t) /\ t.st = st
      BY <1>1 DEF TaskOf, Fields
    <2>3. task' = [task EXCEPT ![c] = t]
      BY <1>1, <2>0 DEF Tasks
    <2>4. task[c].st \in {"keywords", "like"}
      BY <1>11 DEF MatchWords, MatchSubstrings, Doing
    <2> HIDE DEF t
    <2>5. Moved
      BY <1>1, <2>2, <2>3, <2>4, TaskStays DEF Unlocked, Places
    <2>6. QED
      BY <1>2, <1>3, <2>5, LocksUntouched
  <1>12. QED
    BY <1>4, <1>5, <1>6, <1>7, <1>8, <1>9, <1>10, <1>11

\* The steps that take or give back the connection, the right to write or fillMu.
LEMMA HoldingSteps ==
  ASSUME LockInv, NEW c \in Clients,
         \/ StartOp(c) \/ Write(c) \/ CommitTx(c) \/ RollBack(c) \/ Scan(c) \/ EndScan(c)
         \/ LockFill(c) \/ Prepare(c)
  PROVE  LockInv'
  <1> USE ClientsAssumption
  <1>1. Tasks /\ task[c] = TaskOf(task[c]) /\ Locks /\ HoldersKnown
    BY DEF LockInv, Tasks
  <1>2. CASE StartOp(c)
    <2>1. /\ task[c].st = "begin" /\ conn[Of[c]] = NoClient /\ Turns(c, "insert")
          /\ conn' = [conn EXCEPT ![Of[c]] = c] /\ UNCHANGED <<mu, prepared, writer>>
      BY <1>2 DEF StartOp, Doing, Connected
    <2>2. Tasks' /\ task'[c].st = "insert" /\ \A d \in Clients \ {c} : task'[d] = task[d]
      BY <1>1, <2>1, TurnsTask DEF Places
    <2>3. Locks'
      BY <1>1, <2>1 DEF Locks
    <2>4. HoldersKnown'
      BY <1>1, <2>1, <2>2 DEF HoldersKnown, Locks
    <2>5. QED
      BY <2>2, <2>3, <2>4 DEF LockInv
  <1>3. CASE Write(c)
    <2>1. /\ task[c].st = "insert" /\ writer = NoClient /\ writer' = c /\ Turns(c, "commit")
          /\ UNCHANGED <<conn, mu, prepared>>
      BY <1>3 DEF Write, Doing
    <2>2. Tasks' /\ task'[c].st = "commit" /\ \A d \in Clients \ {c} : task'[d] = task[d]
      BY <1>1, <2>1, TurnsTask DEF Places
    <2>3. Locks'
      BY <1>1, <2>1 DEF Locks
    <2>4. HoldersKnown'
      BY <1>1, <2>1, <2>2 DEF HoldersKnown, Locks
    <2>5. QED
      BY <2>2, <2>3, <2>4 DEF LockInv
  <1>4. ASSUME Release(c), task[c].st \in {"insert", "commit", "rows"},
               Tasks', task'[c].st \in Unlocked, \A d \in Clients \ {c} : task'[d] = task[d]
        PROVE  LockInv'
    <2>1. Locks'
      BY <1>1, <1>4 DEF Locks, Release
    <2>2. conn[Of[c]] = c
      BY <1>1, <1>4 DEF HoldersKnown
    <2>3. HoldersKnown'
      BY <1>1, <1>4, <2>2 DEF HoldersKnown, Locks, Release, Unlocked
    <2>4. QED
      BY <1>4, <2>1, <2>3 DEF LockInv
  <1>5. CASE CommitTx(c) \/ RollBack(c)
    <2>1. task[c].st \in {"insert", "commit"} /\ Release(c) /\ Quit(c)
      BY <1>5 DEF CommitTx, RollBack, Doing
    <2>2. Tasks' /\ task'[c].st = "idle" /\ \A d \in Clients \ {c} : task'[d] = task[d]
      BY <1>1, <2>1, QuitTask
    <2>3. QED
      BY <1>4, <2>1, <2>2 DEF Unlocked, Places
  <1>6. CASE Scan(c)
    <2>1. PICK rows, seen : task' = [task EXCEPT ![c].st = "rows", ![c].rows = rows, ![c].seen = seen]
      BY <1>6 DEF Scan
    <2> DEFINE t == [task[c] EXCEPT !.st = "rows", !.rows = rows, !.seen = seen]
    <2>2. t = TaskOf(t) /\ t.st = "rows"
      BY <1>1 DEF TaskOf, Fields
    <2>3. task' = [task EXCEPT ![c] = t]
      BY <1>1, <2>1 DEF Tasks
    <2> HIDE DEF t
    <2>4. Tasks' /\ task'[c].st = "rows" /\ \A d \in Clients \ {c} : task'[d] = task[d]
      BY <1>1, <2>2, <2>3, TaskStays DEF Places
    <2>5. /\ task[c].st = "search" /\ conn[Of[c]] = NoClient
          /\ conn' = [conn EXCEPT ![Of[c]] = c] /\ UNCHANGED <<mu, prepared, writer>>
      BY <1>6 DEF Scan, Doing, Connected
    <2>6. Locks'
      BY <1>1, <2>5 DEF Locks
    <2>7. HoldersKnown'
      BY <1>1, <2>4, <2>5 DEF HoldersKnown, Locks
    <2>8. QED
      BY <2>4, <2>6, <2>7 DEF LockInv
  <1>7. CASE EndScan(c)
    <2>1. PICK st \in {"done", "lock"} : Turns(c, st)
      BY <1>7 DEF EndScan
    <2>2. task[c].st = "rows" /\ Release(c)
      BY <1>7 DEF EndScan, Doing
    <2>3. Tasks' /\ task'[c].st = st /\ \A d \in Clients \ {c} : task'[d] = task[d]
      BY <1>1, <2>1, TurnsTask DEF Places
    <2>4. QED
      BY <1>4, <2>2, <2>3 DEF Unlocked, Places
  <1>8. CASE LockFill(c)
    <2>1. task[c].st = "lock" /\ mu[Of[c]] = NoClient /\ UNCHANGED <<conn, prepared, writer>>
      BY <1>8 DEF LockFill, Doing
    <2>2. CASE Turns(c, "fill") /\ mu' = mu
      <3>1. Tasks' /\ task'[c].st = "fill" /\ \A d \in Clients \ {c} : task'[d] = task[d]
        BY <1>1, <2>2, TurnsTask DEF Places
      <3>2. Locks'
        BY <1>1, <2>1, <2>2 DEF Locks
      <3>3. QED
        BY <2>1, <2>2, <3>1, <3>2, LocksUntouched DEF Unlocked, Places
    <2>3. CASE Turns(c, "prepare") /\ mu' = [mu EXCEPT ![Of[c]] = c]
      <3>1. Tasks' /\ task'[c].st = "prepare" /\ \A d \in Clients \ {c} : task'[d] = task[d]
        BY <1>1, <2>3, TurnsTask DEF Places
      <3>2. Locks'
        BY <1>1, <2>1, <2>3 DEF Locks
      <3>3. HoldersKnown'
        BY <1>1, <2>1, <2>3, <3>1 DEF HoldersKnown, Locks
      <3>4. QED
        BY <3>1, <3>2, <3>3 DEF LockInv
    <2>4. QED
      BY <1>8, <2>2, <2>3 DEF LockFill
  <1>9. CASE Prepare(c)
    <2>1. /\ task[c].st = "prepare" /\ Turns(c, "fill") /\ UNCHANGED <<conn, writer>>
          /\ prepared' = [prepared EXCEPT ![Of[c]] = TRUE]
          /\ mu' = [mu EXCEPT ![Of[c]] = NoClient]
      BY <1>9 DEF Prepare, Doing
    <2>2. Tasks' /\ task'[c].st = "fill" /\ \A d \in Clients \ {c} : task'[d] = task[d]
      BY <1>1, <2>1, TurnsTask DEF Places
    <2>3. Locks'
      BY <1>1, <2>1 DEF Locks
    <2>4. HoldersKnown'
      BY <1>1, <2>1, <2>2 DEF HoldersKnown, Locks
    <2>5. QED
      BY <2>2, <2>3, <2>4 DEF LockInv
  <1>10. QED
    BY <1>2, <1>3, <1>5, <1>6, <1>7, <1>8, <1>9

\* A statement fails, and what the client holds is given back.
LEMMA FailedStep ==
  ASSUME LockInv, NEW c \in Clients, StoreFails(c)
  PROVE  LockInv'
  <1> USE ClientsAssumption
  <1>1. Tasks /\ Locks /\ HoldersKnown
    BY DEF LockInv
  <1>2. /\ task[c].st \in Places \ {"insert", "commit"} /\ Quit(c) /\ UNCHANGED <<prepared, writer>>
        /\ conn' = IF conn[Of[c]] = c THEN [conn EXCEPT ![Of[c]] = NoClient] ELSE conn
        /\ mu' = IF mu[Of[c]] = c THEN [mu EXCEPT ![Of[c]] = NoClient] ELSE mu
    BY DEF StoreFails, Places
  <1>3. Tasks' /\ task'[c].st = "idle" /\ \A d \in Clients \ {c} : task'[d] = task[d]
    BY <1>1, <1>2, QuitTask
  <1>4. Locks'
    BY <1>1, <1>2 DEF Locks
  <1>5. HoldersKnown'
    <2>1. \A p \in Procs : conn'[p] = IF conn[Of[c]] = c /\ p = Of[c] THEN NoClient ELSE conn[p]
      BY <1>1, <1>2 DEF Locks
    <2>2. \A p \in Procs : mu'[p] = IF mu[Of[c]] = c /\ p = Of[c] THEN NoClient ELSE mu[p]
      BY <1>1, <1>2 DEF Locks
    <2>3. (\A p \in Procs : conn'[p] # NoClient => Of[conn'[p]] = p)
            /\ (\A p \in Procs : mu'[p] # NoClient => Of[mu'[p]] = p)
      BY <1>1, <2>1, <2>2 DEF HoldersKnown
    <2>4. \A d \in Clients : task'[d].st \in {"insert", "commit", "rows"} <=> conn'[Of[d]] = d
      BY <1>1, <1>3, <2>1 DEF HoldersKnown
    <2>5. \A d \in Clients : task'[d].st = "prepare" <=> mu'[Of[d]] = d
      BY <1>1, <1>3, <2>2 DEF HoldersKnown
    <2>6. \A d \in Clients : task'[d].st = "commit" <=> writer' = d
      BY <1>1, <1>2, <1>3 DEF HoldersKnown
    <2>7. QED
      BY <2>3, <2>4, <2>5, <2>6 DEF HoldersKnown
  <1>6. QED
    BY <1>3, <1>4, <1>5 DEF LockInv

\* A process ends, and all that its clients held is free.
LEMMA KilledStep ==
  ASSUME LockInv, NEW p \in Procs, KillStore(p)
  PROVE  LockInv'
  <1> USE ClientsAssumption
  <1>1. Tasks /\ Locks /\ HoldersKnown
    BY DEF LockInv
  <1>2. /\ task' = [c \in Clients |-> IF Of[c] = p THEN Resting ELSE task[c]]
        /\ conn' = [conn EXCEPT ![p] = NoClient] /\ mu' = [mu EXCEPT ![p] = NoClient]
        /\ prepared' = [prepared EXCEPT ![p] = FALSE]
        /\ writer' = IF writer # NoClient /\ Of[writer] = p THEN NoClient ELSE writer
    BY DEF KillStore
  <1>3. \A c \in Clients : task'[c] = IF Of[c] = p THEN Resting ELSE task[c]
    BY <1>2
  <1>4. Tasks'
    BY <1>1, <1>2, <1>3, RestingTask DEF Tasks, Places
  <1>5. Locks'
    BY <1>1, <1>2 DEF Locks
  <1>6. HoldersKnown'
    <2>1. \A q \in Procs : /\ conn'[q] = IF q = p THEN NoClient ELSE conn[q]
                           /\ mu'[q] = IF q = p THEN NoClient ELSE mu[q]
      BY <1>1, <1>2 DEF Locks
    <2>2. (\A q \in Procs : conn'[q] # NoClient => Of[conn'[q]] = q)
            /\ (\A q \in Procs : mu'[q] # NoClient => Of[mu'[q]] = q)
      BY <1>1, <2>1 DEF HoldersKnown
    <2>3. \A c \in Clients : task'[c].st \in {"insert", "commit", "rows"} <=> conn'[Of[c]] = c
      BY <1>1, <1>3, <2>1, RestingTask DEF HoldersKnown
    <2>4. \A c \in Clients : task'[c].st = "prepare" <=> mu'[Of[c]] = c
      BY <1>1, <1>3, <2>1, RestingTask DEF HoldersKnown
    <2>5. \A c \in Clients : task'[c].st = "commit" <=> writer' = c
      BY <1>1, <1>2, <1>3, RestingTask DEF HoldersKnown, Locks
    <2>6. QED
      BY <2>2, <2>3, <2>4, <2>5 DEF HoldersKnown
  <1>7. QED
    BY <1>4, <1>5, <1>6 DEF LockInv

LEMMA LockInvNext == LockInv /\ [StoreNext]_storeVars => LockInv'
  <1> SUFFICES ASSUME LockInv, [StoreNext]_storeVars PROVE LockInv'
    OBVIOUS
  <1>1. ASSUME UNCHANGED storeVars PROVE LockInv'
    BY <1>1 DEF storeVars, locks, LockInv, Tasks, Locks, HoldersKnown
  <1>2. ASSUME NEW c \in Clients, Work(c) PROVE LockInv'
    BY <1>2, FreeSteps, HoldingSteps DEF Work
  <1>3. QED
    BY <1>1, <1>2, FreeSteps, FailedStep, KilledStep DEF StoreNext

\* Who holds the connection, fillMu or the right to write can go on, or waits for
\* the one who writes, who can.
LEMMA LockInvFree == LockInv => NobodyStuck
  <1> USE ClientsAssumption
  <1> SUFFICES ASSUME LockInv, NEW c \in Clients, ~Doing(c, "idle"), ~CanMove(c)
               PROVE  \E d \in WaitsFor(c) : CanMove(d) \/ \E e \in WaitsFor(d) : CanMove(e)
    BY DEF NobodyStuck
  <1>1. Locks /\ HoldersKnown /\ task[c].st \in Places
    BY DEF LockInv, Tasks
  <1>2. ASSUME NEW d \in Clients, NEW e \in Clients, writer = e, task[d].st # "commit"
        PROVE  e \in WaitsFor(d) /\ CanMove(e)
    BY <1>1, <1>2 DEF HoldersKnown, WaitsFor, CanMove
  <1>3. ASSUME NEW d \in Clients, NEW e \in Clients, conn[Of[d]] = e, e # d
        PROVE  e \in WaitsFor(d) /\ (CanMove(e) \/ writer \in Clients)
    <2>1. Of[e] = Of[d]
      BY <1>1, <1>3 DEF HoldersKnown
    <2>2. task[e].st \in {"insert", "commit", "rows"}
      BY <1>1, <1>3, <2>1 DEF HoldersKnown
    <2>3. QED
      BY <1>1, <1>3, <2>2 DEF WaitsFor, CanMove, Doing, Locks
  <1>4. task[c].st # "commit"
    BY DEF CanMove
  <1>5. CASE writer # NoClient
    BY <1>1, <1>2, <1>4, <1>5 DEF Locks
  <1>6. CASE writer = NoClient /\ ~Connected(c)
    <2>1. conn[Of[c]] \in Clients /\ conn[Of[c]] # c
      <3>1. conn[Of[c]] \in Clients
        BY <1>1, <1>6 DEF Connected, Locks
      <3>2. ASSUME conn[Of[c]] = c PROVE FALSE
        BY <1>1, <1>6, <3>2 DEF HoldersKnown, CanMove, Doing
      <3>3. QED
        BY <3>1, <3>2
    <2>2. QED
      BY <1>3, <1>6, <2>1
  <1>7. CASE writer = NoClient /\ Connected(c)
    <2>1. task[c].st = "lock" /\ mu[Of[c]] # NoClient
      BY <1>1, <1>7 DEF CanMove, Doing, Writable, Places
    <2>2. PICK d \in Clients : d = mu[Of[c]]
      BY <1>1, <2>1 DEF Locks
    <2>3. Of[d] = Of[c] /\ task[d].st = "prepare"
      BY <1>1, <2>1, <2>2 DEF HoldersKnown
    <2>4. d \in WaitsFor(c) /\ CanMove(d)
      BY <1>7, <2>1, <2>2, <2>3 DEF WaitsFor, CanMove, Connected
    <2>5. QED
      BY <2>4
  <1>8. QED
    BY <1>5, <1>6, <1>7

\* Nobody waits for ever in the local store, with any number of goroutines and
\* processes and whatever statements fail: the chain of those who wait ends with
\* one who can go on (localstore.go: SetMaxOpenConns(1), fillMu, the model read
\* before the transaction begins).
THEOREM NobodyWaitsForEver == StoreSpec => []NobodyStuck
  <1>1. QED
    BY LockInvInit, LockInvNext, LockInvFree, PTL DEF StoreSpec

------------------------------------------------------------------------------
(* The dictionary *)

LEMMA DictionaryInit == StoreInit => DictionaryCovers
  <1> SUFFICES ASSUME NEW S \in SUBSET Versions, NEW o \in Orders(S), Indexed(o)
               PROVE  DictionaryCovers
    BY DEF StoreInit
  <1>1. dict = {r.vec : r \in chunks} \ {NoVector}
    BY DEF Indexed
  <1>2. QED
    BY <1>1 DEF DictionaryCovers

LEMMA DictionaryNext == DictionaryCovers /\ [StoreNext]_storeVars => DictionaryCovers'
  <1> SUFFICES ASSUME DictionaryCovers, [StoreNext]_storeVars PROVE DictionaryCovers'
    OBVIOUS
  <1>1. ASSUME chunks' \subseteq chunks, dict' = dict PROVE DictionaryCovers'
    BY <1>1 DEF DictionaryCovers
  <1>2. ASSUME UNCHANGED <<chunks, dict>> PROVE DictionaryCovers'
    BY <1>1, <1>2
  <1>3. ASSUME NEW c \in Clients, CommitTx(c) PROVE DictionaryCovers'
    <2>1. PICK new, old : /\ chunks' = (chunks \ old) \cup new
                          /\ dict' = dict \cup ({r.vec : r \in new} \ {NoVector})
      BY <1>3 DEF CommitTx
    <2>2. QED
      BY <2>1 DEF DictionaryCovers
  <1>4. ASSUME NEW c \in Clients, Collect(c) PROVE DictionaryCovers'
    <2>1. chunks' = chunks /\ dict' = dict \cap Used
      BY <1>4 DEF Collect
    <2>2. QED
      BY <2>1 DEF DictionaryCovers, Used
  <1>5. ASSUME NEW c \in Clients, ClearChunks(c) \/ DeleteVersion(c) \/ Sweep(c) PROVE DictionaryCovers'
    BY <1>1, <1>5 DEF ClearChunks, DeleteVersion, Sweep, Removed
  <1>6. ASSUME NEW c \in Clients, Work(c) PROVE DictionaryCovers'
    BY <1>2, <1>3, <1>4, <1>5, <1>6
    DEF Work, Upsert, ReadModel, StartOp, Write, RollBack, SetManifest, Scan, PushHit, EndScan, LockFill, Prepare,
        Fill, MatchWords, MatchSubstrings, Replies, tables
  <1>7. QED
    BY <1>2, <1>6 DEF StoreNext, storeVars, TakeConn, StoreFails, KillStore, tables

\* A chunk that was embedded keeps its vector whatever is stored, deleted and
\* collected, by any number of processes (InsertChunks, PruneOrphanEmbeddings).
THEOREM EmbeddedStaysFound == StoreSpec => []DictionaryCovers
  <1>1. QED
    BY DictionaryInit, DictionaryNext, PTL DEF StoreSpec
================================================================================
