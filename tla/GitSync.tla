-------------------------------- MODULE GitSync --------------------------------
(***************************************************************************)
(* Projects the server clones itself: the git step of a job                *)
(* (resolveJobIndexPath, resolveGitOptions, gitsync.SyncWithOptions), the  *)
(* stored credentials (gitcredmgr, store/gitcredentials.go), and the files *)
(* a sync leaves on disk across crashes and restarts.                      *)
(*                                                                         *)
(* A remote is a history: a push adds a commit, a forced push starts a new *)
(* line.  What git itself does is modelled from how it is called.          *)
(***************************************************************************)
EXTENDS Integers, FiniteSets

CONSTANTS
  Workers,     \* job workers
  Admins,      \* requests that manage credentials
  Names,       \* project names
  Urls,        \* git URLs
  Hosts,       \* their hosts
  HostOf,      \* url to host
  UrlOf,       \* the url a name is used with, when names are not reused
  MasterKeys,  \* values of SEMIDX_SECRET_KEY
  NoKey,       \* it is not set
  None,        \* no credential, no file, nobody
  AllowReuse,  \* may a name be used again with another url?
  AllowReplicas, \* may a second process start?
  MaxJobs,     \* bound: git steps of jobs
  MaxPushes,   \* bound: pushes
  MaxEdits,    \* bound: changes of credentials and projects
  MaxCrashes   \* bound: ends of the process

ASSUME HostsAssumption == HostOf \in [Urls -> Hosts] /\ UrlOf \in [Names -> Urls]
ASSUME KeysAssumption == NoKey \notin MasterKeys
ASSUME FlagsAssumption == AllowReuse \in BOOLEAN /\ AllowReplicas \in BOOLEAN
ASSUME BoundsAssumption == {MaxJobs, MaxPushes, MaxEdits, MaxCrashes} \subseteq Nat

Scopes == Names \cup Hosts       \* a project (by its only name) or a host
Secrets == {"token", "key"}      \* any text, or one that parses as a private key
Project == [id : 1 .. MaxEdits, url : Urls]
Credential == [id : 1 .. MaxEdits, kind : {"https", "ssh"}, secret : Secrets, sealed : MasterKeys]

VARIABLES
  projects,   \* rows of projects: name to row, or None
  creds,      \* rows of git_credentials: scope to credential, or None
  remote,     \* url to its history
  repos,      \* dataDir/repos: name to checkout, or None
  temp,       \* dataDir/ssh/tmp: the workers whose files are there
  up, key,    \* the process, and its SEMIDX_SECRET_KEY
  job,        \* what each worker does
  edit,       \* what each admin request does
  jobs, pushes, edits, crashes

stored == <<projects, creds>>
disk == <<repos, temp>>
bounds == <<jobs, pushes, edits, crashes>>
vars == <<stored, remote, disk, up, key, job, edit, bounds>>

History == [line : Nat, commit : Nat]
Checkout == [url : Urls, at : History, whole : BOOLEAN]
ASSUME NoneAssumption == None \notin Checkout
ASSUME SomethingAssumption == Names # {} /\ Urls # {}
Free == [st |-> "idle", id |-> 0, name |-> CHOOSE n \in Names : TRUE, url |-> CHOOSE u \in Urls : TRUE,
         scope |-> None, cred |-> None, since |-> [line |-> 0, commit |-> 0]]
Calm == [st |-> "idle", scope |-> CHOOSE s \in Scopes : TRUE, kind |-> "", secret |-> None, old |-> None]

TypeOK ==
  /\ projects \in [Names -> Project \cup {None}]
  /\ creds \in [Scopes -> Credential \cup {None}]
  /\ remote \in [Urls -> History]
  /\ repos \in [Names -> Checkout \cup {None}]
  /\ temp \subseteq Workers
  /\ up \in BOOLEAN /\ key \in MasterKeys \cup {NoKey}
  /\ \A w \in Workers : /\ job[w].name \in Names /\ job[w].url \in Urls
                        /\ job[w].cred \in Credential \cup {None}
                        /\ job[w].since \in History
  /\ \A a \in Admins : /\ edit[a].scope \in Scopes
                       /\ edit[a].old \in Credential \cup {None}
                       /\ edit[a].kind \in {"", "https", "ssh"}
                       /\ edit[a].secret \in Secrets \cup {None}

Init ==
  /\ projects = [n \in Names |-> None]
  /\ creds = [s \in Scopes |-> None]
  /\ remote = [u \in Urls |-> [line |-> 0, commit |-> 0]]
  /\ repos = [n \in Names |-> None] /\ temp = {}
  /\ up = TRUE /\ key \in MasterKeys \cup {NoKey}
  /\ job = [w \in Workers |-> Free]
  /\ edit = [a \in Admins |-> Calm]
  /\ jobs = 0 /\ pushes = 0 /\ edits = 0 /\ crashes = 0

------------------------------------------------------------------------------
(* The world: pushes, projects that are created and deleted. *)
Push(u) ==
  /\ pushes < MaxPushes /\ pushes' = pushes + 1
  /\ \/ remote' = [remote EXCEPT ![u].commit = @ + 1]
     \/ remote' = [remote EXCEPT ![u] = [line |-> @.line + 1, commit |-> 0]]
  /\ UNCHANGED <<stored, disk, up, key, job, edit, jobs, edits, crashes>>

Edit == edits < MaxEdits /\ edits' = edits + 1 /\ UNCHANGED <<jobs, pushes, crashes>>

CreateProject(n) ==
  /\ Edit /\ projects[n] = None
  /\ \E u \in Urls : /\ AllowReuse \/ u = UrlOf[n]
                     /\ projects' = [projects EXCEPT ![n] = [id |-> edits', url |-> u]]
  /\ UNCHANGED <<creds, remote, disk, up, key, job, edit>>

\* The row goes, and by cascade its credential; the checkout stays.
DeleteProject(n) ==
  /\ Edit /\ projects[n] # None
  /\ projects' = [projects EXCEPT ![n] = None]
  /\ creds' = [creds EXCEPT ![n] = None]
  /\ UNCHANGED <<remote, disk, up, key, job, edit>>

------------------------------------------------------------------------------
(* Credentials: Create and Delete are one statement, Update reads and writes. *)
Fits(kind, secret) == kind = "ssh" => secret = "key"

CreateCredential(s) ==
  /\ Edit /\ up /\ key # NoKey
  /\ creds[s] = None                             \* unique per scope
  /\ s \in Names => projects[s] # None
  /\ \E kind \in {"https", "ssh"}, secret \in Secrets :
       /\ Fits(kind, secret)
       /\ creds' = [creds EXCEPT ![s] = [id |-> edits', kind |-> kind,
                                              secret |-> secret, sealed |-> key]]
  /\ UNCHANGED <<projects, remote, disk, up, key, job, edit>>

DeleteCredential(s) ==
  /\ Edit /\ up
  /\ creds[s] # None /\ creds' = [creds EXCEPT ![s] = None]
  /\ UNCHANGED <<projects, remote, disk, up, key, job, edit>>

\* GetGitCredentialByID.
ReadCredential(a) ==
  /\ edit[a].st = "idle" /\ Edit /\ up /\ key # NoKey
  /\ \E s \in Scopes, kind \in {"", "https", "ssh"}, secret \in Secrets \cup {None} :
       /\ creds[s] # None
       /\ edit' = [edit EXCEPT ![a] = [st |-> "write", scope |-> s, kind |-> kind,
                                       secret |-> secret, old |-> creds[s]]]
  /\ UNCHANGED <<stored, remote, disk, up, key, job>>

\* applyUpdateSecret.
KindOf(e) == IF e.kind = "" THEN e.old.kind ELSE e.kind
Acceptable(e) == IF e.secret = None THEN KindOf(e) = e.old.kind ELSE Fits(KindOf(e), e.secret)

Updated(e, row) ==
  IF e.secret = None THEN [e.old EXCEPT !.kind = KindOf(e)]
  ELSE [row EXCEPT !.kind = KindOf(e), !.secret = e.secret, !.sealed = key]

WriteCredential(a) ==
  /\ edit[a].st = "write"
  /\ LET e == edit[a]
     IN creds' = IF Acceptable(e) /\ creds[e.scope] # None /\ creds[e.scope].id = e.old.id
                 THEN [creds EXCEPT ![e.scope] = Updated(e, @)] ELSE creds
  /\ edit' = [edit EXCEPT ![a] = Calm]
  /\ UNCHANGED <<projects, remote, disk, up, key, job, bounds>>

------------------------------------------------------------------------------
(* The git step of a job. *)
At(w, st) == job[w].st = st
Goto(w, st) == job' = [job EXCEPT ![w].st = st]
Still == UNCHANGED <<stored, remote, up, key, edit, bounds>>

Take(w) ==
  /\ At(w, "idle") /\ up /\ jobs < MaxJobs /\ jobs' = jobs + 1
  /\ \E n \in Names : /\ projects[n] # None
                      /\ job' = [job EXCEPT ![w] = [Free EXCEPT !.st = "project", !.name = n,
                                                      !.id = projects[n].id, !.url = projects[n].url,
                                                      !.since = remote[projects[n].url]]]
  /\ UNCHANGED <<stored, remote, disk, up, key, edit, pushes, edits, crashes>>

Use(w, s) == job' = [job EXCEPT ![w].st = "open", ![w].scope = s, ![w].cred = creds[s]]

\* lookupGitCredential: project, then host, then the token of the environment.
LookUpProject(w) ==
  /\ At(w, "project")
  /\ LET n == job[w].name
     IN IF projects[n] # None /\ projects[n].id = job[w].id /\ creds[n] # None THEN Use(w, n) ELSE Goto(w, "host")
  /\ UNCHANGED disk /\ Still

LookUpHost(w) ==
  /\ At(w, "host")
  /\ LET h == HostOf[job[w].url]
     IN IF creds[h] # None THEN Use(w, h) ELSE Goto(w, "stat")
  /\ UNCHANGED disk /\ Still

\* openCredentialSecret.
OpenSecret(w) ==
  /\ At(w, "open")
  /\ job[w].cred.sealed = key
  /\ Goto(w, IF job[w].cred.kind = "ssh" THEN "write key" ELSE "stat")
  /\ UNCHANGED disk /\ Still

\* sshSetup: the key, and the known hosts when they are pinned.
WriteKey(w) ==
  /\ At(w, "write key")
  /\ temp' = temp \cup {w}
  /\ Goto(w, "stat")
  /\ UNCHANGED repos /\ Still

\* Mutant of Stat: a checkout that is there is taken as it is.
StatIsEnough(w) ==
  /\ At(w, "stat")
  /\ Goto(w, IF repos[job[w].name] = None THEN "clone" ELSE "synced")
  /\ UNCHANGED disk /\ Still

\* os.Stat: a clone makes .git first.
Stat(w) ==
  /\ At(w, "stat")
  /\ Goto(w, IF repos[job[w].name] = None THEN "clone" ELSE "pull")
  /\ UNCHANGED disk /\ Still

\* git clone wants an empty place, and keeps it to itself until it is whole.
StartClone(w) ==
  /\ At(w, "clone") /\ repos[job[w].name] = None
  /\ repos' = [repos EXCEPT ![job[w].name] = [url |-> job[w].url, at |-> remote[job[w].url], whole |-> FALSE]]
  /\ Goto(w, "cloning")
  /\ UNCHANGED temp /\ Still

EndClone(w) ==
  /\ At(w, "cloning")
  /\ repos' = [repos EXCEPT ![job[w].name].whole = TRUE, ![job[w].name].at = remote[job[w].url]]
  /\ Goto(w, "synced")
  /\ UNCHANGED temp /\ Still

\* git pull --ff-only, from the remote the checkout was cloned from.
Pull(w) ==
  /\ At(w, "pull")
  /\ LET r == repos[job[w].name]
     IN /\ r # None /\ r.whole /\ remote[r.url].line = r.at.line
        /\ repos' = [repos EXCEPT ![job[w].name].at = remote[r.url]]
  /\ Goto(w, "synced")
  /\ UNCHANGED temp /\ Still

\* The deferred cleanups, and the path is returned to the job.
Cleanup(w) == temp' = temp \ {w}

Return(w) ==
  /\ At(w, "synced")
  /\ Cleanup(w)
  /\ Goto(w, "index")
  /\ UNCHANGED repos /\ Still

Index(w) ==
  /\ At(w, "index")
  /\ job' = [job EXCEPT ![w] = Free]
  /\ UNCHANGED disk /\ Still

\* A store call or git fails (the network, the credential, the other git in the
\* directory, a history that cannot be fast-forwarded).  A failing clone removes
\* what it made, unless it was killed because the server stops.
Fail(w) ==
  /\ job[w].st \in {"project", "host", "open", "write key", "clone", "cloning", "pull"}
  /\ job' = [job EXCEPT ![w] = Free]
  /\ \/ UNCHANGED repos
     \/ At(w, "cloning") /\ repos' = [repos EXCEPT ![job[w].name] = None]
  /\ Cleanup(w)
  /\ Still

------------------------------------------------------------------------------
(* The process ends anywhere; its deferred calls do not run, git is killed.  *)
Crash ==
  /\ up /\ crashes < MaxCrashes /\ crashes' = crashes + 1
  /\ up' = FALSE
  /\ job' = [w \in Workers |-> Free] /\ edit' = [a \in Admins |-> Calm]
  /\ UNCHANGED <<stored, remote, disk, key, jobs, pushes, edits>>

\* Mutant of SweepTempKeys: the leftovers stay.
SweepNothing == UNCHANGED temp
SweepTempKeys == temp' = {}

\* StartWorkers.
Start ==
  /\ ~up \/ (AllowReplicas /\ crashes < MaxCrashes)
  /\ crashes' = IF up THEN crashes + 1 ELSE crashes
  /\ up' = TRUE
  /\ IF up THEN UNCHANGED key ELSE key' \in MasterKeys \cup {NoKey}
  /\ SweepTempKeys
  /\ UNCHANGED <<stored, remote, repos, job, edit, jobs, pushes, edits>>

Step(w) ==
  \/ Take(w) \/ LookUpProject(w) \/ LookUpHost(w) \/ OpenSecret(w) \/ WriteKey(w)
  \/ Stat(w) \/ StartClone(w) \/ EndClone(w) \/ Pull(w) \/ Return(w) \/ Index(w) \/ Fail(w)

Next ==
  \/ \E u \in Urls : Push(u)
  \/ \E n \in Names : CreateProject(n) \/ DeleteProject(n)
  \/ \E s \in Scopes : CreateCredential(s) \/ DeleteCredential(s)
  \/ \E a \in Admins : ReadCredential(a) \/ WriteCredential(a)
  \/ \E w \in Workers : Step(w)
  \/ Crash \/ Start

Spec == Init /\ [][Next]_vars

------------------------------------------------------------------------------
(* What a job goes on to index is a whole checkout, and no older than the    *)
(* remote was when the job was taken, whatever an earlier crash, a killed    *)
(* clone, a forced push or another job in the same directory has left.       *)
AsRecent(at, since) ==
  \/ at.line > since.line
  \/ at.line = since.line /\ at.commit >= since.commit

SyncedIsCurrent ==
  \A w \in Workers :
    job[w].st \in {"synced", "index"} =>
      LET r == repos[job[w].name]
      IN r # None /\ r.whole /\ (r.url = job[w].url => AsRecent(r.at, job[w].since))

(* "SyncWithOptions ensures dataDir/repos/<name> holds an up-to-date checkout *)
(* of the repo": of the repository the project names, even if the name was    *)
(* used for another one before.                                               *)
CheckoutOfProject ==
  \A w \in Workers :
    job[w].st \in {"synced", "index"} => repos[job[w].name].url = job[w].url

(* Private keys are on disk while a sync uses them, and at no other time:    *)
(* not after a sync that failed, and not after a restart.                    *)
HasKey(w) ==
  /\ job[w].cred # None /\ job[w].cred.kind = "ssh"
  /\ job[w].st \in {"stat", "clone", "cloning", "pull", "synced"}

KeysSwept == up => temp = {w \in Workers : HasKey(w)}

(* A credential of kind ssh holds a private key, whichever updates of kind   *)
(* and secret overlap: one update reads the row and writes it later.         *)
SecretFitsKind == \A s \in Scopes : creds[s] # None => Fits(creds[s].kind, creds[s].secret)
==============================================================================
