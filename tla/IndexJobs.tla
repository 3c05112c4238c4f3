------------------------------ MODULE IndexJobs ------------------------------
(***************************************************************************)
(* The durable indexing jobs of the semidx server: the index_jobs table    *)
(* (internal/store/jobs.go) and the worker pool that drains it             *)
(* (internal/server/jobs.go).  Server processes start, shut down and       *)
(* crash; each runs a worker per slot.  Jobs are enqueued through the API, *)
(* claimed oldest first, run, and marked succeeded or failed.  A starting  *)
(* process returns the stale running jobs to the queue.                    *)
(*                                                                         *)
(* One action is one statement on the database or one step between two of  *)
(* them, so every interleaving of the workers' statements is explored.     *)
(***************************************************************************)
EXTENDS Naturals, FiniteSets

CONSTANTS
  Servers,        \* server processes that may run against the database
  Slots,          \* worker goroutines of a process (SEMIDX_INDEX_WORKERS)
  Projects,       \* registered projects
  MaxJobs,        \* bound: jobs ever enqueued
  MaxCrashes,     \* bound: crashes and shutdowns
  MaxStoreErrs,   \* bound: database calls that return an error
  AllowReplicas   \* may a process start while another one is still up?

ASSUME MaxJobsAssumption == MaxJobs \in Nat
ASSUME MaxCrashesAssumption == MaxCrashes \in Nat
ASSUME MaxStoreErrsAssumption == MaxStoreErrs \in Nat
ASSUME AllowReplicasAssumption == AllowReplicas \in BOOLEAN

Workers == Servers \X Slots
Jobs == 1 .. MaxJobs
NoJob == 0

VARIABLES
  status,      \* index_jobs.status; "none" before the INSERT, "gone" after the cascade
  proj,        \* index_jobs.project_id
  kind,        \* index_jobs.type: "index" (full, git_history, batch) or "resolve"
  fresh,       \* started_at lies within staleJobAge
  nextJob,     \* next value of the id sequence
  projStatus,  \* projects.status; "gone" once the project is deleted
  srv,         \* "down", "up", or "stopping" once its context is cancelled
  listen,      \* the process's LISTEN channel: "none", "open" or "closed"
  notes,       \* notifications waiting in that channel
  pc,          \* where each worker is
  cur,         \* the job each worker is running
  tick,        \* has the worker's poll ticker fired since it began to wait?
  crashes, errs,
  lastOutcome  \* history: outcome last written for a job that concerns the project

rowVars == <<status, proj, kind, fresh, nextJob>>
srvVars == <<srv, listen, notes>>
workerVars == <<pc, cur, tick>>
vars == <<rowVars, projStatus, srvVars, workerVars, crashes, errs, lastOutcome>>

Statuses == {"none", "queued", "running", "succeeded", "failed", "gone"}
Terminal == {"succeeded", "failed"}
ProjStatuses == {"pending", "ready", "degraded", "error", "gone"}
Holding == {"load", "work", "complete", "fail"}
PCs == Holding \cup {"off", "claim", "mark", "wait"}

TypeOK ==
  /\ status \in [Jobs -> Statuses]
  /\ proj \in [Jobs -> Projects]
  /\ kind \in [Jobs -> {"index", "resolve"}]
  /\ fresh \in [Jobs -> BOOLEAN]
  /\ nextJob \in 1 .. (MaxJobs + 1)
  /\ projStatus \in [Projects -> ProjStatuses]
  /\ srv \in [Servers -> {"down", "up", "stopping"}]
  /\ listen \in [Servers -> {"none", "open", "closed"}]
  /\ notes \in [Servers -> Nat]
  /\ pc \in [Workers -> PCs]
  /\ cur \in [Workers -> Jobs \cup {NoJob}]
  /\ tick \in [Workers -> BOOLEAN]
  /\ crashes \in 0 .. MaxCrashes
  /\ errs \in 0 .. MaxStoreErrs
  /\ lastOutcome \in [Projects -> {"none", "ok", "failed"}]

Init ==
  /\ status = [j \in Jobs |-> "none"]
  /\ proj \in {[j \in Jobs |-> p] : p \in Projects}
  /\ kind = [j \in Jobs |-> "index"]
  /\ fresh = [j \in Jobs |-> FALSE]
  /\ nextJob = 1
  /\ projStatus = [p \in Projects |-> "pending"]
  /\ srv = [s \in Servers |-> "down"]
  /\ listen = [s \in Servers |-> "none"]
  /\ notes = [s \in Servers |-> 0]
  /\ pc = [w \in Workers |-> "off"]
  /\ cur = [w \in Workers |-> NoJob]
  /\ tick = [w \in Workers |-> FALSE]
  /\ crashes = 0
  /\ errs = 0
  /\ lastOutcome = [p \in Projects |-> "none"]

------------------------------------------------------------------------------
(* The rows.  An UPDATE of a row that no longer exists changes nothing. *)

SetStatus(j, v) == status' = [status EXCEPT ![j] = IF @ = "gone" THEN @ ELSE v]

SetProjStatus(p, v) ==
  projStatus' = [projStatus EXCEPT ![p] = IF @ = "gone" THEN @ ELSE v]

\* Mutant of Queued: the claim's query also takes rows that are running.
QueuedOrRunning == {j \in Jobs : status[j] \in {"queued", "running"}}

Queued == {j \in Jobs : status[j] = "queued"}
Oldest(j) == j \in Queued /\ \A k \in Queued : j <= k
Young == {j \in Jobs : status[j] = "running" /\ fresh[j]}

Stale == {j \in Jobs : status[j] = "running" /\ ~fresh[j]}

\* A database call that returns an error without having had an effect.
StoreError == errs < MaxStoreErrs /\ errs' = errs + 1

Goto(w, label) == pc' = [pc EXCEPT ![w] = label]
Release(w) == cur' = [cur EXCEPT ![w] = NoJob]
Up(w) == srv[w[1]] = "up"

------------------------------------------------------------------------------
(* Requests *)

\* handleEnqueueJob and the other writers of index_jobs.  The INSERT's trigger
\* notifies every process that listens.
Enqueue(p, k) ==
  /\ \E s \in Servers : srv[s] = "up"
  /\ nextJob <= MaxJobs
  /\ projStatus[p] # "gone"
  /\ status' = [status EXCEPT ![nextJob] = "queued"]
  /\ proj' = [proj EXCEPT ![nextJob] = p]
  /\ kind' = [kind EXCEPT ![nextJob] = k]
  /\ nextJob' = nextJob + 1
  /\ notes' = [s \in Servers |-> IF listen[s] = "open" THEN notes[s] + 1 ELSE notes[s]]
  /\ UNCHANGED <<fresh, projStatus, srv, listen, workerVars, crashes, errs, lastOutcome>>

\* DeleteProject: the project's jobs go with it (ON DELETE CASCADE).
DeleteProject(p) ==
  /\ \E s \in Servers : srv[s] = "up"
  /\ projStatus[p] # "gone"
  /\ projStatus' = [projStatus EXCEPT ![p] = "gone"]
  /\ status' = [j \in Jobs |->
                  IF status[j] # "none" /\ proj[j] = p THEN "gone" ELSE status[j]]
  /\ UNCHANGED <<proj, kind, fresh, nextJob, srvVars, workerVars, crashes, errs, lastOutcome>>

------------------------------------------------------------------------------
(* A worker: claimAndRun until nothing is queued, then waitForJob *)

Claim(w) ==
  /\ pc[w] = "claim" /\ Up(w)
  /\ \E j \in Jobs :
       /\ Oldest(j)
       /\ SetStatus(j, "running")
       /\ fresh' = [fresh EXCEPT ![j] = TRUE]
       /\ cur' = [cur EXCEPT ![w] = j]
  /\ Goto(w, "load")
  /\ UNCHANGED <<proj, kind, nextJob, projStatus, srvVars, tick, crashes, errs, lastOutcome>>

\* ClaimJob finds nothing, or returns an error: the worker goes to wait.
ClaimNothing(w) ==
  /\ pc[w] = "claim" /\ Up(w)
  /\ \/ Queued = {} /\ UNCHANGED errs
     \/ StoreError
  /\ Goto(w, "wait")
  /\ UNCHANGED <<rowVars, projStatus, srvVars, cur, tick, crashes, lastOutcome>>

\* runJob loads the project; a project that is gone, or an error, fails the job.
Load(w) ==
  /\ pc[w] = "load" /\ Up(w)
  /\ \/ /\ projStatus[proj[cur[w]]] # "gone"
        /\ Goto(w, "work")
        /\ UNCHANGED errs
     \/ /\ projStatus[proj[cur[w]]] = "gone"
        /\ Goto(w, "fail")
        /\ UNCHANGED errs
     \/ Goto(w, "fail") /\ StoreError
  /\ UNCHANGED <<rowVars, projStatus, srvVars, cur, tick, crashes, lastOutcome>>

\* An index run ends by writing the project's status (finalizeProject,
\* processBatchFiles); dependency resolution writes none.
Work(w) ==
  /\ pc[w] = "work" /\ Up(w)
  /\ IF kind[cur[w]] = "index"
       THEN \E v \in {"ready", "degraded"} : SetProjStatus(proj[cur[w]], v)
       ELSE UNCHANGED projStatus
  /\ Goto(w, "complete")
  /\ UNCHANGED <<rowVars, srvVars, cur, tick, crashes, errs, lastOutcome>>

\* Git sync, the model lookup, the payload or the resolver fails.
WorkFails(w) ==
  /\ pc[w] = "work" /\ Up(w)
  /\ Goto(w, "fail")
  /\ UNCHANGED <<rowVars, projStatus, srvVars, cur, tick, crashes, errs, lastOutcome>>

\* CompleteJob: the UPDATE has no condition on the status it replaces.
Complete(w) ==
  /\ pc[w] = "complete" /\ Up(w)
  /\ SetStatus(cur[w], "succeeded")
  /\ lastOutcome' = IF kind[cur[w]] = "index"
                      THEN [lastOutcome EXCEPT ![proj[cur[w]]] = "ok"]
                      ELSE lastOutcome
  /\ Goto(w, "claim")
  /\ Release(w)
  /\ UNCHANGED <<proj, kind, fresh, nextJob, projStatus, srvVars, tick, crashes, errs>>

CompleteError(w) ==
  /\ pc[w] = "complete" /\ Up(w)
  /\ StoreError
  /\ Goto(w, "fail")
  /\ UNCHANGED <<rowVars, projStatus, srvVars, cur, tick, crashes, lastOutcome>>

\* Mutant of Fail: a failed job is put back in the queue.
FailRequeues(w) ==
  /\ pc[w] = "fail" /\ Up(w)
  /\ SetStatus(cur[w], "queued")
  /\ Goto(w, "mark")
  /\ UNCHANGED <<proj, kind, fresh, nextJob, projStatus, srvVars, cur, tick, crashes, errs,
                 lastOutcome>>

\* FailJob, the first half of the fail closure.  Its error is only logged.
Fail(w) ==
  /\ pc[w] = "fail" /\ Up(w)
  /\ \/ /\ SetStatus(cur[w], "failed")
        /\ lastOutcome' = [lastOutcome EXCEPT ![proj[cur[w]]] = "failed"]
        /\ UNCHANGED errs
     \/ StoreError /\ UNCHANGED <<status, lastOutcome>>
  /\ Goto(w, "mark")
  /\ UNCHANGED <<proj, kind, fresh, nextJob, projStatus, srvVars, cur, tick, crashes>>

\* UpdateProjectStatus "error", the second half.  Its error is only logged.
Mark(w) ==
  /\ pc[w] = "mark" /\ Up(w)
  /\ \/ SetProjStatus(proj[cur[w]], "error") /\ UNCHANGED errs
     \/ StoreError /\ UNCHANGED projStatus
  /\ Goto(w, "claim")
  /\ Release(w)
  /\ UNCHANGED <<rowVars, srvVars, tick, crashes, lastOutcome>>

\* Mutant of Wake: no ticker backs the notifications up.
WakeOnNotifyOnly(w) ==
  /\ pc[w] = "wait" /\ Up(w) /\ notes[w[1]] > 0
  /\ notes' = [notes EXCEPT ![w[1]] = @ - 1]
  /\ Goto(w, "claim")
  /\ tick' = [tick EXCEPT ![w] = FALSE]
  /\ UNCHANGED <<rowVars, projStatus, srv, listen, cur, crashes, errs, lastOutcome>>

\* waitForJob's select: a notification, a closed channel (which is always ready)
\* or the ticker.
Wake(w) ==
  /\ pc[w] = "wait" /\ Up(w)
  /\ \/ /\ listen[w[1]] \in {"open", "closed"} /\ notes[w[1]] > 0
        /\ notes' = [notes EXCEPT ![w[1]] = @ - 1]
     \/ listen[w[1]] = "closed" /\ notes[w[1]] = 0 /\ UNCHANGED notes
     \/ tick[w] /\ UNCHANGED notes
  /\ Goto(w, "claim")
  /\ tick' = [tick EXCEPT ![w] = FALSE]
  /\ UNCHANGED <<rowVars, projStatus, srv, listen, cur, crashes, errs, lastOutcome>>

\* A worker of a cancelled process: every database call it still makes fails, so
\* the job it holds keeps the status it has, and the worker returns.
Abort(w) ==
  /\ srv[w[1]] = "stopping" /\ pc[w] # "off"
  /\ Goto(w, "off")
  /\ Release(w)
  /\ tick' = [tick EXCEPT ![w] = FALSE]
  /\ UNCHANGED <<rowVars, projStatus, srvVars, crashes, errs, lastOutcome>>

WorkerStep(w) ==
  \/ Claim(w) \/ ClaimNothing(w) \/ Load(w) \/ Work(w) \/ WorkFails(w)
  \/ Complete(w) \/ CompleteError(w) \/ Fail(w) \/ Mark(w) \/ Wake(w) \/ Abort(w)

------------------------------------------------------------------------------
(* Time and processes *)

\* Two seconds pass for a waiting worker.
Tick(w) ==
  /\ pc[w] = "wait" /\ Up(w) /\ ~tick[w]
  /\ tick' = [tick EXCEPT ![w] = TRUE]
  /\ UNCHANGED <<rowVars, projStatus, srvVars, pc, cur, crashes, errs, lastOutcome>>

\* Thirty minutes pass since the job was claimed.
Age(j) ==
  /\ status[j] = "running" /\ fresh[j]
  /\ fresh' = [fresh EXCEPT ![j] = FALSE]
  /\ UNCHANGED <<status, proj, kind, nextJob, projStatus, srvVars, workerVars,
                 crashes, errs, lastOutcome>>

\* StartWorkers: requeue the stale jobs (an error is only logged), open the
\* notification channel if it can, start the workers.
Start(s) ==
  /\ srv[s] = "down"
  /\ AllowReplicas \/ \A t \in Servers : srv[t] = "down"
  /\ \/ /\ status' = [j \in Jobs |-> IF j \in Stale THEN "queued" ELSE status[j]]
        /\ fresh' = [j \in Jobs |-> IF j \in Stale THEN FALSE ELSE fresh[j]]
        /\ UNCHANGED errs
     \/ StoreError /\ UNCHANGED <<status, fresh>>
  /\ srv' = [srv EXCEPT ![s] = "up"]
  /\ \E l \in {"none", "open"} : listen' = [listen EXCEPT ![s] = l]
  /\ pc' = [w \in Workers |-> IF w[1] = s THEN "claim" ELSE pc[w]]
  /\ UNCHANGED <<proj, kind, nextJob, projStatus, notes, cur, tick, crashes, lastOutcome>>

\* The LISTEN connection drops: the forwarding goroutine closes the channel.
ListenDrops(s) ==
  /\ srv[s] = "up" /\ listen[s] = "open"
  /\ listen' = [listen EXCEPT ![s] = "closed"]
  /\ UNCHANGED <<rowVars, projStatus, srv, notes, workerVars, crashes, errs, lastOutcome>>

\* SIGTERM cancels the context.
Shutdown(s) ==
  /\ srv[s] = "up" /\ crashes < MaxCrashes
  /\ crashes' = crashes + 1
  /\ srv' = [srv EXCEPT ![s] = "stopping"]
  /\ UNCHANGED <<rowVars, projStatus, listen, notes, workerVars, errs, lastOutcome>>

\* The process ends and its workers with it; Run does not wait for them.
ProcessEnds(s) ==
  /\ srv' = [srv EXCEPT ![s] = "down"]
  /\ listen' = [listen EXCEPT ![s] = "none"]
  /\ notes' = [notes EXCEPT ![s] = 0]
  /\ pc' = [w \in Workers |-> IF w[1] = s THEN "off" ELSE pc[w]]
  /\ cur' = [w \in Workers |-> IF w[1] = s THEN NoJob ELSE cur[w]]
  /\ tick' = [w \in Workers |-> IF w[1] = s THEN FALSE ELSE tick[w]]
  /\ UNCHANGED <<rowVars, projStatus, errs, lastOutcome>>

Exit(s) == srv[s] = "stopping" /\ ProcessEnds(s) /\ UNCHANGED crashes

Crash(s) ==
  /\ srv[s] = "up" /\ crashes < MaxCrashes
  /\ crashes' = crashes + 1
  /\ ProcessEnds(s)

Next ==
  \/ \E p \in Projects, k \in {"index", "resolve"} : Enqueue(p, k)
  \/ \E p \in Projects : DeleteProject(p)
  \/ \E w \in Workers : WorkerStep(w) \/ Tick(w)
  \/ \E j \in Jobs : Age(j)
  \/ \E s \in Servers : Start(s) \/ ListenDrops(s) \/ Shutdown(s) \/ Exit(s) \/ Crash(s)

Spec == Init /\ [][Next]_vars

\* The Go scheduler runs every goroutine, time passes, a cancelled process ends
\* and the container is restarted (restart: unless-stopped).
Fairness ==
  /\ \A w \in Workers : WF_vars(WorkerStep(w)) /\ WF_vars(Tick(w))
  /\ \A j \in Jobs : WF_vars(Age(j))
  /\ \A s \in Servers : WF_vars(Exit(s))
  /\ WF_vars(\E s \in Servers : Start(s))

FairSpec == Spec /\ Fairness

------------------------------------------------------------------------------
(* Safety *)

\* No job is run by two workers at once: claims are exclusive, and a job goes
\* back to the queue only when the process that ran it is gone.
OneRunner ==
  \A v, w \in Workers : v # w /\ cur[v] # NoJob => cur[v] # cur[w]

\* A worker that is still deciding a job's outcome finds the row as it left it:
\* running, unless the project was deleted.  CompleteJob and FailJob, which have
\* no condition on the status, rely on it.
HeldJobRunning ==
  \A w \in Workers : pc[w] \in Holding => status[cur[w]] \in {"running", "gone"}

\* An outcome is final: a job that succeeded or failed is not claimed, requeued
\* or given another outcome.  Only deleting the project removes it.
OutcomeIsFinal ==
  [][\A j \in Jobs : status[j] \in Terminal => status'[j] \in {status[j], "gone"}]_vars

\* Once no worker is busy with a project, the project shows "error" exactly when
\* the last outcome written for its jobs was a failure: the two halves of the
\* fail closure and the status an index run writes do not overtake one another.
\* (One worker, and no process that died between two statements.)
SettledStatus ==
  \A p \in Projects :
    (crashes = 0 /\ projStatus[p] # "gone" /\ \A w \in Workers : cur[w] # NoJob => proj[cur[w]] # p)
      => (projStatus[p] = "error" <=> lastOutcome[p] = "failed")

------------------------------------------------------------------------------
(* Liveness *)

\* A running row that no worker works on: its process ended.
Abandoned(j) == status[j] = "running" /\ \A w \in Workers : cur[w] # j

\* Every queued job is eventually decided, or its project deleted, even when the
\* notifications stop: the ticker finds it.  Only the end of the process that
\* claimed it can prevent that.
EveryQueuedJobDecided ==
  \A j \in Jobs : status[j] = "queued" ~> status[j] \in Terminal \cup {"gone"} \/ Abandoned(j)

\* A job that is stale while every process is down is decided after the restart,
\* once no statement fails any more.
StaleJobRecovered ==
  \A j \in Jobs :
    (j \in Stale /\ errs = MaxStoreErrs /\ \A s \in Servers : srv[s] = "down")
      ~> status[j] \in Terminal \cup {"gone"}

\* A restart leaves no job permanently in running state (the comment on
\* RequeueStaleJobs in internal/store/jobs.go).
NoJobStuckRunning ==
  \A j \in Jobs : status[j] = "running" ~> status[j] # "running"

------------------------------------------------------------------------------
(* Refinement *)

NoOwner == <<>>

OwnerOf(j) ==
  IF status[j] = "running" /\ \E w \in Workers : cur[w] = j /\ pc[w] \in Holding
    THEN CHOOSE w \in Workers : cur[w] = j /\ pc[w] \in Holding
    ELSE NoOwner

Ledger == INSTANCE JobLedger WITH
            st <- status, owner <- [j \in Jobs |-> OwnerOf(j)], NoOwner <- NoOwner

\* The queue keeps what JobLedger promises.
ImplementsLedger == Ledger!Spec
==============================================================================
