--------------------------- MODULE Indexing_proofs ----------------------------
(***************************************************************************)
(* Proofs about the jobs of an index run and the graph it leaves.          *)
(* IndexJobs, for every number of servers, slots, projects and jobs: type  *)
(* correctness needs nothing but the bounds' types; that no job has two    *)
(* runners and that outcomes are final is proved for deployments whose     *)
(* processes do not overlap (~AllowReplicas).  DepGraph, for any finite    *)
(* projects, references, questions and budgets: answers are exact.         *)
(***************************************************************************)
EXTENDS IndexJobs, DepGraph, FiniteSetTheorems, WellFoundedInduction, TLAPS

\* A worker has a job exactly while it runs one, and its row is of a live type.
CurMatchesPc ==
  \A w \in Workers : (pc[w] \in Holding \cup {"mark"}) <=> (cur[w] # NoJob)


\* The workers of a process that is down are not running.
DownIdle == \A w \in Workers : srv[w[1]] = "down" => pc[w] = "off"

TypeInv == TypeOK /\ CurMatchesPc /\ DownIdle

LEMMA StoreErrorType ==
  ASSUME errs \in 0 .. MaxStoreErrs, StoreError \/ UNCHANGED errs
  PROVE  errs' \in 0 .. MaxStoreErrs
  BY MaxStoreErrsAssumption DEF StoreError

LEMMA GotoType ==
  ASSUME NEW w \in Workers, NEW label \in PCs, pc \in [Workers -> PCs], Goto(w, label)
  PROVE  /\ pc' \in [Workers -> PCs]
         /\ pc'[w] = label
         /\ \A v \in Workers \ {w} : pc'[v] = pc[v]
  BY DEF Goto

LEMMA SetStatusType ==
  ASSUME NEW j \in Jobs, NEW v \in Statuses, status \in [Jobs -> Statuses], SetStatus(j, v)
  PROVE  /\ status' \in [Jobs -> Statuses]
         /\ status'[j] = IF status[j] = "gone" THEN "gone" ELSE v
         /\ \A k \in Jobs \ {j} : status'[k] = status[k]
  BY DEF SetStatus

LEMMA SetProjStatusType ==
  ASSUME NEW p \in Projects, NEW v \in ProjStatuses, projStatus \in [Projects -> ProjStatuses],
         SetProjStatus(p, v)
  PROVE  projStatus' \in [Projects -> ProjStatuses]
  BY DEF SetProjStatus

LEMMA TypeInvInit == Init => TypeInv
  <1> SUFFICES ASSUME Init PROVE TypeInv
    OBVIOUS
  <1> USE MaxJobsAssumption, MaxCrashesAssumption, MaxStoreErrsAssumption
  <1>1. TypeOK
    BY DEF Init, TypeOK, Jobs, Statuses, ProjStatuses, PCs, Holding, NoJob
  <1>2. CurMatchesPc
    BY DEF Init, CurMatchesPc, Holding
  <1>3. DownIdle
    BY DEF Init, DownIdle
  <1>4. QED
    BY <1>1, <1>2, <1>3 DEF TypeInv

LEMMA TypeOKNext == TypeInv /\ [Next]_vars => TypeOK'
  <1> SUFFICES ASSUME TypeInv, [Next]_vars PROVE TypeOK'
    OBVIOUS
  <1> USE MaxJobsAssumption, MaxCrashesAssumption, MaxStoreErrsAssumption
  <1> USE DEF rowVars, srvVars, workerVars
  <1>1. TypeOK /\ CurMatchesPc
    BY DEF TypeInv
  <1>2. ASSUME NEW p \in Projects, NEW k \in {"index", "resolve"}, Enqueue(p, k)
        PROVE  TypeOK'
    BY <1>1, <1>2 DEF Enqueue, TypeOK, Jobs, Statuses
  <1>3. ASSUME NEW p \in Projects, DeleteProject(p) PROVE TypeOK'
    BY <1>1, <1>3 DEF DeleteProject, TypeOK, Jobs, Statuses, ProjStatuses
  <1>4. ASSUME NEW w \in Workers, WorkerStep(w) PROVE TypeOK'
    <2>1. ASSUME pc[w] \in Holding \cup {"mark"}
          PROVE  cur[w] \in Jobs /\ proj[cur[w]] \in Projects
      BY <1>1, <2>1 DEF TypeOK, CurMatchesPc, NoJob
    <2>2. w[1] \in Servers
      BY DEF Workers
    <2>3. CASE Claim(w)
      <3>1. PICK j \in Jobs : /\ SetStatus(j, "running")
                              /\ fresh' = [fresh EXCEPT ![j] = TRUE]
                              /\ cur' = [cur EXCEPT ![w] = j]
        BY <2>3 DEF Claim
      <3>2. pc' \in [Workers -> PCs]
        BY <1>1, <2>3, GotoType DEF Claim, TypeOK, PCs, Holding
      <3>3. status' \in [Jobs -> Statuses]
        BY <1>1, <3>1, SetStatusType DEF TypeOK, Statuses
      <3>4. QED
        BY <1>1, <2>3, <3>1, <3>2, <3>3 DEF Claim, TypeOK
    <2>4. CASE ClaimNothing(w)
      <3>1. pc' \in [Workers -> PCs]
        BY <1>1, <2>4, GotoType DEF ClaimNothing, TypeOK, PCs, Holding
      <3>2. errs' \in 0 .. MaxStoreErrs
        BY <1>1, <2>4, StoreErrorType DEF ClaimNothing, TypeOK
      <3>3. QED
        BY <1>1, <2>4, <3>1, <3>2 DEF ClaimNothing, TypeOK
    <2>5. CASE Load(w)
      <3>1. Goto(w, "work") \/ Goto(w, "fail")
        BY <2>5 DEF Load
      <3>2. pc' \in [Workers -> PCs]
        BY <1>1, <3>1, GotoType DEF TypeOK, PCs, Holding
      <3>3. errs' \in 0 .. MaxStoreErrs
        BY <1>1, <2>5, StoreErrorType DEF Load, TypeOK
      <3>4. QED
        BY <1>1, <2>5, <3>2, <3>3 DEF Load, TypeOK
    <2>6. CASE Work(w)
      <3>1. pc' \in [Workers -> PCs]
        BY <1>1, <2>6, GotoType DEF Work, TypeOK, PCs, Holding
      <3>2. proj[cur[w]] \in Projects
        BY <2>1, <2>6 DEF Work, Holding
      <3>3. (\E v \in {"ready", "degraded"} : SetProjStatus(proj[cur[w]], v))
              \/ projStatus' = projStatus
        BY <2>6 DEF Work
      <3>4. projStatus' \in [Projects -> ProjStatuses]
        BY <1>1, <3>2, <3>3, SetProjStatusType DEF TypeOK, ProjStatuses
      <3>5. QED
        BY <1>1, <2>6, <3>1, <3>4 DEF Work, TypeOK
    <2>7. CASE WorkFails(w)
      <3>1. pc' \in [Workers -> PCs]
        BY <1>1, <2>7, GotoType DEF WorkFails, TypeOK, PCs, Holding
      <3>2. QED
        BY <1>1, <2>7, <3>1 DEF WorkFails, TypeOK
    <2>8. CASE Complete(w)
      <3>1. pc' \in [Workers -> PCs]
        BY <1>1, <2>8, GotoType DEF Complete, TypeOK, PCs, Holding
      <3>2. cur[w] \in Jobs /\ proj[cur[w]] \in Projects
        BY <2>1, <2>8 DEF Complete, Holding
      <3>3. status' \in [Jobs -> Statuses]
        BY <1>1, <2>8, <3>2, SetStatusType DEF Complete, TypeOK, Statuses
      <3>4. lastOutcome' \in [Projects -> {"none", "ok", "failed"}]
        BY <1>1, <2>8, <3>2 DEF Complete, TypeOK
      <3>5. QED
        BY <1>1, <2>8, <3>1, <3>3, <3>4 DEF Complete, Release, TypeOK
    <2>9. CASE CompleteError(w)
      <3>1. pc' \in [Workers -> PCs]
        BY <1>1, <2>9, GotoType DEF CompleteError, TypeOK, PCs, Holding
      <3>2. errs' \in 0 .. MaxStoreErrs
        BY <1>1, <2>9, StoreErrorType DEF CompleteError, TypeOK
      <3>3. QED
        BY <1>1, <2>9, <3>1, <3>2 DEF CompleteError, TypeOK
    <2>10. CASE Fail(w)
      <3>1. pc' \in [Workers -> PCs]
        BY <1>1, <2>10, GotoType DEF Fail, TypeOK, PCs, Holding
      <3>2. cur[w] \in Jobs /\ proj[cur[w]] \in Projects
        BY <2>1, <2>10 DEF Fail, Holding
      <3>3. status' \in [Jobs -> Statuses]
        BY <1>1, <2>10, <3>2, SetStatusType DEF Fail, TypeOK, Statuses
      <3>4. lastOutcome' \in [Projects -> {"none", "ok", "failed"}]
        BY <1>1, <2>10, <3>2 DEF Fail, TypeOK
      <3>5. errs' \in 0 .. MaxStoreErrs
        BY <1>1, <2>10, StoreErrorType DEF Fail, TypeOK
      <3>6. QED
        BY <1>1, <2>10, <3>1, <3>3, <3>4, <3>5 DEF Fail, TypeOK
    <2>11. CASE Mark(w)
      <3>1. pc' \in [Workers -> PCs]
        BY <1>1, <2>11, GotoType DEF Mark, TypeOK, PCs, Holding
      <3>2. proj[cur[w]] \in Projects
        BY <2>1, <2>11 DEF Mark
      <3>3. projStatus' \in [Projects -> ProjStatuses]
        BY <1>1, <2>11, <3>2, SetProjStatusType DEF Mark, TypeOK, ProjStatuses
      <3>4. errs' \in 0 .. MaxStoreErrs
        BY <1>1, <2>11, StoreErrorType DEF Mark, TypeOK
      <3>5. QED
        BY <1>1, <2>11, <3>1, <3>3, <3>4 DEF Mark, Release, TypeOK
    <2>12. CASE Wake(w)
      <3>1. pc' \in [Workers -> PCs]
        BY <1>1, <2>12, GotoType DEF Wake, TypeOK, PCs, Holding
      <3>2. (notes[w[1]] > 0 /\ notes' = [notes EXCEPT ![w[1]] = @ - 1]) \/ notes' = notes
        BY <2>12 DEF Wake
      <3>3. notes' \in [Servers -> Nat]
        BY <1>1, <2>2, <3>2 DEF TypeOK
      <3>4. QED
        BY <1>1, <2>12, <3>1, <3>3 DEF Wake, TypeOK
    <2>13. CASE Abort(w)
      <3>1. pc' \in [Workers -> PCs]
        BY <1>1, <2>13, GotoType DEF Abort, TypeOK, PCs, Holding
      <3>2. QED
        BY <1>1, <2>13, <3>1 DEF Abort, Release, TypeOK
    <2>14. QED
      BY <1>4, <2>3, <2>4, <2>5, <2>6, <2>7, <2>8, <2>9, <2>10, <2>11, <2>12, <2>13
      DEF WorkerStep
  <1>5. ASSUME NEW w \in Workers, Tick(w) PROVE TypeOK'
    BY <1>1, <1>5 DEF Tick, TypeOK
  <1>6. ASSUME NEW j \in Jobs, Age(j) PROVE TypeOK'
    BY <1>1, <1>6 DEF Age, TypeOK
  <1>7. ASSUME NEW s \in Servers, Start(s) PROVE TypeOK'
    <2>1. status' \in [Jobs -> Statuses] /\ fresh' \in [Jobs -> BOOLEAN]
      <3>1. status' = status \/ status' = [j \in Jobs |-> IF j \in Stale THEN "queued" ELSE status[j]]
        BY <1>7 DEF Start
      <3>2. fresh' = fresh \/ fresh' = [j \in Jobs |-> IF j \in Stale THEN FALSE ELSE fresh[j]]
        BY <1>7 DEF Start
      <3>3. status' \in [Jobs -> Statuses]
        BY <1>1, <3>1 DEF TypeOK, Statuses
      <3>4. fresh' \in [Jobs -> BOOLEAN]
        <4>1. \A j \in Jobs : fresh[j] \in BOOLEAN
          BY <1>1 DEF TypeOK
        <4>2. \A j \in Jobs : (IF j \in Stale THEN FALSE ELSE fresh[j]) \in BOOLEAN
          BY <4>1, Zenon
        <4>3. CASE fresh' = fresh
          BY <1>1, <4>3 DEF TypeOK
        <4>4. CASE fresh' = [j \in Jobs |-> IF j \in Stale THEN FALSE ELSE fresh[j]]
          BY <4>2, <4>4, Zenon
        <4>5. QED
          BY <3>2, <4>3, <4>4
      <3>5. QED
        BY <3>3, <3>4
    <2>2. errs' \in 0 .. MaxStoreErrs
      BY <1>1, <1>7, StoreErrorType DEF Start, TypeOK
    <2>3. srv' \in [Servers -> {"down", "up", "stopping"}]
      BY <1>1, <1>7 DEF Start, TypeOK
    <2>4. listen' \in [Servers -> {"none", "open", "closed"}]
      BY <1>1, <1>7 DEF Start, TypeOK
    <2>5. pc' \in [Workers -> PCs]
      BY <1>1, <1>7 DEF Start, TypeOK, PCs
    <2>6. QED
      BY <1>1, <1>7, <2>1, <2>2, <2>3, <2>4, <2>5 DEF Start, TypeOK
  <1>8. ASSUME NEW s \in Servers, ListenDrops(s) PROVE TypeOK'
    BY <1>1, <1>8 DEF ListenDrops, TypeOK
  <1>9. ASSUME NEW s \in Servers, Shutdown(s) PROVE TypeOK'
    BY <1>1, <1>9 DEF Shutdown, TypeOK
  <1>10. ASSUME NEW s \in Servers, ProcessEnds(s), crashes' \in 0 .. MaxCrashes
         PROVE  TypeOK'
    <2>1. srv' \in [Servers -> {"down", "up", "stopping"}]
      BY <1>1, <1>10 DEF ProcessEnds, TypeOK
    <2>2. listen' \in [Servers -> {"none", "open", "closed"}] /\ notes' \in [Servers -> Nat]
      BY <1>1, <1>10 DEF ProcessEnds, TypeOK
    <2>3. pc' \in [Workers -> PCs] /\ cur' \in [Workers -> Jobs \cup {NoJob}]
      BY <1>1, <1>10 DEF ProcessEnds, TypeOK, PCs
    <2>4. tick' \in [Workers -> BOOLEAN]
      BY <1>1, <1>10 DEF ProcessEnds, TypeOK
    <2>5. QED
      BY <1>1, <1>10, <2>1, <2>2, <2>3, <2>4 DEF ProcessEnds, TypeOK
  <1>11. ASSUME NEW s \in Servers, Exit(s) PROVE TypeOK'
    BY <1>1, <1>10, <1>11 DEF Exit, TypeOK
  <1>12. ASSUME NEW s \in Servers, Crash(s) PROVE TypeOK'
    <2>1. crashes' \in 0 .. MaxCrashes
      BY <1>1, <1>12 DEF Crash, TypeOK
    <2>2. QED
      BY <1>10, <1>12, <2>1 DEF Crash
  <1>13. CASE UNCHANGED vars
    BY <1>1, <1>13 DEF vars, TypeOK
  <1>14. QED
    BY <1>2, <1>3, <1>4, <1>5, <1>6, <1>7, <1>8, <1>9, <1>11, <1>12, <1>13 DEF Next

\* What a worker's step does to the workers: only its own place and job change,
\* and it has a job exactly while it runs one.
LEMMA WorkerMoves ==
  ASSUME TypeInv, NEW w \in Workers, WorkerStep(w)
  PROVE  /\ srv' = srv /\ srv[w[1]] # "down"
         /\ \A v \in Workers \ {w} : pc'[v] = pc[v] /\ cur'[v] = cur[v]
         /\ (pc'[w] \in Holding \cup {"mark"}) <=> (cur'[w] # NoJob)
  <1>1. /\ pc \in [Workers -> PCs] /\ cur \in [Workers -> Jobs \cup {NoJob}]
        /\ (pc[w] \in Holding \cup {"mark"}) <=> (cur[w] # NoJob)
    BY DEF TypeInv, TypeOK, CurMatchesPc
  <1> USE DEF srvVars, Holding
  <1>2. CASE Claim(w)
    <2>1. PICK j \in Jobs : cur' = [cur EXCEPT ![w] = j]
      BY <1>2 DEF Claim
    <2>2. j # NoJob
      BY DEF Jobs, NoJob
    <2>3. QED
      BY <1>1, <1>2, <2>1, <2>2 DEF Claim, Goto, Up
  <1>3. CASE ClaimNothing(w)
    BY <1>1, <1>3 DEF ClaimNothing, Goto, Up
  <1>4. CASE Load(w)
    BY <1>1, <1>4 DEF Load, Goto, Up
  <1>5. CASE Work(w)
    BY <1>1, <1>5 DEF Work, Goto, Up
  <1>6. CASE WorkFails(w)
    BY <1>1, <1>6 DEF WorkFails, Goto, Up
  <1>7. CASE Complete(w)
    BY <1>1, <1>7 DEF Complete, Goto, Release, Up
  <1>8. CASE CompleteError(w)
    BY <1>1, <1>8 DEF CompleteError, Goto, Up
  <1>9. CASE Fail(w)
    BY <1>1, <1>9 DEF Fail, Goto, Up
  <1>10. CASE Mark(w)
    BY <1>1, <1>10 DEF Mark, Goto, Release, Up
  <1>11. CASE Wake(w)
    BY <1>1, <1>11 DEF Wake, Goto, Up
  <1>12. CASE Abort(w)
    BY <1>1, <1>12 DEF Abort, Goto, Release
  <1>13. QED
    BY <1>2, <1>3, <1>4, <1>5, <1>6, <1>7, <1>8, <1>9, <1>10, <1>11, <1>12 DEF WorkerStep

LEMMA ControlNext == TypeInv /\ [Next]_vars => CurMatchesPc' /\ DownIdle'
  <1> SUFFICES ASSUME TypeInv, [Next]_vars PROVE CurMatchesPc' /\ DownIdle'
    OBVIOUS
  <1> USE DEF srvVars, workerVars
  <1>1. TypeOK /\ CurMatchesPc /\ DownIdle
    BY DEF TypeInv
  <1>2. ASSUME UNCHANGED <<srv, pc, cur>> PROVE CurMatchesPc' /\ DownIdle'
    BY <1>1, <1>2 DEF CurMatchesPc, DownIdle
  <1>3. ASSUME NEW w \in Workers, WorkerStep(w) PROVE CurMatchesPc' /\ DownIdle'
    BY <1>1, <1>3, WorkerMoves DEF CurMatchesPc, DownIdle
  <1>4. ASSUME NEW s \in Servers, Start(s) PROVE CurMatchesPc' /\ DownIdle'
    <2>1. /\ srv[s] = "down" /\ srv' = [srv EXCEPT ![s] = "up"] /\ cur' = cur
          /\ pc' = [w \in Workers |-> IF w[1] = s THEN "claim" ELSE pc[w]]
      BY <1>4 DEF Start
    <2>2. \A w \in Workers : w[1] = s => pc[w] = "off" /\ cur[w] = NoJob
      BY <1>1, <2>1 DEF CurMatchesPc, DownIdle, Holding
    <2>3. \A w \in Workers : pc'[w] = IF w[1] = s THEN "claim" ELSE pc[w]
      BY <2>1
    <2>4. CurMatchesPc'
      BY <1>1, <2>1, <2>2, <2>3 DEF CurMatchesPc, Holding
    <2>5. \A w \in Workers : w[1] \in Servers
      BY DEF Workers
    <2>6. DownIdle'
      BY <1>1, <2>1, <2>3, <2>5 DEF DownIdle, TypeOK
    <2>7. QED
      BY <2>4, <2>6
  <1>5. ASSUME NEW s \in Servers, ProcessEnds(s) PROVE CurMatchesPc' /\ DownIdle'
    <2>1. /\ srv' = [srv EXCEPT ![s] = "down"]
          /\ \A w \in Workers : pc'[w] = IF w[1] = s THEN "off" ELSE pc[w]
          /\ \A w \in Workers : cur'[w] = IF w[1] = s THEN NoJob ELSE cur[w]
      BY <1>5 DEF ProcessEnds
    <2>2. CurMatchesPc'
      BY <1>1, <2>1 DEF CurMatchesPc, Holding
    <2>3. \A w \in Workers : w[1] \in Servers
      BY DEF Workers
    <2>4. DownIdle'
      BY <1>1, <2>1, <2>3 DEF DownIdle, TypeOK
    <2>5. QED
      BY <2>2, <2>4
  <1>6. ASSUME NEW s \in Servers, Shutdown(s) PROVE CurMatchesPc' /\ DownIdle'
    <2>1. srv[s] = "up" /\ srv' = [srv EXCEPT ![s] = "stopping"] /\ pc' = pc /\ cur' = cur
      BY <1>6 DEF Shutdown
    <2>2. \A w \in Workers : w[1] \in Servers
      BY DEF Workers
    <2>3. QED
      BY <1>1, <2>1, <2>2 DEF CurMatchesPc, DownIdle, TypeOK
  <1>7. QED
    BY <1>2, <1>3, <1>4, <1>5, <1>6
    DEF Next, vars, Enqueue, DeleteProject, Tick, Age, ListenDrops, Exit, Crash

\* The variables keep their types whatever the deployment: the UPDATEs address
\* existing rows, the counters keep their bounds.
THEOREM TypeCorrect == Spec => []TypeOK
  <1>1. TypeInv /\ [Next]_vars => TypeInv'
    BY TypeOKNext, ControlNext DEF TypeInv
  <1>2. TypeInv => TypeOK
    BY DEF TypeInv
  <1>3. QED
    BY TypeInvInit, <1>1, <1>2, PTL DEF Spec

------------------------------------------------------------------------------
(* Exclusive runners, in a deployment whose processes do not overlap *)

\* At most one process has workers.
OneProcess == \A s, t \in Servers : srv[s] # "down" /\ srv[t] # "down" => s = t

\* Ids at and above the sequence have no row, those below it have one.
Unborn == \A j \in Jobs : status[j] = "none" <=> j >= nextJob

\* The row of a job somebody holds is one nobody can claim or requeue.
HeldStatus ==
  \A w \in Workers :
    /\ pc[w] \in Holding => status[cur[w]] \in {"running", "gone"}
    /\ pc[w] = "mark" => status[cur[w]] \in {"running", "failed", "gone"}

OwnerInv == TypeInv /\ OneProcess /\ Unborn /\ OneRunner /\ HeldStatus

\* OwnerInv in terms of the rows, as the steps below use it.
LEMMA HeldIsTaken ==
  ASSUME OwnerInv, NEW w \in Workers, cur[w] # NoJob
  PROVE  /\ cur[w] \in Jobs
         /\ pc[w] \in Holding \cup {"mark"}
         /\ status[cur[w]] \in {"running", "failed", "gone"}
  BY DEF OwnerInv, TypeInv, TypeOK, CurMatchesPc, HeldStatus, Holding

LEMMA OwnerInvInit == Init => OwnerInv
  <1> SUFFICES ASSUME Init PROVE OwnerInv
    OBVIOUS
  <1>1. Unborn
    BY MaxJobsAssumption DEF Init, Unborn, Jobs
  <1>2. OneProcess /\ OneRunner /\ HeldStatus
    BY DEF Init, OneProcess, OneRunner, HeldStatus, Holding
  <1>3. QED
    BY TypeInvInit, <1>1, <1>2 DEF OwnerInv

\* The processes: one starts only when all the others are down.
LEMMA OneProcessNext ==
  ASSUME ~AllowReplicas, OwnerInv, [Next]_vars
  PROVE  OneProcess'
  <1>1. OneProcess /\ srv \in [Servers -> {"down", "up", "stopping"}]
    BY DEF OwnerInv, TypeInv, TypeOK
  <1>2. CASE srv' = srv
    BY <1>1, <1>2 DEF OneProcess
  <1>3. ASSUME NEW s \in Servers, Start(s) PROVE OneProcess'
    <2>1. \A t \in Servers : srv[t] = "down"
      BY <1>3 DEF Start
    <2>2. \A t \in Servers : srv'[t] # "down" => t = s
      BY <1>1, <1>3, <2>1 DEF Start
    <2>3. QED
      BY <2>2 DEF OneProcess
  <1>4. ASSUME NEW s \in Servers, srv[s] # "down" \/ srv'[s] = "down",
               \E v \in {"down", "up", "stopping"} : srv' = [srv EXCEPT ![s] = v]
        PROVE  OneProcess'
    BY <1>1, <1>4 DEF OneProcess
  <1>5. QED
    <2>1. ASSUME NEW w \in Workers, WorkerStep(w) PROVE srv' = srv
      BY <2>1, WorkerMoves DEF OwnerInv
    <2>2. ASSUME NEW s \in Servers, Shutdown(s) PROVE OneProcess'
      BY <1>1, <1>4, <2>2 DEF Shutdown
    <2>3. ASSUME NEW s \in Servers, ProcessEnds(s) PROVE OneProcess'
      BY <1>1, <1>4, <2>3 DEF ProcessEnds
    <2>4. QED
      BY <1>2, <1>3, <2>1, <2>2, <2>3
      DEF Next, vars, srvVars, Enqueue, DeleteProject, Tick, Age, ListenDrops, Exit, Crash

\* What a worker's step does to the rows: it claims a queued one, it decides the
\* one it holds, or it leaves them alone.
LEMMA WorkerRows ==
  ASSUME OwnerInv, NEW w \in Workers, WorkerStep(w)
  PROVE  /\ nextJob' = nextJob
         /\ \/ /\ cur[w] = NoJob /\ cur'[w] \in Jobs /\ pc'[w] = "load"
               /\ status[cur'[w]] = "queued"
               /\ status' = [status EXCEPT ![cur'[w]] = "running"]
            \/ /\ pc[w] \in Holding /\ cur'[w] = NoJob
               /\ \E v \in Terminal : SetStatus(cur[w], v)
            \/ /\ pc[w] \in Holding /\ cur'[w] = cur[w] /\ pc'[w] = "mark"
               /\ SetStatus(cur[w], "failed")
            \/ /\ status' = status /\ cur'[w] = cur[w]
               /\ pc[w] \in Holding /\ pc'[w] \in Holding \cup {"mark"}
            \/ status' = status /\ cur'[w] = NoJob
  <1>1. /\ pc \in [Workers -> PCs] /\ cur \in [Workers -> Jobs \cup {NoJob}]
        /\ status \in [Jobs -> Statuses]
        /\ (pc[w] \in Holding \cup {"mark"}) <=> (cur[w] # NoJob)
    BY DEF OwnerInv, TypeInv, TypeOK, CurMatchesPc
  <1> USE DEF rowVars, Holding
  <1>2. CASE Claim(w)
    <2>1. PICK j \in Jobs : /\ Oldest(j) /\ SetStatus(j, "running")
                            /\ cur' = [cur EXCEPT ![w] = j]
      BY <1>2 DEF Claim
    <2>2. status[j] = "queued"
      BY <2>1 DEF Oldest, Queued
    <2>3. cur[w] = NoJob /\ cur'[w] = j /\ pc'[w] = "load" /\ nextJob' = nextJob
      BY <1>1, <1>2, <2>1 DEF Claim, Goto
    <2>4. status' = [status EXCEPT ![j] = "running"]
      BY <1>1, <2>1, <2>2 DEF SetStatus
    <2>5. QED
      BY <2>2, <2>3, <2>4
  <1>3. CASE ClaimNothing(w)
    BY <1>1, <1>3 DEF ClaimNothing
  <1>4. CASE Load(w)
    BY <1>1, <1>4 DEF Load, Goto
  <1>5. CASE Work(w)
    BY <1>1, <1>5 DEF Work, Goto
  <1>6. CASE WorkFails(w)
    BY <1>1, <1>6 DEF WorkFails, Goto
  <1>7. CASE Complete(w)
    BY <1>1, <1>7 DEF Complete, Release, Terminal
  <1>8. CASE CompleteError(w)
    BY <1>1, <1>8 DEF CompleteError, Goto
  <1>9. CASE Fail(w)
    <2>1. pc[w] \in Holding /\ cur'[w] = cur[w] /\ pc'[w] = "mark" /\ nextJob' = nextJob
      BY <1>1, <1>9 DEF Fail, Goto
    <2>2. SetStatus(cur[w], "failed") \/ status' = status
      BY <1>9 DEF Fail
    <2>3. QED
      BY <2>1, <2>2 DEF Terminal
  <1>10. CASE Mark(w)
    BY <1>1, <1>10 DEF Mark, Release
  <1>11. CASE Wake(w)
    BY <1>1, <1>11 DEF Wake
  <1>12. CASE Abort(w)
    BY <1>1, <1>12 DEF Abort, Release
  <1>13. QED
    BY <1>2, <1>3, <1>4, <1>5, <1>6, <1>7, <1>8, <1>9, <1>10, <1>11, <1>12 DEF WorkerStep

LEMMA OwnerInvWorker ==
  ASSUME OwnerInv, NEW w \in Workers, WorkerStep(w)
  PROVE  Unborn' /\ OneRunner' /\ HeldStatus'
  <1>1. /\ \A v \in Workers \ {w} : pc'[v] = pc[v] /\ cur'[v] = cur[v]
        /\ (pc'[w] \in Holding \cup {"mark"}) <=> (cur'[w] # NoJob)
        /\ nextJob' = nextJob
    BY WorkerMoves, WorkerRows DEF OwnerInv
  <1>2. /\ Unborn /\ OneRunner /\ HeldStatus /\ CurMatchesPc
        /\ status \in [Jobs -> Statuses] /\ cur \in [Workers -> Jobs \cup {NoJob}]
    BY DEF OwnerInv, TypeInv, TypeOK
  <1>3. \A v \in Workers : cur[v] # NoJob =>
           cur[v] \in Jobs /\ status[cur[v]] \in {"running", "failed", "gone"}
    BY HeldIsTaken
  <1>4. \A v \in Workers : (pc[v] \in Holding \cup {"mark"}) <=> (cur[v] # NoJob)
    BY <1>2 DEF CurMatchesPc
  <1>5. CASE /\ cur[w] = NoJob /\ cur'[w] \in Jobs /\ pc'[w] = "load"
             /\ status[cur'[w]] = "queued"
             /\ status' = [status EXCEPT ![cur'[w]] = "running"]
    <2>1. \A v \in Workers \ {w} : cur[v] # cur'[w]
      BY <1>3, <1>5 DEF Jobs, NoJob
    <2>2. \A j \in Jobs : status'[j] = IF j = cur'[w] THEN "running" ELSE status[j]
      BY <1>2, <1>5
    <2>3. OneRunner'
      BY <1>1, <1>2, <2>1 DEF OneRunner
    <2>4. Unborn'
      BY <1>1, <1>2, <1>5, <2>2 DEF Unborn
    <2>5. HeldStatus'
      BY <1>1, <1>2, <1>3, <1>4, <1>5, <2>1, <2>2 DEF HeldStatus, Holding
    <2>6. QED
      BY <2>3, <2>4, <2>5
  <1>6. ASSUME pc[w] \in Holding,
               cur'[w] = NoJob \/ (cur'[w] = cur[w] /\ pc'[w] = "mark"),
               NEW t \in Terminal, SetStatus(cur[w], t),
               pc'[w] = "mark" => t = "failed"
        PROVE  Unborn' /\ OneRunner' /\ HeldStatus'
    <2>2. cur[w] \in Jobs /\ status[cur[w]] \in {"running", "gone"}
      BY <1>2, <1>3, <1>4, <1>6 DEF HeldStatus
    <2>3. /\ \A j \in Jobs \ {cur[w]} : status'[j] = status[j]
          /\ status'[cur[w]] \in {t, "gone"}
      BY <1>2, <1>6, <2>2 DEF SetStatus
    <2>4. OneRunner'
      BY <1>1, <1>2, <1>6 DEF OneRunner
    <2>5. Unborn'
      BY <1>1, <1>2, <2>2, <2>3 DEF Unborn, Terminal
    <2>6. \A v \in Workers \ {w} : cur[v] # NoJob => cur[v] # cur[w]
      BY <1>2 DEF OneRunner
    <2>7. ASSUME NEW v \in Workers \ {w}
          PROVE  /\ pc'[v] \in Holding => status'[cur'[v]] \in {"running", "gone"}
                 /\ pc'[v] = "mark" => status'[cur'[v]] \in {"running", "failed", "gone"}
      <3>1. pc'[v] = pc[v] /\ cur'[v] = cur[v]
        BY <1>1
      <3>2. CASE cur[v] = NoJob
        BY <1>4, <3>1, <3>2
      <3>3. CASE cur[v] # NoJob
        <4>1. status'[cur[v]] = status[cur[v]]
          BY <1>3, <2>3, <2>6, <3>3
        <4>2. QED
          BY <1>2, <3>1, <4>1 DEF HeldStatus
      <3>4. QED
        BY <3>2, <3>3
    <2>8. /\ pc'[w] \notin Holding
          /\ pc'[w] = "mark" => status'[cur'[w]] \in {"running", "failed", "gone"}
      BY <1>1, <1>6, <2>3 DEF Holding
    <2>9. HeldStatus'
      BY <2>7, <2>8 DEF HeldStatus
    <2>10. QED
      BY <2>4, <2>5, <2>9
  <1>7. CASE /\ status' = status
             /\ \/ cur'[w] = NoJob
                \/ /\ cur'[w] = cur[w] /\ pc[w] \in Holding
                   /\ pc'[w] \in Holding \cup {"mark"}
    <2>1. OneRunner' /\ Unborn'
      BY <1>1, <1>2, <1>7 DEF OneRunner, Unborn
    <2>2. HeldStatus'
      BY <1>1, <1>2, <1>4, <1>7 DEF HeldStatus, Holding
    <2>3. QED
      BY <2>1, <2>2
  <1>8. ASSUME pc[w] \in Holding, cur'[w] = NoJob, NEW t \in Terminal, SetStatus(cur[w], t)
        PROVE  Unborn' /\ OneRunner' /\ HeldStatus'
    <2>1. pc'[w] # "mark"
      BY <1>1, <1>8
    <2>2. QED
      BY <1>6, <1>8, <2>1
  <1>9. ASSUME pc[w] \in Holding, cur'[w] = cur[w], pc'[w] = "mark", SetStatus(cur[w], "failed")
        PROVE  Unborn' /\ OneRunner' /\ HeldStatus'
    BY <1>6, <1>9 DEF Terminal
  <1>10. QED
    BY <1>5, <1>7, <1>8, <1>9, WorkerRows

LEMMA OwnerInvNext ==
  ASSUME ~AllowReplicas, OwnerInv, [Next]_vars
  PROVE  OwnerInv'
  <1>1. TypeInv' /\ OneProcess'
    BY TypeOKNext, ControlNext, OneProcessNext DEF OwnerInv, TypeInv
  <1>2. /\ TypeOK /\ CurMatchesPc /\ DownIdle
        /\ Unborn /\ OneRunner /\ HeldStatus
    BY DEF OwnerInv, TypeInv
  <1>3. \A v \in Workers : cur[v] # NoJob =>
           cur[v] \in Jobs /\ status[cur[v]] \in {"running", "failed", "gone"}
    BY HeldIsTaken
  <1>4. \A v \in Workers : (pc[v] \in Holding \cup {"mark"}) <=> (cur[v] # NoJob)
    BY <1>2 DEF CurMatchesPc
  <1> USE DEF rowVars, srvVars, workerVars
  <1>5. ASSUME UNCHANGED <<status, nextJob, pc, cur>>
        PROVE  Unborn' /\ OneRunner' /\ HeldStatus'
    BY <1>2, <1>5 DEF Unborn, OneRunner, HeldStatus
  <1>6. ASSUME NEW p \in Projects, NEW k \in {"index", "resolve"}, Enqueue(p, k)
        PROVE  Unborn' /\ OneRunner' /\ HeldStatus'
    <2>1. /\ nextJob \in Jobs /\ nextJob' = nextJob + 1 /\ pc' = pc /\ cur' = cur
          /\ status[nextJob] = "none"
          /\ \A j \in Jobs : status'[j] = IF j = nextJob THEN "queued" ELSE status[j]
      BY <1>2, <1>6, MaxJobsAssumption DEF Enqueue, TypeOK, Jobs, Unborn
    <2>2. Unborn'
      BY <1>2, <2>1 DEF Unborn, Jobs
    <2>3. OneRunner'
      BY <1>2, <2>1 DEF OneRunner
    <2>4. \A v \in Workers : cur[v] # NoJob => status'[cur[v]] = status[cur[v]]
      BY <1>3, <2>1
    <2>5. HeldStatus'
      BY <1>2, <1>4, <2>1, <2>4 DEF HeldStatus, Holding
    <2>6. QED
      BY <2>2, <2>3, <2>5
  <1>7. ASSUME NEW p \in Projects, DeleteProject(p)
        PROVE  Unborn' /\ OneRunner' /\ HeldStatus'
    <2>1. /\ nextJob' = nextJob /\ pc' = pc /\ cur' = cur
          /\ \A j \in Jobs : status'[j] = "none" <=> status[j] = "none"
          /\ \A j \in Jobs : status'[j] \in {status[j], "gone"}
      BY <1>2, <1>7 DEF DeleteProject
    <2>2. Unborn'
      BY <1>2, <2>1 DEF Unborn
    <2>3. OneRunner'
      BY <1>2, <2>1 DEF OneRunner
    <2>4. HeldStatus'
      BY <1>2, <1>3, <1>4, <2>1 DEF HeldStatus, Holding
    <2>5. QED
      BY <2>2, <2>3, <2>4
  <1>8. ASSUME NEW s \in Servers, Start(s)
        PROVE  Unborn' /\ OneRunner' /\ HeldStatus'
    <2>1. \A t \in Servers : srv[t] = "down"
      BY <1>8 DEF Start
    <2>2. \A w \in Workers : pc[w] = "off" /\ cur[w] = NoJob
      BY <1>2, <1>4, <2>1 DEF DownIdle, Workers, Holding
    <2>3. cur' = cur /\ nextJob' = nextJob
      BY <1>8 DEF Start
    <2>4. \A w \in Workers : pc'[w] \in {"claim", "off"}
      BY <1>8, <2>2 DEF Start
    <2>5. \A j \in Jobs : status'[j] = "none" <=> status[j] = "none"
      BY <1>8 DEF Start, Stale
    <2>6. Unborn'
      BY <1>2, <2>3, <2>5 DEF Unborn
    <2>7. QED
      BY <2>2, <2>3, <2>4, <2>6 DEF OneRunner, HeldStatus, Holding
  <1>9. ASSUME NEW s \in Servers, ProcessEnds(s)
        PROVE  Unborn' /\ OneRunner' /\ HeldStatus'
    <2>1. /\ status' = status /\ nextJob' = nextJob
          /\ \A w \in Workers : pc'[w] = IF w[1] = s THEN "off" ELSE pc[w]
          /\ \A w \in Workers : cur'[w] = IF w[1] = s THEN NoJob ELSE cur[w]
      BY <1>9 DEF ProcessEnds
    <2>2. Unborn' /\ OneRunner'
      BY <1>2, <2>1 DEF Unborn, OneRunner
    <2>3. HeldStatus'
      BY <1>2, <1>4, <2>1 DEF HeldStatus, Holding
    <2>4. QED
      BY <2>2, <2>3
  <1>10. Unborn' /\ OneRunner' /\ HeldStatus'
    BY <1>5, <1>6, <1>7, <1>8, <1>9, OwnerInvWorker
    DEF Next, vars, Tick, Age, ListenDrops, Shutdown, Exit, Crash
  <1>11. QED
    BY <1>1, <1>10 DEF OwnerInv

\* A job that somebody else is running, or that is decided, keeps its outcome in
\* every step from a state in which owners are exclusive.
LEMMA OutcomeKept ==
  ASSUME OwnerInv, [Next]_vars, NEW j \in Jobs, status[j] \in Terminal
  PROVE  status'[j] \in {status[j], "gone"}
  <1>1. TypeOK /\ Unborn
    BY DEF OwnerInv, TypeInv
  <1> USE DEF rowVars, srvVars, workerVars, Terminal
  <1>2. CASE status' = status
    BY <1>2
  <1>3. ASSUME NEW w \in Workers, WorkerStep(w) PROVE status'[j] \in {status[j], "gone"}
    <2>1. pc[w] \in Holding => status[cur[w]] \in {"running", "gone"}
      BY DEF OwnerInv, HeldStatus
    <2>2. ASSUME pc[w] \in Holding, NEW v \in Terminal, SetStatus(cur[w], v)
          PROVE  status'[j] = status[j]
      BY <1>1, <2>1, <2>2 DEF SetStatus, TypeOK
    <2>3. ASSUME NEW k \in Jobs, status[k] = "queued", status' = [status EXCEPT ![k] = "running"]
          PROVE  status'[j] = status[j]
      BY <1>1, <2>3 DEF TypeOK
    <2>4. QED
      BY <1>2, <1>3, <2>2, <2>3, WorkerRows
  <1>4. ASSUME NEW p \in Projects, NEW k \in {"index", "resolve"}, Enqueue(p, k)
        PROVE  status'[j] \in {status[j], "gone"}
    BY <1>1, <1>4, MaxJobsAssumption DEF Enqueue, TypeOK, Unborn, Jobs
  <1>5. ASSUME NEW p \in Projects, DeleteProject(p) PROVE status'[j] \in {status[j], "gone"}
    BY <1>5 DEF DeleteProject
  <1>6. ASSUME NEW s \in Servers, Start(s) PROVE status'[j] \in {status[j], "gone"}
    BY <1>6 DEF Start, Stale
  <1>7. QED
    BY <1>2, <1>3, <1>4, <1>5, <1>6
    DEF Next, vars, Tick, Age, ListenDrops, Shutdown, Exit, Crash, ProcessEnds

\* No job ever has two runners, for any number of jobs, workers, crashes and
\* restarts, as long as processes do not overlap (ClaimJob, RequeueStaleJobs).
THEOREM ExclusiveRunners == ~AllowReplicas /\ Spec => [](OneRunner /\ HeldJobRunning)
  <1> SUFFICES ASSUME ~AllowReplicas PROVE Spec => [](OneRunner /\ HeldJobRunning)
    OBVIOUS
  <1>1. OwnerInv /\ [Next]_vars => OwnerInv'
    BY OwnerInvNext
  <1>2. OwnerInv => OneRunner /\ HeldJobRunning
    BY DEF OwnerInv, HeldStatus, HeldJobRunning
  <1>3. QED
    BY OwnerInvInit, <1>1, <1>2, PTL DEF Spec

\* Although CompleteJob and FailJob do not look at the status they replace, an
\* outcome once written is final, as long as processes do not overlap.
THEOREM OutcomesAreFinal == ~AllowReplicas /\ Spec => OutcomeIsFinal
  <1> SUFFICES ASSUME ~AllowReplicas PROVE Spec => OutcomeIsFinal
    OBVIOUS
  <1> DEFINE Kept == \A j \in Jobs : status[j] \in Terminal => status'[j] \in {status[j], "gone"}
  <1>1. OwnerInv /\ [Next]_vars => OwnerInv'
    BY OwnerInvNext
  <1>2. OwnerInv /\ [Next]_vars => [Kept]_vars
    BY OutcomeKept
  <1>3. Spec => [][Kept]_vars
    BY OwnerInvInit, <1>1, <1>2, PTL DEF Spec
  <1>4. QED
    BY <1>3 DEF OutcomeIsFinal
------------------------------------------------------------------------------
(* The ledger: an overlapping-free deployment implements JobLedger *)

\* The worker that owns a job, for the refinement: the one that still decides it.
Deciding(w, j) == cur[w] = j /\ pc[w] \in Holding /\ status[j] = "running"

\* The owner of a job is the one worker that decides it.
OwnersNamed ==
  \A j \in Jobs :
    /\ \A w \in Workers : Deciding(w, j) => OwnerOf(j) = w
    /\ (\A w \in Workers : ~Deciding(w, j)) => OwnerOf(j) = NoOwner

LEMMA OwnerInvNames == OwnerInv => OwnersNamed
  <1> SUFFICES ASSUME OwnerInv, NEW j \in Jobs
               PROVE  /\ \A w \in Workers : Deciding(w, j) => OwnerOf(j) = w
                      /\ (\A w \in Workers : ~Deciding(w, j)) => OwnerOf(j) = NoOwner
    BY DEF OwnersNamed
  <1>1. ASSUME NEW w \in Workers, Deciding(w, j) PROVE OwnerOf(j) = w
    <2>1. j # NoJob
      BY DEF Jobs, NoJob
    <2>2. \A v \in Workers : cur[v] = j /\ pc[v] \in Holding => v = w
      BY <1>1, <2>1 DEF Deciding, OwnerInv, OneRunner
    <2>3. OwnerOf(j) = CHOOSE v \in Workers : cur[v] = j /\ pc[v] \in Holding
      BY <1>1 DEF Deciding, OwnerOf
    <2>4. QED
      BY <1>1, <2>2, <2>3 DEF Deciding
  <1>2. ASSUME \A w \in Workers : ~Deciding(w, j) PROVE OwnerOf(j) = NoOwner
    BY <1>2 DEF Deciding, OwnerOf
  <1>3. QED
    BY <1>1, <1>2

LEMMA WorkerIsOwner == ASSUME NEW w \in Workers PROVE w # NoOwner
  BY DEF Workers, NoOwner


LEMMA LedgerInit == Init => Ledger!Init
  <1> SUFFICES ASSUME Init PROVE Ledger!Init
    OBVIOUS
  <1>1. \A j \in Jobs : OwnerOf(j) = NoOwner
    BY DEF Init, OwnerOf, Holding
  <1>2. QED
    BY <1>1 DEF Init, Ledger!Init

\* A step that writes no row and gives no worker a job to decide is one in which
\* owners only disappear.
LEMMA OwnersDisappear ==
  ASSUME OwnersNamed, OwnersNamed', status' = status,
         \A w \in Workers : pc'[w] \in Holding => pc[w] \in Holding /\ cur'[w] = cur[w]
  PROVE  Ledger!Next
  <1> DEFINE Lost == {j \in Jobs : \A w \in Workers : ~(cur'[w] = j /\ pc'[w] \in Holding
                                                        /\ status'[j] = "running")}
  <1>1. ASSUME NEW j \in Jobs
        PROVE  OwnerOf(j)' = IF j \in Lost THEN NoOwner ELSE OwnerOf(j)
    <2>1. CASE j \in Lost
      BY <2>1 DEF OwnersNamed, Deciding
    <2>2. CASE j \notin Lost
      <3>1. PICK w \in Workers : cur'[w] = j /\ pc'[w] \in Holding /\ status'[j] = "running"
        BY <2>2
      <3>2. OwnerOf(j)' = w
        BY <3>1 DEF OwnersNamed, Deciding
      <3>3. OwnerOf(j) = w
        BY <3>1 DEF OwnersNamed, Deciding
      <3>4. QED
        BY <2>2, <3>2, <3>3
    <2>3. QED
      BY <2>1, <2>2
  <1>2. Ledger!Abandon(Lost)
    BY <1>1 DEF Ledger!Abandon
  <1>3. Lost \in SUBSET Jobs
    OBVIOUS
  <1>4. QED
    BY <1>2, <1>3 DEF Ledger!Next

\* A worker's step: it claims a job, decides it, or leaves it.
LEMMA LedgerWorker ==
  ASSUME OwnerInv, OwnerInv', NEW w \in Workers, WorkerStep(w)
  PROVE  Ledger!Next
  <1>1. OwnersNamed /\ OwnersNamed'
    BY OwnerInvNames, PTL
  <1>2. /\ status \in [Jobs -> Statuses] /\ cur \in [Workers -> Jobs \cup {NoJob}]
        /\ (pc[w] \in Holding \cup {"mark"}) <=> (cur[w] # NoJob)
        /\ OneRunner
    BY DEF OwnerInv, TypeInv, TypeOK, CurMatchesPc
  <1>3. \A v \in Workers \ {w} : pc'[v] = pc[v] /\ cur'[v] = cur[v]
    BY WorkerMoves DEF OwnerInv
  <1>4. (pc'[w] \in Holding \cup {"mark"}) <=> (cur'[w] # NoJob)
    BY WorkerMoves DEF OwnerInv
  <1>5. CASE /\ cur[w] = NoJob /\ cur'[w] \in Jobs /\ pc'[w] = "load"
             /\ status[cur'[w]] = "queued"
             /\ status' = [status EXCEPT ![cur'[w]] = "running"]
    <2>0. PICK j \in Jobs : j = cur'[w]
      BY <1>5
    <2>1. OwnerOf(j)' = w
      BY <1>1, <1>2, <1>5, <2>0 DEF OwnersNamed, Deciding, Holding
    <2>2. ASSUME NEW k \in Jobs \ {j} PROVE OwnerOf(k)' = OwnerOf(k)
      <3>1. status'[k] = status[k]
        BY <1>2, <1>5, <2>0, <2>2
      <3>2. \A v \in Workers : Deciding(v, k)' <=> Deciding(v, k)
        BY <1>2, <1>3, <1>5, <2>0, <2>2, <3>1 DEF Deciding, Holding
      <3>3. QED
        BY <1>1, <2>2, <3>2 DEF OwnersNamed
    <2>3. [k \in Jobs |-> OwnerOf(k)]' = [[k \in Jobs |-> OwnerOf(k)] EXCEPT ![j] = w]
      BY <2>1, <2>2
    <2>4. Ledger!Claim(j, w)
      BY <1>5, <2>0, <2>3 DEF Ledger!Claim
    <2>5. QED
      BY <2>4 DEF Ledger!Next
  <1>6. ASSUME pc[w] \in Holding, pc'[w] \notin Holding,
               NEW t \in Terminal, SetStatus(cur[w], t)
        PROVE  Ledger!Next
    <2>0. PICK j \in Jobs : j = cur[w]
      BY <1>2, <1>6
    <2>1. status[j] \in {"running", "gone"}
      BY <1>6, <2>0 DEF OwnerInv, HeldStatus
    <2>2. CASE status[j] = "gone"
      <3>1. status' = status
        BY <1>2, <1>6, <2>0, <2>2 DEF SetStatus
      <3>2. QED
        BY <1>1, <1>3, <1>6, <3>1, OwnersDisappear
    <2>3. CASE status[j] = "running"
      <3>1. status' = [status EXCEPT ![j] = t]
        BY <1>2, <1>6, <2>0, <2>3 DEF SetStatus
      <3>2. OwnerOf(j) = w
        BY <1>1, <1>6, <2>0, <2>3 DEF OwnersNamed, Deciding
      <3>3. OwnerOf(j)' = NoOwner
        BY <1>1, <1>2, <3>1 DEF OwnersNamed, Deciding, Terminal
      <3>4. ASSUME NEW k \in Jobs \ {j} PROVE OwnerOf(k)' = OwnerOf(k)
        <4>1. status'[k] = status[k]
          BY <1>2, <3>1, <3>4
        <4>2. \A v \in Workers : Deciding(v, k)' <=> Deciding(v, k)
          BY <1>3, <1>6, <2>0, <3>4, <4>1 DEF Deciding
        <4>3. QED
          BY <1>1, <3>4, <4>2 DEF OwnersNamed
      <3>5. [k \in Jobs |-> OwnerOf(k)]' = [[k \in Jobs |-> OwnerOf(k)] EXCEPT ![j] = NoOwner]
        BY <3>3, <3>4
      <3>6. Ledger!Finish(j, t)
        BY <2>3, <3>1, <3>2, <3>5, WorkerIsOwner DEF Ledger!Finish
      <3>7. t \in Ledger!Outcomes
        BY DEF Ledger!Outcomes, Terminal
      <3>8. QED
        BY <3>6, <3>7 DEF Ledger!Next
    <2>4. QED
      BY <2>1, <2>2, <2>3
  <1>7. CASE /\ status' = status
             /\ \/ cur'[w] = NoJob
                \/ cur'[w] = cur[w] /\ pc[w] \in Holding
    <2>1. pc'[w] \in Holding => pc[w] \in Holding /\ cur'[w] = cur[w]
      BY <1>4, <1>7
    <2>2. QED
      BY <1>1, <1>3, <1>7, <2>1, OwnersDisappear
  <1>8. QED
    BY <1>4, <1>5, <1>6, <1>7, WorkerRows DEF Holding, Terminal

LEMMA LedgerEnqueue ==
  ASSUME OwnerInv, OwnerInv', NEW p \in Projects, NEW k \in {"index", "resolve"}, Enqueue(p, k)
  PROVE  Ledger!Next
  <1>1. OwnersNamed /\ OwnersNamed'
    BY OwnerInvNames, PTL
  <1>2. PICK j \in Jobs : j = nextJob
    BY MaxJobsAssumption DEF OwnerInv, TypeInv, TypeOK, Enqueue, Jobs
  <1>3. status[j] = "none" /\ status' = [status EXCEPT ![j] = "queued"]
    BY <1>2 DEF OwnerInv, Unborn, TypeInv, TypeOK, Enqueue, Jobs
  <1>4. ASSUME NEW i \in Jobs PROVE OwnerOf(i)' = OwnerOf(i)
    <2>1. \A w \in Workers : Deciding(w, i)' <=> Deciding(w, i)
      BY <1>3 DEF Enqueue, workerVars, Deciding, OwnerInv, TypeInv, TypeOK
    <2>2. QED
      BY <1>1, <2>1 DEF OwnersNamed
  <1>5. Ledger!Enqueue(j)
    BY <1>3, <1>4 DEF Ledger!Enqueue
  <1>6. QED
    BY <1>5 DEF Ledger!Next

LEMMA LedgerDelete ==
  ASSUME OwnerInv, OwnerInv', NEW p \in Projects, DeleteProject(p)
  PROVE  Ledger!Next
  <1> DEFINE Gone == {j \in Jobs : status[j] # "none" /\ proj[j] = p}
  <1>1. OwnersNamed /\ OwnersNamed'
    BY OwnerInvNames, PTL
  <1>2. status' = [j \in Jobs |-> IF j \in Gone THEN "gone" ELSE status[j]]
    BY DEF DeleteProject
  <1>3. ASSUME NEW j \in Jobs
        PROVE  OwnerOf(j)' = IF j \in Gone THEN NoOwner ELSE OwnerOf(j)
    <2>1. CASE j \in Gone
      <3>1. \A w \in Workers : ~Deciding(w, j)'
        BY <1>2, <2>1 DEF Deciding
      <3>2. QED
        BY <1>1, <2>1, <3>1 DEF OwnersNamed
    <2>2. CASE j \notin Gone
      <3>1. \A w \in Workers : Deciding(w, j)' <=> Deciding(w, j)
        BY <1>2, <2>2 DEF DeleteProject, workerVars, Deciding
      <3>2. QED
        BY <1>1, <2>2, <3>1 DEF OwnersNamed
    <2>3. QED
      BY <2>1, <2>2
  <1>4. Ledger!Remove(Gone)
    BY <1>2, <1>3 DEF Ledger!Remove
  <1>5. Gone \in SUBSET Jobs
    OBVIOUS
  <1>6. QED
    BY <1>4, <1>5 DEF Ledger!Next

\* A process starts when no other is up, so nobody owns the jobs it requeues.
LEMMA LedgerStart ==
  ASSUME ~AllowReplicas, OwnerInv, OwnerInv', NEW s \in Servers, Start(s)
  PROVE  Ledger!Next
  <1>1. OwnersNamed /\ OwnersNamed'
    BY OwnerInvNames, PTL
  <1>2. \A w \in Workers : pc[w] \notin Holding /\ pc'[w] \notin Holding
    BY DEF Start, OwnerInv, TypeInv, DownIdle, Workers, Holding
  <1>3. CASE status' = status
    BY <1>1, <1>2, <1>3, OwnersDisappear
  <1>4. CASE status' = [j \in Jobs |-> IF j \in Stale THEN "queued" ELSE status[j]]
    <2>1. \A j \in Jobs : OwnerOf(j) = NoOwner /\ OwnerOf(j)' = NoOwner
      BY <1>1, <1>2 DEF OwnersNamed, Deciding
    <2>2. Ledger!Requeue(Stale)
      BY <1>4, <2>1 DEF Ledger!Requeue, Stale
    <2>3. Stale \in SUBSET Jobs
      BY DEF Stale
    <2>4. QED
      BY <2>2, <2>3 DEF Ledger!Next
  <1>5. QED
    BY <1>3, <1>4 DEF Start

LEMMA LedgerNext ==
  ASSUME ~AllowReplicas, OwnerInv, OwnerInv', [Next]_vars
  PROVE  [Ledger!Next]_Ledger!vars
  <1> USE DEF rowVars, srvVars, workerVars
  <1>1. OwnersNamed /\ OwnersNamed'
    BY OwnerInvNames, PTL
  <1>2. ASSUME status' = status, pc' = pc, cur' = cur PROVE Ledger!Next
    BY <1>1, <1>2, OwnersDisappear
  <1>3. ASSUME NEW s \in Servers, ProcessEnds(s) PROVE Ledger!Next
    <2>1. status' = status
      BY <1>3 DEF ProcessEnds
    <2>2. \A w \in Workers : pc'[w] \in Holding => pc[w] \in Holding /\ cur'[w] = cur[w]
      BY <1>3 DEF ProcessEnds, Holding
    <2>3. QED
      BY <1>1, <2>1, <2>2, OwnersDisappear
  <1>4. QED
    BY <1>2, <1>3, LedgerEnqueue, LedgerDelete, LedgerWorker, LedgerStart
    DEF Next, vars, Tick, Age, ListenDrops, Shutdown, Exit, Crash

\* The queue keeps what JobLedger promises, as long as processes do not overlap:
\* only the worker that claimed a job decides it, an outcome is final, and a job
\* is requeued only once nobody owns it.
THEOREM QueueImplementsLedger == ~AllowReplicas /\ Spec => ImplementsLedger
  <1> SUFFICES ASSUME ~AllowReplicas PROVE Spec => ImplementsLedger
    OBVIOUS
  <1>1. OwnerInv /\ [Next]_vars => OwnerInv'
    BY OwnerInvNext
  <1>2. OwnerInv /\ OwnerInv' /\ [Next]_vars => [Ledger!Next]_Ledger!vars
    BY LedgerNext
  <1>3. QED
    BY OwnerInvInit, LedgerInit, <1>1, <1>2, PTL DEF Spec, ImplementsLedger, Ledger!Spec

------------------------------------------------------------------------------
(* DepGraph: naturals and functions defined step by step. *)

Least(S) == CHOOSE x \in S : \A j \in S : x <= j

\* A nonempty set of naturals has a least element.
LEMMA LeastIs ==
  ASSUME NEW S \in SUBSET Nat, S # {}
  PROVE  Least(S) \in S /\ \A j \in S : Least(S) <= j
<1> DEFINE R == OpToRel(<, Nat)
<1>1. IsWellFoundedOn(R, Nat)
  BY NatLessThanWellFounded
<1>2. \A x, y \in Nat : y < x => <<y, x>> \in R
  <2> SUFFICES ASSUME NEW x \in Nat, NEW y \in Nat, y < x PROVE <<y, x>> \in R
    OBVIOUS
  <2> DEFINE t == <<y, x>>
  <2>1. t \in Nat \X Nat /\ t[1] < t[2]
    OBVIOUS
  <2>2. QED
    BY <2>1, Zenon DEF OpToRel
<1> HIDE DEF R
<1>3. PICK x \in S : \A y \in S : ~ (<<y, x>> \in R)
  BY <1>1, WFMin
<1>4. ASSUME NEW y \in S PROVE x <= y
  <2>1. x \in Nat /\ y \in Nat
    OBVIOUS
  <2>2. ~ (y < x)
    BY <1>2, <1>3, <2>1, Zenon
  <2>3. QED
    BY <2>1, <2>2
<1>5. \E i \in S : \A j \in S : i <= j
  BY <1>4
<1>6. QED
  BY <1>5, Zenon DEF Least

\* A function defined step by step exists: the least length for which none
\* does is a length for which one more step makes one.
LEMMA StepByStep ==
  ASSUME NEW S, NEW start \in S, NEW n \in Nat, NEW step \in [1 .. n -> [S -> S]]
  PROVE  \E f \in [0 .. n -> S] : f[0] = start /\ \A i \in 1 .. n : f[i] = step[i][f[i - 1]]
  <1> DEFINE Good(m) == \E f \in [0 .. m -> S] : f[0] = start /\ \A i \in 1 .. m : f[i] = step[i][f[i - 1]]
             Bad == {m \in 0 .. n : ~Good(m)}
  <1>1. ASSUME Bad # {} PROVE FALSE
    <2>1. Bad \in SUBSET Nat
      OBVIOUS
    <2>2. PICK m \in Bad : \A j \in Bad : m <= j
      BY <1>1, <2>1, LeastIs
    <2>3. Good(0)
      <3> DEFINE f == [i \in 0 .. 0 |-> start]
      <3>1. f \in [0 .. 0 -> S] /\ f[0] = start /\ \A i \in 1 .. 0 : f[i] = step[i][f[i - 1]]
        OBVIOUS
      <3>2. QED
        BY <3>1, Zenon
    <2>4. m \in 1 .. n /\ m - 1 \in 0 .. n /\ ~(m <= m - 1)
      <3>1. m \in 0 .. n /\ m # 0
        BY <2>3
      <3>2. QED
        BY <3>1
    <2>5. Good(m - 1)
      BY <2>2, <2>4, Zenon
    <2>6. PICK f \in [0 .. (m - 1) -> S] : f[0] = start /\ \A i \in 1 .. (m - 1) : f[i] = step[i][f[i - 1]]
      BY <2>5, Zenon
    <2> DEFINE g == [i \in 0 .. m |-> IF i = m THEN step[m][f[m - 1]] ELSE f[i]]
    <2>7. m - 1 \in 0 .. (m - 1) /\ f[m - 1] \in S /\ step[m][f[m - 1]] \in S
      BY <2>4, <2>6
    <2>8. \A i \in 0 .. (m - 1) : g[i] = f[i] /\ f[i] \in S
      BY <2>4, <2>6
    <2>9. g \in [0 .. m -> S]
      <3>1. \A i \in 0 .. m : i # m => i \in 0 .. (m - 1)
        BY <2>4
      <3>2. QED
        BY <3>1, <2>7, <2>8
    <2>10. g[0] = start
      BY <2>4, <2>6
    <2>11. ASSUME NEW i \in 1 .. m PROVE g[i] = step[i][g[i - 1]]
      <3>1. i - 1 \in 0 .. (m - 1) /\ i \in 0 .. m
        BY <2>4
      <3>2. g[i - 1] = f[i - 1]
        BY <2>8, <3>1, Zenon
      <3>3. CASE i = m
        BY <3>1, <3>2, <3>3
      <3>4. CASE i # m
        <4>1. i \in 1 .. (m - 1)
          BY <2>4, <3>4
        <4>2. g[i] = f[i]
          BY <3>1, <3>4
        <4>3. QED
          BY <4>1, <4>2, <2>6, <3>2
      <3>5. QED
        BY <3>3, <3>4
    <2> HIDE DEF g
    <2>12. Good(m)
      BY <2>9, <2>10, <2>11, Zenon
    <2>13. QED
      BY <2>2, <2>12
  <1>2. n \in 0 .. n
    OBVIOUS
  <1>3. Good(n)
    BY <1>1, <1>2, Zenon
  <1>4. QED
    BY <1>3, Zenon

------------------------------------------------------------------------------
(* The dependency graph: what a number of steps leads to. *)

\* The sets that Near goes through, one step after the other.
Rings(g, x, R, n) == g[0] = {x} /\ \A i \in 1 .. n : g[i] = g[i - 1] \cup Ahead(R, g[i - 1])

LEMMA RingsAgree ==
  ASSUME NEW x, NEW R, NEW g, NEW h, NEW n \in Nat, Rings(g, x, R, n), Rings(h, x, R, n)
  PROVE  \A k \in 0 .. n : g[k] = h[k]
  <1> DEFINE Wrong == {k \in 0 .. n : g[k] # h[k]}
  <1> SUFFICES ASSUME Wrong # {} PROVE FALSE
    OBVIOUS
  <1>1. Wrong \in SUBSET Nat
    OBVIOUS
  <1>2. PICK m \in Wrong : \A j \in Wrong : m <= j
    BY <1>1, LeastIs
  <1>3. m \in 0 .. n /\ g[m] # h[m]
    OBVIOUS
  <1>4. m # 0
    BY <1>3 DEF Rings
  <1>5. m \in 1 .. n /\ m - 1 \in 0 .. n /\ ~(m <= m - 1)
    BY <1>3, <1>4
  <1>6. g[m - 1] = h[m - 1]
    BY <1>2, <1>5, Zenon
  <1>7. g[m] = h[m]
    BY <1>5, <1>6, Zenon DEF Rings
  <1>8. QED
    BY <1>3, <1>7

LEMMA NearRings ==
  ASSUME NEW x, NEW R, NEW n \in Nat
  PROVE  \E g : Rings(g, x, R, n) /\ g[n] = Near(x, R, n)
  <1> DEFINE U == {x} \cup {l[2] : l \in R}
             S == SUBSET U
             step == [i \in 1 .. n |-> [A \in S |-> A \cup Ahead(R, A)]]
             F(g) == [k \in 0 .. n |-> IF k = 0 THEN {x} ELSE g[k - 1] \cup Ahead(R, g[k - 1])]
             ring == CHOOSE g : g = F(g)
  <1>1. {x} \in S /\ \A A \in S : A \cup Ahead(R, A) \in S
    BY DEF Ahead
  <1>2. step \in [1 .. n -> [S -> S]] /\ \A i \in 1 .. n : \A A \in S : step[i][A] = A \cup Ahead(R, A)
    BY <1>1, Zenon
  <1> HIDE DEF S, step
  <1>3. PICK f \in [0 .. n -> S] : f[0] = {x} /\ \A i \in 1 .. n : f[i] = step[i][f[i - 1]]
    <2> DEFINE start == {x}
    <2>1. start \in S
      BY <1>1
    <2> HIDE DEF start
    <2>0. step \in [1 .. n -> [S -> S]]
      BY <1>2
    <2>2. \E f \in [0 .. n -> S] : f[0] = start /\ \A i \in 1 .. n : f[i] = step[i][f[i - 1]]
      BY <2>0, <2>1, StepByStep
    <2>3. QED
      BY <2>2 DEF start
  <1>4. ASSUME NEW k \in 0 .. n PROVE f[k] = IF k = 0 THEN {x} ELSE f[k - 1] \cup Ahead(R, f[k - 1])
    <2>1. CASE k = 0
      BY <1>3, <2>1
    <2>2. CASE k # 0
      <3>1. k \in 1 .. n /\ k - 1 \in 0 .. n
        BY <2>2
      <3>2. QED
        BY <1>2, <1>3, <2>2, <3>1, Zenon
    <2>3. QED
      BY <2>1, <2>2
  <1>5. f = F(f)
    <2>1. f = [k \in 0 .. n |-> f[k]]
      BY <1>3
    <2>2. QED
      BY <1>4, <2>1, Zenon
  <1>6. ring = F(ring)
    BY <1>5, Zenon
  <1>7. Near(x, R, n) = ring[n]
    BY DEF Near
  <1> HIDE DEF ring
  <1>8. \A k \in 0 .. n : ring[k] = IF k = 0 THEN {x} ELSE ring[k - 1] \cup Ahead(R, ring[k - 1])
    BY <1>6, Zenon
  <1>9. Rings(ring, x, R, n)
    <2>1. 0 \in 0 .. n /\ \A i \in 1 .. n : i \in 0 .. n /\ i # 0
      OBVIOUS
    <2>2. QED
      BY <1>8, <2>1, Zenon DEF Rings
  <1>10. QED
    BY <1>7, <1>9, Zenon

\* No step leads to the start alone, one more to what a link leads to besides.
LEMMA NearIs ==
  ASSUME NEW x, NEW R
  PROVE  /\ Near(x, R, 0) = {x}
         /\ \A n \in Nat : Near(x, R, n + 1) = Near(x, R, n) \cup Ahead(R, Near(x, R, n))
  <1>1. Near(x, R, 0) = {x}
    <2>1. PICK g : Rings(g, x, R, 0) /\ g[0] = Near(x, R, 0)
      BY NearRings
    <2>2. QED
      BY <2>1 DEF Rings
  <1>2. ASSUME NEW n \in Nat PROVE Near(x, R, n + 1) = Near(x, R, n) \cup Ahead(R, Near(x, R, n))
    <2>1. PICK g : Rings(g, x, R, n) /\ g[n] = Near(x, R, n)
      BY NearRings
    <2>2. n + 1 \in Nat
      OBVIOUS
    <2>3. PICK h : Rings(h, x, R, n + 1) /\ h[n + 1] = Near(x, R, n + 1)
      BY <2>2, NearRings, Zenon
    <2>4. n \in 0 .. n /\ n + 1 \in 1 .. (n + 1) /\ (n + 1) - 1 = n /\ 1 .. n \subseteq 1 .. (n + 1)
      OBVIOUS
    <2>5. Rings(h, x, R, n)
      BY <2>3, <2>4, Zenon DEF Rings
    <2>6. h[n] = g[n]
      <3>1. Rings(g, x, R, n)
        BY <2>1
      <3>2. \A k \in 0 .. n : h[k] = g[k]
        BY <2>5, <3>1, RingsAgree
      <3>3. QED
        BY <2>4, <3>2, Zenon
    <2>7. h[n + 1] = h[n] \cup Ahead(R, h[n])
      BY <2>3, <2>4, Zenon DEF Rings
    <2>8. QED
      BY <2>1, <2>3, <2>6, <2>7, Zenon
  <1>3. QED
    BY <1>1, <1>2

LEMMA NearGrows ==
  ASSUME NEW x, NEW R, NEW m \in Nat, NEW n \in Nat, m <= n
  PROVE  Near(x, R, m) \subseteq Near(x, R, n)
  <1> DEFINE Bad == {k \in Nat : m <= k /\ ~(Near(x, R, m) \subseteq Near(x, R, k))}
  <1> SUFFICES ASSUME Bad # {} PROVE FALSE
    OBVIOUS
  <1>1. PICK k \in Bad : \A j \in Bad : k <= j
    BY LeastIs
  <1>2. k \in Nat /\ m <= k /\ ~(Near(x, R, m) \subseteq Near(x, R, k))
    OBVIOUS
  <1>3. k # m
    BY <1>2
  <1>4. k - 1 \in Nat /\ m <= k - 1 /\ ~(k <= k - 1) /\ (k - 1) + 1 = k
    BY <1>2, <1>3
  <1>5. Near(x, R, m) \subseteq Near(x, R, k - 1)
    BY <1>1, <1>4, Zenon
  <1>6. Near(x, R, k) = Near(x, R, k - 1) \cup Ahead(R, Near(x, R, k - 1))
    <2>1. \A j \in Nat : Near(x, R, j + 1) = Near(x, R, j) \cup Ahead(R, Near(x, R, j))
      BY NearIs
    <2>2. QED
      BY <1>4, <2>1, Zenon
  <1>7. QED
    BY <1>2, <1>5, <1>6

\* What leads nowhere else is all that any number of steps leads to.
LEMMA NearClosed ==
  ASSUME NEW x, NEW R, NEW S, NEW m \in Nat, NEW n \in Nat, m <= n,
         Near(x, R, m) \subseteq S, Ahead(R, S) \subseteq S
  PROVE  Near(x, R, n) \subseteq S
  <1> DEFINE Bad == {k \in Nat : m <= k /\ ~(Near(x, R, k) \subseteq S)}
  <1> SUFFICES ASSUME Bad # {} PROVE FALSE
    OBVIOUS
  <1>1. PICK k \in Bad : \A j \in Bad : k <= j
    BY LeastIs
  <1>2. k \in Nat /\ m <= k /\ ~(Near(x, R, k) \subseteq S)
    OBVIOUS
  <1>3. k # m
    BY <1>2
  <1>4. k - 1 \in Nat /\ m <= k - 1 /\ ~(k <= k - 1) /\ (k - 1) + 1 = k
    BY <1>2, <1>3
  <1>5. Near(x, R, k - 1) \subseteq S
    BY <1>1, <1>4, Zenon
  <1>6. Near(x, R, k) = Near(x, R, k - 1) \cup Ahead(R, Near(x, R, k - 1))
    <2>1. \A j \in Nat : Near(x, R, j + 1) = Near(x, R, j) \cup Ahead(R, Near(x, R, j))
      BY NearIs
    <2>2. QED
      BY <1>4, <2>1, Zenon
  <1>7. Ahead(R, Near(x, R, k - 1)) \subseteq S
    BY <1>5 DEF Ahead
  <1>8. QED
    BY <1>2, <1>5, <1>6, <1>7

------------------------------------------------------------------------------
(* Finite sets and the sequences made of them. *)

LEMMA ImageFinite ==
  ASSUME NEW f, IsFiniteSet(DOMAIN f)
  PROVE  IsFiniteSet({f[x] : x \in DOMAIN f})
  <1> DEFINE S == DOMAIN f
             T == {f[x] : x \in DOMAIN f}
             g == [x \in S |-> f[x]]
  <1>1. g \in Surjection(S, T)
    BY DEF Surjection
  <1>2. QED
    BY <1>1, FS_Surjection

LEMMA UnionFinite ==
  ASSUME NEW f, IsFiniteSet(DOMAIN f), \A x \in DOMAIN f : IsFiniteSet(f[x])
  PROVE  IsFiniteSet(UNION {f[x] : x \in DOMAIN f})
  <1> DEFINE T == {f[x] : x \in DOMAIN f}
  <1>1. IsFiniteSet(T)
    BY ImageFinite
  <1>2. \A A \in T : IsFiniteSet(A)
    OBVIOUS
  <1>3. QED
    BY <1>1, <1>2, FS_UNION

LEMMA SetToSeqIs ==
  ASSUME NEW S, IsFiniteSet(S)
  PROVE  /\ SetToSeq(S) \in [1 .. Cardinality(S) -> S] /\ Cardinality(S) \in Nat
         /\ Len(SetToSeq(S)) = Cardinality(S)
         /\ \A x \in S : \E i \in 1 .. Cardinality(S) : SetToSeq(S)[i] = x
         /\ \A i, j \in 1 .. Cardinality(S) : SetToSeq(S)[i] = SetToSeq(S)[j] => i = j
  <1> DEFINE n == Cardinality(S)
             F == {f \in [1 .. n -> S] : IsInjective(f)}
  <1>1. n \in Nat /\ \E f : f \in Bijection(1 .. n, S)
    BY FS_CardinalityType DEF ExistsBijection
  <1>2. \E f \in [1 .. n -> S] : IsInjective(f)
    BY <1>1 DEF Bijection, Injection
  <1>3. SetToSeq(S) \in [1 .. n -> S] /\ IsInjective(SetToSeq(S))
    BY <1>2, Zenon DEF SetToSeq
  <1>4. SetToSeq(S) \in Injection(1 .. n, S)
    BY <1>3, Zenon DEF Injection
  <1>5. IsFiniteSet(1 .. n) /\ Cardinality(1 .. n) = n
    BY <1>1, FS_Interval
  <1>6. SetToSeq(S) \in Surjection(1 .. n, S)
    BY <1>4, <1>5, FS_Injection
  <1>7. Len(SetToSeq(S)) = n
    BY <1>1, <1>3
  <1>8. \A x \in S : \E i \in 1 .. n : SetToSeq(S)[i] = x
    BY <1>6, Zenon DEF Surjection
  <1>9. \A i, j \in 1 .. n : SetToSeq(S)[i] = SetToSeq(S)[j] => i = j
    BY <1>3 DEF IsInjective
  <1>10. QED
    BY <1>1, <1>3, <1>7, <1>8, <1>9, Zenon

Stepwise(h, S, start, n, step) ==
  h \in [0 .. n -> S] /\ h[0] = start /\ \A i \in 1 .. n : h[i] = step[i][h[i - 1]]

LEMMA Stepped ==
  \A S, start, step : \A n \in Nat :
    start \in S /\ step \in [1 .. n -> [S -> S]] => \E h : Stepwise(h, S, start, n, step)
  <1> SUFFICES ASSUME NEW S, NEW start \in S, NEW n \in Nat, NEW step \in [1 .. n -> [S -> S]]
               PROVE  \E h : Stepwise(h, S, start, n, step)
    BY Zenon
  <1>1. \E h \in [0 .. n -> S] : h[0] = start /\ \A i \in 1 .. n : h[i] = step[i][h[i - 1]]
    BY StepByStep
  <1>2. QED
    BY <1>1, Zenon DEF Stepwise

------------------------------------------------------------------------------
(* What the extractors store is finite. *)
LEMMA PyDirsFinite ==
  ASSUME project \in Codebases, NEW f
  PROVE  IsFiniteSet(PyDirs(f))
  <1> DEFINE D == {g.dir : g \in project.files}
             S == SUBSET D
             n == Len(project.refs)
             Brings(i, B) ==
               IF project.refs[i].by # f THEN B
               ELSE LET c == Candidates(f, project.refs[i])
                        news == {k \in DOMAIN c : c[k][1] \notin StdModules /\ ~(Resolved(c[k]) \subseteq B)}
                    IN B \cup (IF news = {} THEN {} ELSE Resolved(c[CHOOSE k \in news : \A j \in news : k <= j]))
             step == [i \in 1 .. n |-> [B \in S |-> Brings(i, B)]]
             F(g) == [i \in 0 .. n |->
               IF i = 0 THEN {}
               ELSE IF project.refs[i].by # f THEN g[i - 1]
               ELSE LET c == Candidates(f, project.refs[i])
                        news == {k \in DOMAIN c : c[k][1] \notin StdModules /\ ~(Resolved(c[k]) \subseteq g[i - 1])}
                    IN g[i - 1] \cup
                       (IF news = {} THEN {} ELSE Resolved(c[CHOOSE k \in news : \A j \in news : k <= j]))]
             brought == CHOOSE g : g = F(g)
  <1>1. n \in Nat /\ IsFiniteSet(project.files)
    BY ProjectsAreSound
  <1>2. IsFiniteSet(D)
    <2> DEFINE h == [g \in project.files |-> g.dir]
    <2>1. IsFiniteSet({h[g] : g \in DOMAIN h})
      BY <1>1, ImageFinite
    <2>2. QED
      BY <2>1
  <1>3. \A m : Resolved(m) \subseteq D
    BY DEF Resolved, PyFiles
  <1>4. ASSUME NEW i \in 1 .. n, NEW B \in S PROVE Brings(i, B) \in S
    BY <1>3
  <1>5. {} \in S
    OBVIOUS
  <1> DEFINE start == {}
  <1>6. start \in S
    OBVIOUS
  <1>7. step \in [1 .. n -> [S -> S]]
    <2> HIDE DEF S, n, Brings
    <2>1. QED
      BY <1>4
  <1>8. \A i \in 1 .. n : \A B \in S : step[i][B] = Brings(i, B)
    BY Zenon
  <1>9. PyDirs(f) = brought[n]
    BY Zenon DEF PyDirs
  <1>10. \A g : F(g) = [i \in 0 .. n |-> IF i = 0 THEN {} ELSE Brings(i, g[i - 1])]
    BY Zenon
  <1> HIDE DEF S, n, step, start, F, Brings
  <1>11. PICK h \in [0 .. n -> S] : h[0] = start /\ \A i \in 1 .. n : h[i] = step[i][h[i - 1]]
    <2>1. n \in Nat
      BY <1>1
    <2>2. \E h : Stepwise(h, S, start, n, step)
      BY <1>6, <1>7, <2>1, Stepped, Zenon
    <2>3. QED
      BY <2>2, Zenon DEF Stepwise
  <1>12. ASSUME NEW i \in 0 .. n PROVE h[i] = IF i = 0 THEN {} ELSE Brings(i, h[i - 1])
    <2>1. CASE i = 0
      BY <1>11, <2>1, Zenon DEF start
    <2>2. CASE i # 0
      <3>1. i \in 1 .. n /\ i - 1 \in 0 .. n
        BY <1>1, <2>2
      <3>2. QED
        BY <1>8, <1>11, <2>2, <3>1, Zenon
    <2>3. QED
      BY <2>1, <2>2
  <1>13. h = F(h)
    <2>1. h = [i \in 0 .. n |-> h[i]]
      BY <1>11
    <2>2. QED
      BY <1>10, <1>12, <2>1, Zenon
  <1>14. brought = F(brought)
    BY <1>13, Zenon
  <1> HIDE DEF brought
  <1>15. \A i \in 0 .. n : brought[i] = IF i = 0 THEN {} ELSE Brings(i, brought[i - 1])
    BY <1>10, <1>14, Zenon
  <1> DEFINE Wrong == {i \in 0 .. n : brought[i] \notin S}
  <1>16. Wrong = {}
    <2> SUFFICES ASSUME Wrong # {} PROVE FALSE
      OBVIOUS
    <2>1. Wrong \in SUBSET Nat
      BY <1>1
    <2>2. PICK m \in Wrong : \A j \in Wrong : m <= j
      BY <2>1, LeastIs
    <2>3. m \in 0 .. n /\ brought[m] \notin S
      OBVIOUS
    <2>4. m # 0
      BY <1>5, <1>15, <2>3, Zenon
    <2>5. m \in 1 .. n /\ m - 1 \in 0 .. n /\ ~(m <= m - 1)
      BY <1>1, <2>3, <2>4
    <2>6. brought[m - 1] \in S
      BY <2>2, <2>5, Zenon
    <2>7. QED
      BY <1>4, <1>15, <2>3, <2>4, <2>5, <2>6, Zenon
  <1>17. brought[n] \in S
    <2>1. n \in 0 .. n
      BY <1>1
    <2>2. QED
      BY <1>16, <2>1
  <1>18. PyDirs(f) \subseteq D
    BY <1>9, <1>17, Zenon DEF S
  <1>19. QED
    BY <1>2, <1>18, FS_Subset

LEMMA SingleFinite == IsFiniteSet({}) /\ \A x : IsFiniteSet({x})
  BY FS_EmptySet, FS_Singleton

LEMMA OneFinite ==
  ASSUME NEW S, \A x, y \in S : x = y
  PROVE  IsFiniteSet(S)
  <1>1. S = {} \/ \E x : S = {x}
    OBVIOUS
  <1>2. QED
    BY <1>1, SingleFinite, Zenon

LEMMA DirsFinite ==
  ASSUME NEW f, f.lang \in Langs, f.lang # "py", NEW r
  PROVE  IsFiniteSet(Dirs(f, r))
  <1>1. \A p, m : IsFiniteSet(ImportDir(p, m))
    BY SingleFinite, Zenon DEF ImportDir
  <1>2. \A p : \A x, y \in HoldingDir(p) : x = y
    BY Zenon DEF HoldingDir
  <1>3. IsFiniteSet(GoDirs(f, r))
    <2> DEFINE own == project.modules[ModuleDir(f)]
               A == {ModuleDir(f) \o d : d \in ImportDir(r.path, own)}
    <2>1. \A x, y \in ImportDir(r.path, own) : x = y
      BY Zenon DEF ImportDir
    <2>2. IsFiniteSet(A)
      BY <2>1, OneFinite, Zenon
    <2>3. IsFiniteSet(A \cup ImportDir(r.path, RootModule)) /\ IsFiniteSet(A \cup {})
      BY <1>1, <2>2, SingleFinite, FS_Union
    <2>4. QED
      BY <1>1, <2>3, SingleFinite, Zenon DEF GoDirs
  <1>4. IsFiniteSet(TSDirs(f, r))
    BY SingleFinite, Zenon DEF TSDirs
  <1>5. IsFiniteSet(ScriptDirs(f, r)) /\ IsFiniteSet(RubyDirs(f, r)) /\ IsFiniteSet(HeaderDirs(r)) /\ IsFiniteSet(LinkDirs(r))
    <2>1. \A p : IsFiniteSet(HoldingDir(p))
      BY <1>2, OneFinite, Zenon
    <2>2. IsFiniteSet(ScriptDirs(f, r)) /\ IsFiniteSet(RubyDirs(f, r))
      BY <2>1, FS_Subset DEF ScriptDirs, RubyDirs
    <2>3. QED
      BY <2>1, <2>2, SingleFinite, Zenon DEF HeaderDirs, LinkDirs
  <1>6. IsFiniteSet(RustDirs(r))
    <2>1. IsFiniteSet(HoldingDir(r.path))
      BY <1>2, OneFinite, Zenon
    <2>2. QED
      BY <2>1, SingleFinite, Zenon DEF RustDirs
  <1>7. IsFiniteSet(JvmDirs(r)) /\ IsFiniteSet(CsDirs(r))
    BY SingleFinite, Zenon DEF JvmDirs, CsDirs
  <1>8. f.lang \in {"go", "ts", "sh", "rb", "jvm", "rs", "cs", "c", "md"}
    BY DEF Langs
  <1>9. /\ f.lang = "go" => Dirs(f, r) = GoDirs(f, r)
        /\ f.lang = "ts" => Dirs(f, r) = TSDirs(f, r)
        /\ f.lang = "sh" => Dirs(f, r) = ScriptDirs(f, r)
        /\ f.lang = "rb" => Dirs(f, r) = RubyDirs(f, r)
        /\ f.lang = "rs" => Dirs(f, r) = RustDirs(r)
        /\ f.lang = "jvm" => Dirs(f, r) = JvmDirs(r)
        /\ f.lang = "cs" => Dirs(f, r) = CsDirs(r)
        /\ f.lang = "c" => Dirs(f, r) = HeaderDirs(r)
        /\ f.lang = "md" => Dirs(f, r) = LinkDirs(r)
    BY DEF Dirs
  <1>10. QED
    BY <1>3, <1>4, <1>5, <1>6, <1>7, <1>8, <1>9, Zenon

LEMMA AnalyzedFinite ==
  ASSUME project \in Codebases, NEW f \in project.files
  PROVE  IsFiniteSet(Analyzed(f))
  <1>1. f.lang \in Langs /\ Len(project.refs) \in Nat /\ DOMAIN project.refs = 1 .. Len(project.refs)
    BY ProjectsAreSound
  <1>2. CASE f.lang = "py"
    BY <1>2, PyDirsFinite DEF Analyzed
  <1>3. CASE f.lang # "py"
    <2>1. IsFiniteSet(Among(project.refs))
      <3>1. IsFiniteSet(DOMAIN project.refs)
        BY <1>1, FS_Interval
      <3>2. QED
        BY <3>1, ImageFinite DEF Among
    <2>2. IsFiniteSet(RefsOf(f))
      BY <2>1, FS_Subset DEF RefsOf
    <2> DEFINE h == [r \in RefsOf(f) |-> Dirs(f, r)]
    <2>3. \A r \in DOMAIN h : IsFiniteSet(h[r])
      BY <1>1, <1>3, DirsFinite
    <2>4. IsFiniteSet(UNION {h[r] : r \in DOMAIN h})
      BY <2>2, <2>3, UnionFinite
    <2>5. Analyzed(f) = UNION {h[r] : r \in DOMAIN h}
      BY <1>3 DEF Analyzed
    <2>6. QED
      BY <2>4, <2>5
  <1>4. QED
    BY <1>2, <1>3

------------------------------------------------------------------------------
(* Links and the neighbours of a node. *)

\* What a question is about, and what is stored to answer it.
Posed ==
  /\ project \in Codebases /\ query \in Queries(project)
  /\ DOMAIN stored = project.files /\ \A f \in project.files : IsFiniteSet(stored[f])
Walks == query.kind \in {"path", "walk"}
Places == Nodes \cup {query.from}

LEMMA AheadOne ==
  ASSUME NEW R, NEW n, NEW m
  PROVE  m \in Ahead(R, {n}) <=> \E l \in R : l[1] = n /\ l[2] = m
  BY DEF Ahead

LEMMA AheadEach ==
  ASSUME NEW R, NEW S, NEW T
  PROVE  Ahead(R, S) \subseteq T <=> \A n \in S : Ahead(R, {n}) \subseteq T
  BY DEF Ahead

LEMMA AheadLinks ==
  ASSUME NEW both, NEW n
  PROVE  Ahead(Links(both), {n}) = IF n \in Nodes THEN Adjacent(n, both) ELSE {}
  <1>1. ASSUME NEW m PROVE m \in Ahead(Links(both), {n}) <=> n \in Nodes /\ m \in Adjacent(n, both)
    <2>1. ASSUME NEW l \in Links(both), l[1] = n, l[2] = m PROVE n \in Nodes /\ m \in Adjacent(n, both)
      <3>1. PICK k \in Nodes : \E j \in Adjacent(k, both) : l = <<k, j>>
        BY DEF Links
      <3>2. PICK j \in Adjacent(k, both) : l = <<k, j>>
        BY <3>1
      <3>3. l[1] = k /\ l[2] = j
        BY <3>2
      <3>4. QED
        BY <2>1, <3>3
    <2>2. ASSUME n \in Nodes, m \in Adjacent(n, both) PROVE \E l \in Links(both) : l[1] = n /\ l[2] = m
      <3>1. <<n, m>> \in Links(both)
        BY <2>2 DEF Links
      <3>2. QED
        BY <3>1
    <2>3. QED
      BY <2>1, <2>2, AheadOne
  <1>2. QED
    BY <1>1

LEMMA NodesAre ==
  /\ \A f \in project.files : FileNode(f) \in Nodes
  /\ \A f \in project.files : f.dir # <<>> => DirNode(f.dir) \in Nodes
  /\ \A f \in project.files : \A d \in stored[f] : d # <<>> => DirNode(d) \in Nodes
  /\ \A n \in Nodes : (\E f \in project.files : n = FileNode(f)) \/ (\E d : d # <<>> /\ n = DirNode(d))
  BY DEF Nodes

LEMMA NeighboursOfFile ==
  ASSUME Posed, NEW f \in project.files
  PROVE  /\ Onward(FileNode(f)) \subseteq Nodes /\ Backward(FileNode(f)) \subseteq Nodes
         /\ IsFiniteSet(Onward(FileNode(f))) /\ IsFiniteSet(Backward(FileNode(f)))
  <1> DEFINE n == FileNode(f)
  <1>1. n.kind = "file" /\ n.file = f /\ n.dir = f.dir
    BY DEF FileNode
  <1>2. Onward(n) = {DirNode(d) : d \in stored[f] \ {<<>>}} /\ Backward(n) = {DirNode(d) : d \in {f.dir} \ {<<>>}}
    BY <1>1, Zenon DEF Onward, Backward
  <1>3. Onward(n) \subseteq Nodes /\ Backward(n) \subseteq Nodes
    BY <1>2, NodesAre
  <1>4. IsFiniteSet(Onward(n))
    <2> DEFINE h == [d \in stored[f] \ {<<>>} |-> DirNode(d)]
    <2>1. IsFiniteSet(DOMAIN h)
      BY FS_Difference DEF Posed
    <2>2. IsFiniteSet({h[d] : d \in DOMAIN h})
      BY <2>1, ImageFinite
    <2>3. QED
      BY <1>2, <2>2
  <1>5. IsFiniteSet(Backward(n))
    <2>1. \A x, y \in Backward(n) : x = y
      BY <1>2
    <2>2. QED
      BY <2>1, OneFinite, Zenon
  <1>6. QED
    BY <1>3, <1>4, <1>5

LEMMA NeighboursOfDir ==
  ASSUME Posed, NEW d
  PROVE  /\ Onward(DirNode(d)) = {FileNode(f) : f \in {g \in project.files : g.dir = d}}
         /\ Backward(DirNode(d)) = {FileNode(f) : f \in {g \in project.files : d \in stored[g]}}
         /\ Onward(DirNode(d)) \subseteq Nodes /\ Backward(DirNode(d)) \subseteq Nodes
         /\ IsFiniteSet(Onward(DirNode(d))) /\ IsFiniteSet(Backward(DirNode(d)))
  <1> DEFINE n == DirNode(d)
  <1>1. n.kind = "package" /\ n.kind # "file" /\ n.dir = d
    BY DEF DirNode
  <1>2. /\ Onward(n) = {FileNode(f) : f \in {g \in project.files : g.dir = d}}
        /\ Backward(n) = {FileNode(f) : f \in {g \in project.files : d \in stored[g]}}
    BY <1>1, Zenon DEF Onward, Backward
  <1>3. IsFiniteSet(project.files)
    BY ProjectsAreSound DEF Posed
  <1>4. ASSUME NEW S, S \subseteq project.files PROVE IsFiniteSet({FileNode(f) : f \in S})
    <2> DEFINE h == [f \in S |-> FileNode(f)]
    <2>1. IsFiniteSet(DOMAIN h)
      BY <1>3, <1>4, FS_Subset
    <2>2. IsFiniteSet({h[f] : f \in DOMAIN h})
      BY <2>1, ImageFinite
    <2>3. QED
      BY <2>2
  <1>5. IsFiniteSet(Onward(n)) /\ IsFiniteSet(Backward(n))
    BY <1>2, <1>4
  <1>6. Onward(n) \subseteq Nodes /\ Backward(n) \subseteq Nodes
    BY <1>2, NodesAre
  <1>7. QED
    BY <1>2, <1>5, <1>6

LEMMA FromIs ==
  ASSUME Posed, Walks
  PROVE  (\E f \in project.files : query.from = FileNode(f)) \/ (\E d : d # <<>> /\ query.from = DirNode(d))
  <1>1. /\ query.from \in {FileNode(f) : f \in project.files}
           \/ (query.from = DirNode(query.from.dir) /\ query.from.dir # <<>>)
    BY QueriesAreSound, Zenon DEF Posed, Walks
  <1>2. QED
    BY <1>1

\* The neighbours of a place of the graph are what one link leads to.
LEMMA NeighboursAre ==
  ASSUME Posed, Walks, NEW n \in Places, NEW both
  PROVE  /\ Adjacent(n, both) = Ahead(Links(both), {n})
         /\ Adjacent(n, both) \subseteq Nodes /\ Onward(n) \subseteq Nodes /\ Backward(n) \subseteq Nodes
         /\ IsFiniteSet(Onward(n)) /\ IsFiniteSet(Backward(n)) /\ IsFiniteSet(Adjacent(n, both))
  <1>1. (\E f \in project.files : n = FileNode(f)) \/ (\E d : d # <<>> /\ n = DirNode(d))
    BY FromIs, NodesAre, Zenon DEF Places
  <1>2. /\ Onward(n) \subseteq Nodes /\ Backward(n) \subseteq Nodes
        /\ IsFiniteSet(Onward(n)) /\ IsFiniteSet(Backward(n))
    BY <1>1, NeighboursOfFile, NeighboursOfDir, Zenon
  <1>3. Adjacent(n, both) \subseteq Nodes
    BY <1>2 DEF Adjacent
  <1>4. IsFiniteSet(Adjacent(n, both))
    <2>1. IsFiniteSet(Onward(n) \cup Backward(n)) /\ IsFiniteSet(Onward(n) \cup {})
      BY <1>2, SingleFinite, FS_Union
    <2>2. QED
      BY <2>1, Zenon DEF Adjacent
  <1>5. ASSUME n \notin Nodes PROVE Adjacent(n, both) = {}
    <2>1. ~(\E f \in project.files : n = FileNode(f))
      BY <1>5, NodesAre, Zenon
    <2>2. PICK d : d # <<>> /\ n = DirNode(d)
      BY <1>1, <2>1, Zenon
    <2>3. \A f \in project.files : f.dir # d /\ d \notin stored[f]
      BY <1>5, <2>2, NodesAre, Zenon
    <2>4. Onward(n) = {} /\ Backward(n) = {}
      BY <2>2, <2>3, NeighboursOfDir
    <2>5. QED
      BY <2>4 DEF Adjacent
  <1>6. Adjacent(n, both) = Ahead(Links(both), {n})
    BY <1>5, AheadLinks, Zenon
  <1>7. QED
    BY <1>2, <1>3, <1>4, <1>6

\* A question and what is stored for it stay, and so does the graph.
LEMMA GraphStays ==
  ASSUME Given
  PROVE  /\ Dependants' = Dependants /\ Nodes' = Nodes /\ Places' = Places
         /\ Links(TRUE)' = Links(TRUE) /\ Links(FALSE)' = Links(FALSE)
         /\ ImpactBudget' = ImpactBudget /\ PathBudget' = PathBudget /\ WalkBudget' = WalkBudget
         /\ EdgeBudget' = EdgeBudget
  <1>1. project' = project /\ stored' = stored /\ query' = query
    BY DEF Given
  <1>2. Dependants' = Dependants
    BY <1>1 DEF Dependants, Direct, DirsOf
  <1>3. Nodes' = Nodes
    BY <1>1 DEF Nodes, FileNode, DirNode
  <1>4. Places' = Places
    BY <1>1, <1>3 DEF Places
  <1>5. Links(TRUE)' = Links(TRUE)
    BY <1>1, <1>3 DEF Links, Adjacent, Onward, Backward
  <1>6. Links(FALSE)' = Links(FALSE)
    BY <1>1, <1>3 DEF Links, Adjacent, Onward, Backward
  <1>7. /\ ImpactBudget' = ImpactBudget /\ PathBudget' = PathBudget /\ WalkBudget' = WalkBudget
        /\ EdgeBudget' = EdgeBudget
    BY <1>1 DEF ImpactBudget, PathBudget, WalkBudget, Budget, EdgeBudget
  <1>8. QED
    BY <1>2, <1>3, <1>4, <1>5, <1>6, <1>7

------------------------------------------------------------------------------
(* Breadth-first search from x along R, no further than B. *)

\* Whatever was found is as near as its depth says.
Visited(R, x, B, fo, qu) ==
  /\ x \in DOMAIN fo /\ fo[x].depth = 0
  /\ \A m \in DOMAIN fo : fo[m].depth \in 0 .. B /\ m \in Near(x, R, fo[m].depth)
  /\ qu \in Seq(DOMAIN fo)

\* Nothing found is nearer than its depth says, those to be visited come in
\* the order of their depths, and what the others lead to was found.
Nearest(R, x, fo) == \A m \in DOMAIN fo : \A k \in Nat : k < fo[m].depth => m \notin Near(x, R, k)
Ordered(fo, qu) ==
  \A i, j \in 1 .. Len(qu) :
    i <= j => fo[qu[i]].depth <= fo[qu[j]].depth /\ fo[qu[j]].depth <= fo[qu[i]].depth + 1
Waiting(qu, m) == \E i \in 1 .. Len(qu) : qu[i] = m
Followed(R, B, fo, qu) ==
  \A m \in DOMAIN fo : fo[m].depth < B /\ ~Waiting(qu, m) => Ahead(R, {m}) \subseteq DOMAIN fo
Exhaustive(R, x, B, fo, qu) == Nearest(R, x, fo) /\ Ordered(fo, qu) /\ Followed(R, B, fo, qu)

LEMMA LevelsFound ==
  ASSUME NEW R, NEW x, NEW fo, NEW D \in Nat, x \in DOMAIN fo, Nearest(R, x, fo),
         \A m \in DOMAIN fo : fo[m].depth \in Nat,
         \A m \in DOMAIN fo : fo[m].depth < D => Ahead(R, {m}) \subseteq DOMAIN fo
  PROVE  \A k \in 0 .. D : Near(x, R, k) \subseteq DOMAIN fo
  <1> DEFINE Bad == {k \in 0 .. D : ~(Near(x, R, k) \subseteq DOMAIN fo)}
  <1> SUFFICES ASSUME Bad # {} PROVE FALSE
    OBVIOUS
  <1>1. Bad \in SUBSET Nat
    OBVIOUS
  <1>2. PICK k \in Bad : \A j \in Bad : k <= j
    BY <1>1, LeastIs
  <1>3. k \in 0 .. D /\ ~(Near(x, R, k) \subseteq DOMAIN fo)
    OBVIOUS
  <1>4. \A n \in Nat : Near(x, R, n + 1) = Near(x, R, n) \cup Ahead(R, Near(x, R, n))
    BY NearIs
  <1>5. k # 0
    <2>1. Near(x, R, 0) = {x}
      BY NearIs
    <2>2. QED
      BY <1>3, <2>1
  <1>6. k - 1 \in Nat /\ k - 1 \in 0 .. D /\ ~(k <= k - 1) /\ (k - 1) + 1 = k
    BY <1>3, <1>5
  <1>7. Near(x, R, k - 1) \subseteq DOMAIN fo
    BY <1>2, <1>6, Zenon
  <1>8. Near(x, R, k) = Near(x, R, k - 1) \cup Ahead(R, Near(x, R, k - 1))
    BY <1>4, <1>6, Zenon
  <1>9. ASSUME NEW m \in Near(x, R, k - 1) PROVE Ahead(R, {m}) \subseteq DOMAIN fo
    <2>1. m \in DOMAIN fo /\ fo[m].depth \in Nat
      BY <1>7, <1>9
    <2>2. ~(k - 1 < fo[m].depth)
      BY <1>6, <1>9, <2>1 DEF Nearest
    <2>3. fo[m].depth < D
      BY <1>3, <1>6, <2>1, <2>2
    <2>4. QED
      BY <2>1, <2>3
  <1>10. Ahead(R, Near(x, R, k - 1)) \subseteq DOMAIN fo
    BY <1>9, AheadEach
  <1>11. QED
    BY <1>3, <1>7, <1>8, <1>10

LEMMA QueueAfter ==
  ASSUME NEW S, NEW qu \in Seq(S), qu # <<>>, NEW news, IsFiniteSet(news)
  PROVE  LET after == Tail(qu) \o SetToSeq(news)
         IN /\ after \in Seq(S \cup news) /\ Len(after) \in Nat
            /\ \A i \in 1 .. Len(after) :
                 (i + 1 \in 1 .. Len(qu) /\ after[i] = qu[i + 1]) \/ (i + 1 > Len(qu) /\ after[i] \in news)
            /\ \A i \in 2 .. Len(qu) : Waiting(after, qu[i])
            /\ \A m \in news : Waiting(after, m)
  <1> DEFINE N == Cardinality(news)
             L == Len(qu)
             s == SetToSeq(news)
             t == Tail(qu)
             after == t \o s
  <1>1. /\ s \in [1 .. N -> news] /\ N \in Nat /\ Len(s) = N
        /\ \A x \in news : \E i \in 1 .. N : s[i] = x
    BY SetToSeqIs
  <1>2. s \in Seq(S \cup news)
    <2>1. s \in Seq(news)
      BY <1>1
    <2>2. QED
      BY <1>1, <2>1
  <1>3. L \in Nat /\ L > 0 /\ t \in Seq(S \cup news) /\ Len(t) = L - 1 /\ \A i \in 1 .. (L - 1) : t[i] = qu[i + 1]
    BY SMTT(60)
  <1> HIDE DEF s, t, N, L
  <1>4. /\ after \in Seq(S \cup news) /\ Len(after) = (L - 1) + N
        /\ \A i \in 1 .. ((L - 1) + N) : after[i] = IF i <= L - 1 THEN t[i] ELSE s[i - (L - 1)]
    <2>1. s \in Seq(S \cup news) /\ t \in Seq(S \cup news)
      BY <1>2, <1>3
    <2>2. after \in Seq(S \cup news)
      BY <2>1
    <2>3. Len(after) = Len(t) + Len(s)
      BY <2>1
    <2>4. ASSUME NEW i \in 1 .. (Len(t) + Len(s)) PROVE after[i] = IF i <= Len(t) THEN t[i] ELSE s[i - Len(t)]
      <3>1. Len(t) \in Nat /\ Len(s) \in Nat
        BY <2>1
      <3>2. i \in 1 .. Len(t \o s)
        BY <2>1, <3>1
      <3>3. QED
        BY <2>1, <3>1, <3>2
    <2>5. Len(t) = L - 1 /\ Len(s) = N
      BY <1>1, <1>3
    <2>6. QED
      BY <2>2, <2>3, <2>4, <2>5, Zenon
  <1> HIDE DEF after
  <1>5. ASSUME NEW i \in 1 .. Len(after)
        PROVE  (i + 1 \in 1 .. L /\ after[i] = qu[i + 1]) \/ (i + 1 > L /\ after[i] \in news)
    <2>1. CASE i <= L - 1
      BY <1>1, <1>3, <1>4, <2>1
    <2>2. CASE ~(i <= L - 1)
      <3>1. i - (L - 1) \in 1 .. N /\ i + 1 > L
        BY <1>1, <1>3, <1>4, <2>2
      <3>2. QED
        BY <1>1, <1>4, <2>2, <3>1
    <2>3. QED
      BY <2>1, <2>2
  <1>6. ASSUME NEW i \in 2 .. L PROVE Waiting(after, qu[i])
    <2>1. i - 1 \in 1 .. (L - 1) /\ i - 1 \in 1 .. ((L - 1) + N) /\ (i - 1) + 1 = i /\ i - 1 <= L - 1
      BY <1>1, <1>3
    <2>2. after[i - 1] = qu[i]
      BY <1>3, <1>4, <2>1
    <2>3. QED
      BY <1>4, <2>1, <2>2, Zenon DEF Waiting
  <1>7. ASSUME NEW m \in news PROVE Waiting(after, m)
    <2>1. PICK i \in 1 .. N : s[i] = m
      BY <1>1
    <2>2. i + (L - 1) \in 1 .. ((L - 1) + N) /\ ~(i + (L - 1) <= L - 1) /\ (i + (L - 1)) - (L - 1) = i
      BY <1>1, <1>3
    <2>3. after[i + (L - 1)] = m
      BY <1>4, <2>1, <2>2
    <2>4. QED
      BY <1>4, <2>2, <2>3, Zenon DEF Waiting
  <1>8. after \in Seq(S \cup news) /\ Len(after) \in Nat
    BY <1>1, <1>3, <1>4
  <1>9. QED
    BY <1>5, <1>6, <1>7, <1>8, Zenon DEF after, s, t, L

\* The first to be visited is as near as the depths say, and so are all that
\* are not further than it.
LEMMA HeadIs ==
  ASSUME NEW R, NEW x, NEW B \in Nat, NEW fo, NEW qu, Visited(R, x, B, fo, qu), qu # <<>>
  PROVE  /\ Head(qu) \in DOMAIN fo /\ Head(qu) = qu[1] /\ 1 \in 1 .. Len(qu) /\ Len(qu) \in Nat
         /\ \A i \in 1 .. Len(qu) : qu[i] \in DOMAIN fo
         /\ fo[Head(qu)].depth \in 0 .. B /\ Head(qu) \in Near(x, R, fo[Head(qu)].depth)
  <1>1. qu \in Seq(DOMAIN fo)
    BY DEF Visited
  <1>2. Head(qu) = qu[1] /\ 1 \in 1 .. Len(qu) /\ Len(qu) \in Nat /\ \A i \in 1 .. Len(qu) : qu[i] \in DOMAIN fo
    BY <1>1
  <1>3. Head(qu) \in DOMAIN fo
    BY <1>2
  <1>4. QED
    BY <1>2, <1>3, Zenon DEF Visited

LEMMA NearHead ==
  ASSUME NEW R, NEW x, NEW B \in Nat, NEW fo, NEW qu, Visited(R, x, B, fo, qu), Exhaustive(R, x, B, fo, qu), qu # <<>>
  PROVE  \A k \in 0 .. fo[Head(qu)].depth : Near(x, R, k) \subseteq DOMAIN fo
  <1> DEFINE d == fo[Head(qu)].depth
  <1>1. /\ Head(qu) = qu[1] /\ 1 \in 1 .. Len(qu) /\ Len(qu) \in Nat /\ d \in 0 .. B
        /\ \A i \in 1 .. Len(qu) : qu[i] \in DOMAIN fo
    BY HeadIs
  <1>2. x \in DOMAIN fo /\ \A m \in DOMAIN fo : fo[m].depth \in 0 .. B
    BY DEF Visited
  <1>3. ASSUME NEW m \in DOMAIN fo, fo[m].depth < d PROVE Ahead(R, {m}) \subseteq DOMAIN fo
    <2>1. ASSUME NEW i \in 1 .. Len(qu) PROVE qu[i] # m
      <3>1. 1 <= i
        BY <1>1
      <3>2. fo[qu[1]].depth <= fo[qu[i]].depth
        BY <1>1, <3>1, Zenon DEF Exhaustive, Ordered
      <3>3. fo[qu[i]].depth \in 0 .. B
        BY <1>1, <1>2, Zenon
      <3>4. QED
        BY <1>1, <1>2, <1>3, <3>2, <3>3
    <2>2. ~Waiting(qu, m)
      BY <2>1, Zenon DEF Waiting
    <2>3. fo[m].depth < B
      BY <1>1, <1>2, <1>3
    <2>4. QED
      BY <2>2, <2>3, Zenon DEF Exhaustive, Followed
  <1>4. d \in Nat /\ \A m \in DOMAIN fo : fo[m].depth \in Nat
    BY <1>1, <1>2
  <1> HIDE DEF d
  <1>5. \A k \in 0 .. d : Near(x, R, k) \subseteq DOMAIN fo
    BY <1>2, <1>3, <1>4, LevelsFound DEF Exhaustive
  <1>6. QED
    BY <1>5 DEF d

\* When nothing is left to be visited everything that near was found.
LEMMA AllFound ==
  ASSUME NEW R, NEW x, NEW B \in Nat, NEW fo, Visited(R, x, B, fo, <<>>), Exhaustive(R, x, B, fo, <<>>)
  PROVE  \A k \in 0 .. B : Near(x, R, k) \subseteq DOMAIN fo
  <1>1. x \in DOMAIN fo /\ \A m \in DOMAIN fo : fo[m].depth \in Nat
    BY DEF Visited
  <1>2. \A m : ~Waiting(<<>>, m)
    BY DEF Waiting
  <1>3. \A m \in DOMAIN fo : fo[m].depth < B => Ahead(R, {m}) \subseteq DOMAIN fo
    BY <1>2, Zenon DEF Exhaustive, Followed
  <1>4. QED
    BY <1>1, <1>3, LevelsFound DEF Exhaustive

LEMMA FoundNear ==
  ASSUME NEW R, NEW x, NEW B \in Nat, NEW fo, NEW qu, Visited(R, x, B, fo, qu)
  PROVE  DOMAIN fo \subseteq Near(x, R, B)
  <1>1. ASSUME NEW m \in DOMAIN fo PROVE m \in Near(x, R, B)
    <2>1. fo[m].depth \in 0 .. B /\ m \in Near(x, R, fo[m].depth)
      BY DEF Visited
    <2>2. fo[m].depth \in Nat /\ fo[m].depth <= B
      BY <2>1
    <2>3. QED
      BY <2>1, <2>2, NearGrows
  <1>2. QED
    BY <1>1

\* What is found once the first that waits was visited.
Extended(fo, n, news) ==
  [m \in DOMAIN fo \cup news |-> IF m \in news THEN [depth |-> fo[n].depth + 1, prev |-> n] ELSE fo[m]]

Grown(more, fo, n, news) ==
  /\ DOMAIN more = DOMAIN fo \cup news
  /\ \A m \in news : more[m].depth = fo[n].depth + 1 /\ more[m].prev = n
  /\ \A m \in DOMAIN fo : m \notin news => more[m] = fo[m]
LEMMA ExtendedIs ==
  ASSUME NEW fo, NEW n, NEW news
  PROVE  Grown(Extended(fo, n, news), fo, n, news)
  BY DEF Extended, Grown

\* The first that waits is visited: news are some of what it leads to that was
\* not found yet, and nothing at the greatest depth.
Visits(R, B, fo, qu, news) ==
  /\ qu # <<>> /\ IsFiniteSet(news)
  /\ news \subseteq Ahead(R, {Head(qu)}) /\ news \cap DOMAIN fo = {}
  /\ ~(fo[Head(qu)].depth < B) => news = {}

LEMMA VisitKeeps ==
  ASSUME NEW R, NEW x, NEW B \in Nat, NEW fo, NEW qu, NEW news,
         Visited(R, x, B, fo, qu), Visits(R, B, fo, qu, news)
  PROVE  Visited(R, x, B, Extended(fo, Head(qu), news), Tail(qu) \o SetToSeq(news))
  <1> DEFINE n == Head(qu)
             d == fo[n].depth
             more == Extended(fo, n, news)
             after == Tail(qu) \o SetToSeq(news)
  <1>1. qu \in Seq(DOMAIN fo) /\ qu # <<>> /\ IsFiniteSet(news)
    BY DEF Visited, Visits
  <1>2. n \in DOMAIN fo /\ d \in 0 .. B /\ n \in Near(x, R, d)
    BY <1>1, HeadIs
  <1>3. after \in Seq(DOMAIN fo \cup news)
    BY <1>1, QueueAfter
  <1>4. /\ DOMAIN more = DOMAIN fo \cup news
        /\ \A m \in news : more[m].depth = d + 1 /\ more[m].prev = n
        /\ \A m \in DOMAIN fo : m \notin news => more[m] = fo[m]
    <2>1. Grown(more, fo, n, news)
      BY ExtendedIs
    <2> HIDE DEF more, n
    <2>2. QED
      BY <2>1 DEF Grown
  <1>5. \A m \in DOMAIN fo : more[m] = fo[m]
    <2>1. \A m \in DOMAIN fo : m \notin news
      BY DEF Visits
    <2>2. QED
      BY <1>4, <2>1, Zenon
  <1> HIDE DEF more, after
  <1>6. x \in DOMAIN more /\ more[x].depth = 0
    BY <1>4, <1>5 DEF Visited
  <1>7. ASSUME NEW m \in DOMAIN fo PROVE more[m].depth \in 0 .. B /\ m \in Near(x, R, more[m].depth)
    BY <1>5, Zenon DEF Visited
  <1>8. ASSUME NEW m \in news PROVE more[m].depth \in 0 .. B /\ m \in Near(x, R, more[m].depth)
    <2>1. d < B /\ m \in Ahead(R, {n})
      BY <1>8 DEF Visits
    <2>2. d \in Nat /\ d + 1 \in 0 .. B
      BY <1>2, <2>1
    <2>3. Near(x, R, d + 1) = Near(x, R, d) \cup Ahead(R, Near(x, R, d))
      BY <2>2, NearIs
    <2>4. m \in Ahead(R, Near(x, R, d))
      BY <1>2, <2>1 DEF Ahead
    <2>5. more[m].depth = d + 1
      BY <1>4
    <2>6. QED
      BY <2>2, <2>3, <2>4, <2>5
  <1>9. \A m \in DOMAIN more : more[m].depth \in 0 .. B /\ m \in Near(x, R, more[m].depth)
    BY <1>4, <1>7, <1>8, Zenon
  <1>10. after \in Seq(DOMAIN more)
    BY <1>3, <1>4
  <1>11. QED
    BY <1>6, <1>9, <1>10, Zenon DEF Visited, more, after

LEMMA ExhaustiveKeeps ==
  ASSUME NEW R, NEW x, NEW B \in Nat, NEW fo, NEW qu, NEW news,
         Visited(R, x, B, fo, qu), Exhaustive(R, x, B, fo, qu), Visits(R, B, fo, qu, news),
         fo[Head(qu)].depth < B => Ahead(R, {Head(qu)}) \subseteq DOMAIN fo \cup news
  PROVE  Exhaustive(R, x, B, Extended(fo, Head(qu), news), Tail(qu) \o SetToSeq(news))
  <1> DEFINE n == Head(qu)
             d == fo[n].depth
             more == Extended(fo, n, news)
             after == Tail(qu) \o SetToSeq(news)
  <1>1. qu \in Seq(DOMAIN fo) /\ qu # <<>> /\ IsFiniteSet(news)
    BY DEF Visited, Visits
  <1>2. /\ n \in DOMAIN fo /\ d \in 0 .. B /\ n = qu[1] /\ 1 \in 1 .. Len(qu) /\ Len(qu) \in Nat
        /\ \A i \in 1 .. Len(qu) : qu[i] \in DOMAIN fo
    BY <1>1, HeadIs
  <1>3. /\ Len(after) \in Nat
        /\ \A i \in 1 .. Len(after) :
             (i + 1 \in 1 .. Len(qu) /\ after[i] = qu[i + 1]) \/ (i + 1 > Len(qu) /\ after[i] \in news)
        /\ \A i \in 2 .. Len(qu) : Waiting(after, qu[i])
        /\ \A m \in news : Waiting(after, m)
    BY <1>1, QueueAfter
  <1>4. /\ DOMAIN more = DOMAIN fo \cup news
        /\ \A m \in news : more[m].depth = d + 1
        /\ \A m \in DOMAIN fo : m \notin news => more[m] = fo[m]
    <2>1. Grown(more, fo, n, news)
      BY ExtendedIs
    <2> HIDE DEF more, n
    <2>2. QED
      BY <2>1 DEF Grown
  <1>5. \A m \in DOMAIN fo : more[m] = fo[m]
    <2>1. \A m \in DOMAIN fo : m \notin news
      BY DEF Visits
    <2>2. QED
      BY <1>4, <2>1, Zenon
  <1>6. \A k \in 0 .. d : Near(x, R, k) \subseteq DOMAIN fo
    BY <1>1, NearHead
  <1>7. \A m \in DOMAIN fo : fo[m].depth \in 0 .. B
    BY DEF Visited
  <1>8. Nearest(R, x, fo) /\ Ordered(fo, qu) /\ Followed(R, B, fo, qu)
    BY DEF Exhaustive
  <1> HIDE DEF more, after, n, d
  <1>9. Nearest(R, x, more)
    <2>1. ASSUME NEW m \in DOMAIN more, NEW k \in Nat, k < more[m].depth PROVE m \notin Near(x, R, k)
      <3>1. CASE m \in DOMAIN fo
        BY <1>5, <1>8, <2>1, <3>1 DEF Nearest
      <3>2. CASE m \in news
        <4>1. k \in 0 .. d
          BY <1>2, <1>4, <2>1, <3>2
        <4>2. m \notin DOMAIN fo
          BY <3>2 DEF Visits
        <4>3. QED
          BY <1>6, <4>1, <4>2
      <3>3. QED
        BY <1>4, <3>1, <3>2
    <2>2. QED
      BY <2>1 DEF Nearest
  <1>10. ASSUME NEW i \in 1 .. Len(after)
         PROVE  /\ d <= more[after[i]].depth /\ more[after[i]].depth <= d + 1 /\ more[after[i]].depth \in Nat
                /\ i + 1 > Len(qu) => more[after[i]].depth = d + 1
                /\ i + 1 \in 1 .. Len(qu) => after[i] = qu[i + 1] /\ more[after[i]] = fo[qu[i + 1]]
    <2>1. CASE i + 1 \in 1 .. Len(qu) /\ after[i] = qu[i + 1]
      <3>1. 1 <= i + 1 /\ qu[i + 1] \in DOMAIN fo
        BY <1>2, <2>1
      <3>2. fo[qu[1]].depth <= fo[qu[i + 1]].depth /\ fo[qu[i + 1]].depth <= fo[qu[1]].depth + 1
        BY <1>2, <1>8, <2>1, <3>1, Zenon DEF Ordered
      <3>3. fo[qu[i + 1]].depth \in 0 .. B
        BY <1>7, <3>1
      <3>4. more[after[i]] = fo[qu[i + 1]]
        BY <1>5, <2>1, <3>1
      <3>5. d = fo[qu[1]].depth
        BY <1>2 DEF d
      <3>6. ~(i + 1 > Len(qu))
        BY <1>2, <2>1
      <3>7. QED
        BY <2>1, <3>2, <3>3, <3>4, <3>5, <3>6
    <2>2. CASE i + 1 > Len(qu) /\ after[i] \in news
      <3>1. more[after[i]].depth = d + 1
        BY <1>4, <2>2
      <3>2. ~(i + 1 \in 1 .. Len(qu))
        BY <1>2, <2>2
      <3>3. QED
        BY <1>2, <2>2, <3>1, <3>2
    <2>3. QED
      BY <1>3, <2>1, <2>2, Zenon
  <1>11. Ordered(more, after)
    <2>1. ASSUME NEW i \in 1 .. Len(after), NEW j \in 1 .. Len(after), i <= j
          PROVE  more[after[i]].depth <= more[after[j]].depth /\ more[after[j]].depth <= more[after[i]].depth + 1
      <3> DEFINE p == more[after[i]].depth
                 q == more[after[j]].depth
      <3>1. d <= p /\ p <= d + 1 /\ p \in Nat /\ d <= q /\ q <= d + 1 /\ q \in Nat
        BY <1>10
      <3>2. CASE j + 1 > Len(qu)
        <4>1. q = d + 1
          BY <1>10, <3>2
        <4> HIDE DEF p, q
        <4>2. p <= q /\ q <= p + 1
          BY <1>2, <3>1, <4>1
        <4>3. QED
          BY <4>2 DEF p, q
      <3>3. CASE ~(j + 1 > Len(qu))
        <4>1. i + 1 \in 1 .. Len(qu) /\ j + 1 \in 1 .. Len(qu) /\ i + 1 <= j + 1
          BY <1>2, <1>3, <2>1, <3>3
        <4>2. p = fo[qu[i + 1]].depth /\ q = fo[qu[j + 1]].depth
          BY <1>10, <4>1, Zenon
        <4>3. /\ fo[qu[i + 1]].depth <= fo[qu[j + 1]].depth
              /\ fo[qu[j + 1]].depth <= fo[qu[i + 1]].depth + 1
          BY <1>8, <4>1, Zenon DEF Ordered
        <4>4. QED
          BY <4>2, <4>3, Zenon
      <3>4. QED
        BY <3>2, <3>3
    <2>2. QED
      BY <2>1, Zenon DEF Ordered
  <1>12. Followed(R, B, more, after)
    <2>1. ASSUME NEW m \in DOMAIN more, more[m].depth < B, ~Waiting(after, m) PROVE Ahead(R, {m}) \subseteq DOMAIN more
      <3>1. m \in DOMAIN fo /\ more[m] = fo[m]
        BY <1>3, <1>4, <1>5, <2>1, Zenon
      <3>2. CASE m = n
        BY <1>4, <2>1, <3>1, <3>2 DEF n
      <3>3. CASE m # n
        <4>1. ASSUME NEW i \in 1 .. Len(qu) PROVE qu[i] # m
          <5>1. CASE i = 1
            BY <1>2, <3>3, <5>1
          <5>2. CASE i # 1
            <6>1. i \in 2 .. Len(qu)
              BY <5>2
            <6>2. QED
              BY <1>3, <2>1, <6>1
          <5>3. QED
            BY <5>1, <5>2
        <4>2. ~Waiting(qu, m)
          BY <4>1, Zenon DEF Waiting
        <4>3. Ahead(R, {m}) \subseteq DOMAIN fo
          BY <1>8, <2>1, <3>1, <4>2, Zenon DEF Followed
        <4>4. QED
          BY <1>4, <4>3
      <3>4. QED
        BY <3>2, <3>3
    <2>2. QED
      BY <2>1, Zenon DEF Followed
  <1>13. QED
    BY <1>9, <1>11, <1>12, Zenon DEF Exhaustive, more, after, n

LEMMA BeginIs ==
  ASSUME NEW R, NEW x, NEW B \in Nat
  PROVE  LET fo == [m \in {x} |-> [depth |-> 0, prev |-> x]]
         IN Visited(R, x, B, fo, <<x>>) /\ Exhaustive(R, x, B, fo, <<x>>)
  <1> DEFINE fo == [m \in {x} |-> [depth |-> 0, prev |-> x]]
  <1>1. DOMAIN fo = {x} /\ fo[x].depth = 0
    OBVIOUS
  <1>2. <<x>> \in Seq({x}) /\ Len(<<x>>) = 1 /\ <<x>>[1] = x
    OBVIOUS
  <1>3. Near(x, R, 0) = {x}
    BY NearIs
  <1> HIDE DEF fo
  <1>4. Visited(R, x, B, fo, <<x>>)
    BY <1>1, <1>2, <1>3 DEF Visited
  <1>5. Nearest(R, x, fo)
    BY <1>1 DEF Nearest
  <1>6. Ordered(fo, <<x>>)
    BY <1>1, <1>2 DEF Ordered
  <1>7. Waiting(<<x>>, x)
    BY <1>2 DEF Waiting
  <1>8. Followed(R, B, fo, <<x>>)
    BY <1>1, <1>7 DEF Followed
  <1>9. QED
    BY <1>4, <1>5, <1>6, <1>8 DEF Exhaustive, fo

------------------------------------------------------------------------------
(* The way back from what was found to where the search began. *)
Traced(R, x, B, fo) ==
  \A m \in DOMAIN fo :
    /\ fo[m].depth \in 0 .. B /\ fo[m].prev \in DOMAIN fo
    /\ fo[m].depth = 0 => m = x
    /\ fo[m].depth # 0 => fo[fo[m].prev].depth + 1 = fo[m].depth /\ m \in Ahead(R, {fo[m].prev})
Trail(R, x, fo, s, m) ==
  /\ s \in Seq(DOMAIN fo) /\ Len(s) = fo[m].depth + 1
  /\ s[1] = x /\ s[Len(s)] = m
  /\ \A i \in 1 .. (Len(s) - 1) : s[i + 1] \in Ahead(R, {s[i]})

LEMMA TrailGrows ==
  ASSUME NEW R, NEW x, NEW B \in Nat, NEW fo, Traced(R, x, B, fo), NEW m \in DOMAIN fo, fo[m].depth # 0,
         NEW s, Trail(R, x, fo, s, fo[m].prev)
  PROVE  Trail(R, x, fo, Append(s, m), m)
  <1> DEFINE p == fo[m].prev
             d == fo[p].depth
             t == Append(s, m)
  <1>1. p \in DOMAIN fo /\ d \in 0 .. B /\ d + 1 = fo[m].depth /\ m \in Ahead(R, {p})
    BY Zenon DEF Traced
  <1>2. /\ s \in Seq(DOMAIN fo) /\ Len(s) = d + 1 /\ s[1] = x /\ s[Len(s)] = p
        /\ \A i \in 1 .. (Len(s) - 1) : s[i + 1] \in Ahead(R, {s[i]})
    BY Zenon DEF Trail
  <1>3. t \in Seq(DOMAIN fo) /\ Len(t) = Len(s) + 1 /\ t[Len(s) + 1] = m /\ \A i \in 1 .. Len(s) : t[i] = s[i]
    BY <1>2
  <1> HIDE DEF t, p, d
  <1>4. Len(s) \in Nat /\ 1 \in 1 .. Len(s) /\ Len(s) \in 1 .. Len(s)
    BY <1>1, <1>2
  <1>5. Len(t) = fo[m].depth + 1 /\ t[1] = x /\ t[Len(t)] = m
    BY <1>1, <1>2, <1>3, <1>4
  <1>6. ASSUME NEW i \in 1 .. (Len(t) - 1) PROVE t[i + 1] \in Ahead(R, {t[i]})
    <2>1. CASE i = Len(s)
      <3>1. t[i + 1] = m /\ t[i] = p
        BY <1>2, <1>3, <1>4, <2>1
      <3>2. QED
        BY <1>1, <3>1
    <2>2. CASE i # Len(s)
      <3>1. i \in 1 .. (Len(s) - 1) /\ i \in 1 .. Len(s) /\ i + 1 \in 1 .. Len(s)
        BY <1>3, <1>4, <2>2
      <3>2. t[i + 1] = s[i + 1] /\ t[i] = s[i]
        BY <1>3, <3>1, Zenon
      <3>3. QED
        BY <1>2, <3>1, <3>2, Zenon
    <2>3. QED
      BY <2>1, <2>2
  <1>7. QED
    BY <1>3, <1>5, <1>6, Zenon DEF Trail, t

LEMMA HopsAre ==
  ASSUME NEW R, NEW x, NEW B \in Nat, NEW fo, Traced(R, x, B, fo), query.to \in DOMAIN fo
  PROVE  Trail(R, x, fo, Hops(fo), query.to)
  <1> DEFINE D == DOMAIN fo
             S == [D -> Seq(D)]
             Longer(g) == [n \in D |-> IF fo[n].depth = 0 THEN <<n>> ELSE Append(g[fo[n].prev], n)]
             step == [i \in 1 .. (B + 1) |-> [g \in S |-> Longer(g)]]
             start == [n \in D |-> <<n>>]
             back == CHOOSE g : g = Longer(g)
  <1>1. Hops(fo) = back[query.to]
    BY Zenon DEF Hops
  <1>2. start \in S
    OBVIOUS
  <1>3. \A n \in D : fo[n].prev \in D /\ fo[n].depth \in 0 .. B
    BY DEF Traced
  <1>4. ASSUME NEW g \in S PROVE Longer(g) \in S
    <2>1. ASSUME NEW n \in D PROVE <<n>> \in Seq(D) /\ Append(g[fo[n].prev], n) \in Seq(D)
      BY <1>3
    <2>2. QED
      BY <2>1
  <1>5. \A g : DOMAIN Longer(g) = D
    OBVIOUS
  <1>6. \A g : \A n \in D : Longer(g)[n] = IF fo[n].depth = 0 THEN <<n>> ELSE Append(g[fo[n].prev], n)
    BY Zenon
  <1> HIDE DEF Longer, S
  <1>7. step \in [1 .. (B + 1) -> [S -> S]] /\ \A i \in 1 .. (B + 1) : \A g \in S : step[i][g] = Longer(g)
    BY <1>4
  <1> HIDE DEF step, start, D
  <1>8. B + 1 \in Nat
    OBVIOUS
  <1>9. PICK h : Stepwise(h, S, start, B + 1, step)
    BY <1>2, <1>7, <1>8, Stepped, Zenon
  <1>10. h \in [0 .. (B + 1) -> S] /\ \A i \in 1 .. (B + 1) : h[i] = Longer(h[i - 1])
    <2>1. h \in [0 .. (B + 1) -> S] /\ \A i \in 1 .. (B + 1) : h[i] = step[i][h[i - 1]]
      BY <1>9, Zenon DEF Stepwise
    <2>2. ASSUME NEW i \in 1 .. (B + 1) PROVE i - 1 \in 0 .. (B + 1)
      OBVIOUS
    <2>3. QED
      BY <1>7, <2>1, <2>2
  <1> DEFINE Late == {i \in 1 .. (B + 1) : \E n \in D : fo[n].depth <= i - 1 /\ h[i][n] # h[i - 1][n]}
  <1>11. Late = {}
    <2> SUFFICES ASSUME Late # {} PROVE FALSE
      OBVIOUS
    <2>1. Late \in SUBSET Nat
      OBVIOUS
    <2>2. PICK i \in Late : \A j \in Late : i <= j
      BY <2>1, LeastIs
    <2>3. i \in 1 .. (B + 1) /\ \E n \in D : fo[n].depth <= i - 1 /\ h[i][n] # h[i - 1][n]
      OBVIOUS
    <2>4. PICK n \in D : fo[n].depth <= i - 1 /\ h[i][n] # h[i - 1][n]
      BY <2>3
    <2>5. h[i][n] = IF fo[n].depth = 0 THEN <<n>> ELSE Append(h[i - 1][fo[n].prev], n)
      <3>1. h[i] = Longer(h[i - 1])
        BY <1>10, <2>3, Zenon
      <3>2. Longer(h[i - 1])[n] = IF fo[n].depth = 0 THEN <<n>> ELSE Append(h[i - 1][fo[n].prev], n)
        BY <1>6, Zenon
      <3>3. QED
        BY <3>1, <3>2
    <2>6. CASE fo[n].depth = 0
      <3>1. CASE i = 1
        <4>1. h[0] = start
          BY <1>9, Zenon DEF Stepwise
        <4>2. h[i - 1][n] = <<n>>
          BY <3>1, <4>1 DEF start
        <4>3. QED
          BY <2>4, <2>5, <2>6, <4>2
      <3>2. CASE i # 1
        <4>1. i - 1 \in 1 .. (B + 1)
          BY <2>3, <3>2
        <4>2. h[i - 1] = Longer(h[(i - 1) - 1])
          BY <1>10, <4>1, Zenon
        <4>3. Longer(h[(i - 1) - 1])[n] = <<n>>
          BY <1>6, <2>6, Zenon
        <4>4. h[i - 1][n] = <<n>>
          BY <4>2, <4>3, Zenon
        <4>5. QED
          BY <2>4, <2>5, <2>6, <4>4
      <3>3. QED
        BY <3>1, <3>2
    <2>7. CASE fo[n].depth # 0
      <3> DEFINE p == fo[n].prev
      <3>1. p \in D /\ fo[p].depth + 1 = fo[n].depth /\ fo[p].depth \in 0 .. B /\ fo[n].depth \in 0 .. B
        BY <1>3, <2>7, Zenon DEF Traced, D
      <3> HIDE DEF p
      <3>2. i - 1 \in 1 .. (B + 1) /\ fo[p].depth <= (i - 1) - 1 /\ ~(i <= i - 1)
        BY <2>3, <2>4, <2>7, <3>1
      <3>3. h[i - 1][p] = h[(i - 1) - 1][p]
        BY <2>2, <3>1, <3>2, Zenon
      <3>4. h[i - 1][n] = Append(h[(i - 1) - 1][p], n)
        <4>1. h[i - 1] = Longer(h[(i - 1) - 1])
          BY <1>10, <3>2, Zenon
        <4>2. QED
          BY <1>6, <2>7, <4>1, Zenon DEF p
      <3>5. h[i][n] = Append(h[i - 1][p], n)
        BY <2>5, <2>7 DEF p
      <3>6. QED
        BY <2>4, <3>3, <3>4, <3>5
    <2>8. QED
      BY <2>6, <2>7
  <1>12. h[B + 1] = h[B]
    <2>1. B + 1 \in 1 .. (B + 1) /\ (B + 1) - 1 = B /\ B \in 0 .. (B + 1) /\ B + 1 \in 0 .. (B + 1)
      OBVIOUS
    <2>2. ASSUME NEW n \in D PROVE h[B + 1][n] = h[B][n]
      <3>1. fo[n].depth <= (B + 1) - 1
        BY <1>3
      <3>2. B + 1 \notin Late
        BY <1>11, Zenon
      <3>3. QED
        BY <2>1, <3>1, <3>2, Zenon
    <2>3. h[B + 1] \in [D -> Seq(D)] /\ h[B] \in [D -> Seq(D)]
      BY <1>10, <2>1 DEF S
    <2>4. QED
      BY <2>2, <2>3
  <1>13. h[B] = Longer(h[B])
    <2>1. B + 1 \in 1 .. (B + 1) /\ (B + 1) - 1 = B
      OBVIOUS
    <2>2. QED
      BY <1>10, <1>12, <2>1, Zenon
  <1>14. back = Longer(back)
    BY <1>13, Zenon
  <1> HIDE DEF back
  <1>15. \A n \in D : back[n] = IF fo[n].depth = 0 THEN <<n>> ELSE Append(back[fo[n].prev], n)
    BY <1>6, <1>14, Zenon
  <1> DEFINE Wrong == {d \in 0 .. B : \E n \in D : fo[n].depth = d /\ ~Trail(R, x, fo, back[n], n)}
  <1>16. Wrong = {}
    <2> SUFFICES ASSUME Wrong # {} PROVE FALSE
      OBVIOUS
    <2>1. Wrong \in SUBSET Nat
      OBVIOUS
    <2>2. PICK d \in Wrong : \A j \in Wrong : d <= j
      BY <2>1, LeastIs
    <2>3. d \in 0 .. B /\ \E n \in D : fo[n].depth = d /\ ~Trail(R, x, fo, back[n], n)
      OBVIOUS
    <2>4. PICK n \in D : fo[n].depth = d /\ ~Trail(R, x, fo, back[n], n)
      BY <2>3
    <2>5. CASE d = 0
      <3>1. back[n] = <<n>> /\ n = x
        BY <1>15, <2>4, <2>5, Zenon DEF Traced, D
      <3>2. <<n>> \in Seq(D) /\ Len(<<n>>) = 1 /\ <<n>>[1] = n
        OBVIOUS
      <3>3. Trail(R, x, fo, <<n>>, n)
        BY <2>4, <2>5, <3>1, <3>2 DEF Trail, D
      <3>4. QED
        BY <2>4, <3>1, <3>3, Zenon
    <2>6. CASE d # 0
      <3> DEFINE p == fo[n].prev
      <3>1. p \in D /\ fo[p].depth + 1 = d /\ fo[p].depth \in 0 .. B
        BY <1>3, <2>4, <2>6, Zenon DEF Traced, D
      <3>2. ~(d <= fo[p].depth)
        BY <3>1
      <3>3. Trail(R, x, fo, back[p], p)
        BY <2>2, <3>1, <3>2, Zenon
      <3>4. fo[n].depth # 0 /\ n \in DOMAIN fo
        BY <2>4, <2>6 DEF D
      <3>5. Trail(R, x, fo, Append(back[p], n), n)
        BY <3>3, <3>4, TrailGrows
      <3>6. QED
        BY <1>15, <2>4, <2>6, <3>5, Zenon
    <2>7. QED
      BY <2>5, <2>6
  <1>17. query.to \in D /\ fo[query.to].depth \in 0 .. B
    BY <1>3 DEF D
  <1>18. Trail(R, x, fo, back[query.to], query.to)
    BY <1>16, <1>17, Zenon
  <1>19. QED
    BY <1>1, <1>18

------------------------------------------------------------------------------
(* Levels of dependants: callers and impact. *)
Newest(x, R, k) == IF k = 0 THEN {x} ELSE Near(x, R, k) \ Near(x, R, k - 1)

LEMMA NearNewest ==
  ASSUME NEW x, NEW R, NEW k \in Nat
  PROVE  /\ Near(x, R, k + 1) = Near(x, R, k) \cup Ahead(R, Newest(x, R, k))
         /\ Newest(x, R, k) \subseteq Near(x, R, k)
         /\ Newest(x, R, k + 1) = Ahead(R, Newest(x, R, k)) \ Near(x, R, k)
  <1>1. \A n \in Nat : Near(x, R, n + 1) = Near(x, R, n) \cup Ahead(R, Near(x, R, n))
    BY NearIs
  <1>2. CASE k = 0
    <2>1. Near(x, R, 0) = {x} /\ Newest(x, R, 0) = {x}
      BY NearIs DEF Newest
    <2>2. Near(x, R, k + 1) = Near(x, R, k) \cup Ahead(R, Newest(x, R, k)) /\ Newest(x, R, k) \subseteq Near(x, R, k)
      BY <1>1, <1>2, <2>1
    <2>3. Newest(x, R, k + 1) = Near(x, R, k + 1) \ Near(x, R, k)
      <3>1. k + 1 # 0 /\ (k + 1) - 1 = k
        OBVIOUS
      <3>2. QED
        BY <3>1, Zenon DEF Newest
    <2>4. QED
      BY <2>2, <2>3
  <1>3. CASE k # 0
    <2>1. k - 1 \in Nat /\ (k - 1) + 1 = k
      BY <1>3
    <2>2. Near(x, R, k) = Near(x, R, k - 1) \cup Ahead(R, Near(x, R, k - 1))
      BY <1>1, <2>1, Zenon
    <2>3. Newest(x, R, k) = Near(x, R, k) \ Near(x, R, k - 1)
      BY <1>3, Zenon DEF Newest
    <2>4. Near(x, R, k + 1) = Near(x, R, k) \cup Ahead(R, Near(x, R, k))
      BY <1>1
    <2> DEFINE A == Near(x, R, k - 1)
               C == Near(x, R, k)
               N == Newest(x, R, k)
    <2>5. Ahead(R, C) = Ahead(R, A) \cup Ahead(R, N)
      <3>1. C = A \cup N
        BY <2>2, <2>3
      <3> HIDE DEF A, C, N
      <3>2. Ahead(R, A \cup N) = Ahead(R, A) \cup Ahead(R, N)
        BY DEF Ahead
      <3>3. QED
        BY <3>1, <3>2
    <2>6. Newest(x, R, k + 1) = Near(x, R, k + 1) \ Near(x, R, k)
      <3>1. k + 1 # 0 /\ (k + 1) - 1 = k
        OBVIOUS
      <3>2. QED
        BY <3>1, Zenon DEF Newest
    <2>7. Near(x, R, k + 1) = C \cup Ahead(R, N)
      BY <2>2, <2>4, <2>5
    <2>8. QED
      BY <2>3, <2>6, <2>7
  <1>4. QED
    BY <1>2, <1>3

LEMMA DependantsAre ==
  ASSUME NEW S, S \subseteq project.files
  PROVE  Ahead(Dependants, S) = Direct(UNION {DirsOf(f) : f \in S})
  <1>1. ASSUME NEW g PROVE g \in Ahead(Dependants, S) <=> \E f \in S : g \in Direct(DirsOf(f))
    <2>1. ASSUME NEW f \in S, g \in Direct(DirsOf(f)) PROVE g \in Ahead(Dependants, S)
      <3>1. <<f, g>> \in Dependants
        BY <2>1 DEF Dependants
      <3>2. <<f, g>>[1] = f /\ <<f, g>>[2] = g
        OBVIOUS
      <3>3. QED
        BY <3>1, <3>2, Zenon DEF Ahead
    <2>2. ASSUME g \in Ahead(Dependants, S) PROVE \E f \in S : g \in Direct(DirsOf(f))
      <3>1. PICK l \in Dependants : l[1] \in S /\ l[2] = g
        BY <2>2 DEF Ahead
      <3>2. PICK f \in project.files : \E h \in Direct(DirsOf(f)) : l = <<f, h>>
        BY DEF Dependants
      <3>3. PICK h \in Direct(DirsOf(f)) : l = <<f, h>>
        BY <3>2
      <3>4. l[1] = f /\ l[2] = h
        BY <3>3
      <3>5. QED
        BY <3>1, <3>3, <3>4
    <2>3. QED
      BY <2>1, <2>2
  <1>2. ASSUME NEW g PROVE g \in Direct(UNION {DirsOf(f) : f \in S}) <=> \E f \in S : g \in Direct(DirsOf(f))
    BY DEF Direct
  <1>3. QED
    BY <1>1, <1>2

LEMMA DependantsOne ==
  ASSUME NEW f \in project.files
  PROVE  Ahead(Dependants, {f}) = Direct(DirsOf(f))
  <1>1. UNION {DirsOf(g) : g \in {f}} = DirsOf(f)
    OBVIOUS
  <1>2. QED
    BY <1>1, DependantsAre, Zenon

LEMMA NearFiles ==
  ASSUME NEW f \in project.files, NEW k \in Nat
  PROVE  Near(f, Dependants, k) \subseteq project.files
  <1>1. Near(f, Dependants, 0) \subseteq project.files
    BY NearIs
  <1>2. Ahead(Dependants, project.files) \subseteq project.files
    <2>1. Ahead(Dependants, project.files) = Direct(UNION {DirsOf(g) : g \in project.files})
      BY DependantsAre
    <2>2. QED
      BY <2>1 DEF Direct
  <1>3. 0 \in Nat /\ 0 <= k
    OBVIOUS
  <1>4. QED
    BY <1>1, <1>2, <1>3, NearClosed

\* After k levels of impact: the files found, each with its least distance,
\* and the directories of those found last.
Measured(x, R, fo) ==
  \A f \in DOMAIN fo : fo[f] \in Nat \ {0} /\ f \in Near(x, R, fo[f]) /\ f \notin Near(x, R, fo[f] - 1)
Levels(x, R, B, fo, qu) ==
  /\ Len(qu) \in 1 .. (B + 1) /\ \E T : qu \in Seq(T)
  /\ DOMAIN fo = Near(x, R, Len(qu) - 1) \ {x} /\ Measured(x, R, fo)
  /\ Last(qu) = UNION {DirsOf(f) : f \in Newest(x, R, Len(qu) - 1)}
Exactly(x, R, B, fo) ==
  DOMAIN fo = Near(x, R, B) \ {x} /\ Measured(x, R, fo)

LEMMA AffectedAre ==
  ASSUME NEW x \in project.files, x = query.file, NEW B, Levels(x, Dependants, B, found, queue), B \in Nat
  PROVE  Affected = Newest(x, Dependants, Len(queue)) /\ Len(queue) \in Nat \ {0}
  <1> DEFINE k == Len(queue) - 1
             N == Newest(x, Dependants, k)
  <1>1. k \in Nat /\ k + 1 = Len(queue) /\ Len(queue) \in Nat \ {0}
    BY DEF Levels
  <1>2. Last(queue) = UNION {DirsOf(f) : f \in N} /\ DOMAIN found = Near(x, Dependants, k) \ {x}
    BY DEF Levels
  <1> HIDE DEF k, N
  <1>3. /\ N \subseteq Near(x, Dependants, k)
        /\ Newest(x, Dependants, k + 1) = Ahead(Dependants, N) \ Near(x, Dependants, k)
    BY <1>1, NearNewest DEF N
  <1>4. N \subseteq project.files
    BY <1>1, <1>3, NearFiles
  <1>5. Direct(Last(queue)) = Ahead(Dependants, N)
    BY <1>2, <1>4, DependantsAre, Zenon
  <1>6. x \in Near(x, Dependants, k)
    <2>1. Near(x, Dependants, 0) \subseteq Near(x, Dependants, k)
      BY <1>1, NearGrows
    <2>2. QED
      BY <2>1, NearIs
  <1>7. Affected = Ahead(Dependants, N) \ Near(x, Dependants, k)
    BY <1>2, <1>5, <1>6 DEF Affected
  <1>8. QED
    BY <1>1, <1>3, <1>7

LEMMA ImpactStarts ==
  ASSUME NEW x, NEW R, NEW B \in Nat
  PROVE  Levels(x, R, B, <<>>, <<DirsOf(x)>>)
  <1> DEFINE q == <<DirsOf(x)>>
  <1>1. Len(q) = 1 /\ q \in Seq({DirsOf(x)}) /\ Last(q) = DirsOf(x) /\ Len(q) - 1 = 0
    BY DEF Last
  <1>2. Near(x, R, 0) = {x} /\ Newest(x, R, 0) = {x}
    BY NearIs DEF Newest
  <1>3. DOMAIN <<>> = {}
    OBVIOUS
  <1> HIDE DEF q
  <1>4. UNION {DirsOf(f) : f \in {x}} = DirsOf(x)
    OBVIOUS
  <1>5. Measured(x, R, <<>>)
    BY <1>3, Zenon DEF Measured
  <1>6. Len(q) \in 1 .. (B + 1)
    BY <1>1
  <1>7. Levels(x, R, B, <<>>, q)
    BY <1>1, <1>2, <1>3, <1>4, <1>5, <1>6 DEF Levels
  <1>8. QED
    BY <1>7 DEF q

\* What the files of one more level leave behind: their depths and their directories.
GoesOn(x, R, fo, qu, more, D) ==
  LET A == Newest(x, R, Len(qu)) IN
  /\ DOMAIN more = DOMAIN fo \cup A
  /\ \A f \in A : more[f] = Len(qu)
  /\ \A f \in DOMAIN fo : f \notin A => more[f] = fo[f]
  /\ D = UNION {DirsOf(f) : f \in A}

LEMMA ImpactGoesOn ==
  ASSUME NEW x, NEW R, NEW B \in Nat, NEW fo, NEW qu, Levels(x, R, B, fo, qu), Len(qu) <= B,
         NEW more, NEW D, GoesOn(x, R, fo, qu, more, D)
  PROVE  Levels(x, R, B, more, Append(qu, D))
  <1> PICK A : A = Newest(x, R, Len(qu))
    OBVIOUS
  <1>0. /\ DOMAIN more = DOMAIN fo \cup A /\ \A f \in A : more[f] = Len(qu)
        /\ \A f \in DOMAIN fo : f \notin A => more[f] = fo[f]
        /\ D = UNION {DirsOf(f) : f \in A}
    BY DEF GoesOn
  <1> DEFINE L == Len(qu)
             k == L - 1
             q == Append(qu, D)
  <1>1. L \in 1 .. B /\ k \in Nat /\ k + 1 = L /\ L \in Nat
    BY DEF Levels
  <1>2. (\E T : q \in Seq(T)) /\ Len(q) = L + 1 /\ q[L + 1] = D
    <2>1. PICK T : qu \in Seq(T)
      BY DEF Levels
    <2>2. qu \in Seq(T \cup {D}) /\ D \in T \cup {D}
      BY <2>1
    <2>3. q \in Seq(T \cup {D}) /\ Len(q) = L + 1 /\ q[L + 1] = D
      BY <2>2
    <2>4. QED
      BY <2>3, Zenon
  <1>3. DOMAIN fo = Near(x, R, k) \ {x} /\ Measured(x, R, fo)
    BY Zenon DEF Levels
  <1>4. /\ DOMAIN more = DOMAIN fo \cup A
        /\ \A f \in A : more[f] = L
        /\ \A f \in DOMAIN fo : f \notin A => more[f] = fo[f]
    BY <1>0
  <1>5. A = Near(x, R, L) \ Near(x, R, k) /\ Near(x, R, k) \subseteq Near(x, R, L)
    <2>1. A = Near(x, R, L) \ Near(x, R, L - 1)
      <3>1. L # 0
        BY <1>1
      <3>2. QED
        BY <3>1, Zenon DEF Newest
    <2>2. Near(x, R, k) \subseteq Near(x, R, L)
      BY <1>1, NearGrows
    <2>3. QED
      BY <2>1, <2>2
  <1>6. x \in Near(x, R, k)
    <2>1. Near(x, R, 0) \subseteq Near(x, R, k)
      BY <1>1, NearGrows
    <2>2. QED
      BY <2>1, NearIs
  <1> HIDE DEF q, L
  <1>7. DOMAIN more = Near(x, R, L) \ {x}
    BY <1>3, <1>4, <1>5, <1>6
  <1>8. Measured(x, R, more)
    <2>1. ASSUME NEW f \in A
          PROVE  more[f] \in Nat \ {0} /\ f \in Near(x, R, more[f]) /\ f \notin Near(x, R, more[f] - 1)
      <3>1. L \in Nat \ {0} /\ f \in Near(x, R, L) /\ f \notin Near(x, R, L - 1)
        BY <1>1, <1>5
      <3>2. QED
        BY <1>4, <3>1, Zenon
    <2>2. ASSUME NEW f \in DOMAIN fo, f \notin A
          PROVE  more[f] \in Nat \ {0} /\ f \in Near(x, R, more[f]) /\ f \notin Near(x, R, more[f] - 1)
      BY <1>3, <1>4, <2>2, Zenon DEF Measured
    <2>3. QED
      BY <1>4, <2>1, <2>2, Zenon DEF Measured
  <1>9. Len(q) - 1 = L /\ Len(q) \in 1 .. (B + 1) /\ Last(q) = D
    BY <1>1, <1>2 DEF Last
  <1>10. D = UNION {DirsOf(f) : f \in Newest(x, R, L)}
    BY <1>0, Zenon DEF L
  <1>11. Levels(x, R, B, more, q)
    BY <1>2, <1>7, <1>8, <1>9, <1>10, Zenon DEF Levels
  <1>12. QED
    BY <1>11, Zenon DEF q, L

LEMMA ImpactEnds ==
  ASSUME NEW x, NEW R, NEW B \in Nat, NEW fo, NEW qu, Levels(x, R, B, fo, qu),
         Newest(x, R, Len(qu)) = {} \/ Len(qu) > B
  PROVE  Exactly(x, R, B, fo)
  <1> DEFINE L == Len(qu)
             k == L - 1
  <1>1. L \in 1 .. (B + 1) /\ k \in Nat /\ k + 1 = L /\ k <= B
    BY DEF Levels
  <1>2. DOMAIN fo = Near(x, R, k) \ {x} /\ Measured(x, R, fo)
    BY Zenon DEF Levels
  <1>3. Near(x, R, k) = Near(x, R, B)
    <2>1. CASE L > B
      <3>1. k = B
        <4> HIDE DEF k, L
        <4>1. QED
          BY <1>1, <2>1
      <3>2. QED
        BY <3>1
    <2>2. CASE Newest(x, R, L) = {}
      <3>1. Ahead(R, Newest(x, R, k)) \ Near(x, R, k) = {}
        BY <1>1, <2>2, NearNewest
      <3>2. /\ Near(x, R, k + 1) = Near(x, R, k) \cup Ahead(R, Newest(x, R, k))
            /\ Near(x, R, k + 1) = Near(x, R, k) \cup Ahead(R, Near(x, R, k))
        <4>1. Near(x, R, k + 1) = Near(x, R, k) \cup Ahead(R, Newest(x, R, k))
          BY <1>1, NearNewest
        <4>2. \A n \in Nat : Near(x, R, n + 1) = Near(x, R, n) \cup Ahead(R, Near(x, R, n))
          BY NearIs
        <4>3. QED
          BY <1>1, <4>1, <4>2, Zenon
      <3>3. Ahead(R, Near(x, R, k)) \subseteq Near(x, R, k)
        BY <3>1, <3>2
      <3>4. Near(x, R, B) \subseteq Near(x, R, k)
        BY <1>1, <3>3, NearClosed
      <3>5. Near(x, R, k) \subseteq Near(x, R, B)
        BY <1>1, NearGrows
      <3>6. QED
        BY <3>4, <3>5
    <2>3. QED
      BY <2>1, <2>2
  <1>4. QED
    BY <1>2, <1>3, Zenon DEF Exactly

LEMMA CallersAre ==
  ASSUME query.file \in project.files
  PROVE  /\ Direct(DirsOf(query.file)) \ {query.file} = Within(1)
         /\ Transitive(query.file) = Within(2) \ Within(1)
  <1> DEFINE x == query.file
             A == Direct(DirsOf(x))
             T == UNION {Direct(DirsOf(f)) : f \in A}
             R == Dependants
  <1>1. Near(x, R, 0) = {x} /\ \A n \in Nat : Near(x, R, n + 1) = Near(x, R, n) \cup Ahead(R, Near(x, R, n))
    BY NearIs
  <1>2. Near(x, R, 0 + 1) = {x} \cup Ahead(R, {x}) /\ 0 + 1 = 1
    BY <1>1
  <1>3. Near(x, R, 1 + 1) = Near(x, R, 1) \cup Ahead(R, Near(x, R, 1)) /\ 1 + 1 = 2
    BY <1>1
  <1>4. Ahead(R, {x}) = A
    BY DependantsOne
  <1>5. A \subseteq project.files
    BY DEF Direct
  <1>6. ASSUME NEW f \in A PROVE Ahead(R, {f}) = Direct(DirsOf(f))
    BY <1>5, DependantsOne
  <1>7. Ahead(R, {x} \cup A) = A \cup T
    <2>1. Ahead(R, {x} \cup A) \subseteq A \cup T
      <3>1. \A f \in {x} \cup A : Ahead(R, {f}) \subseteq A \cup T
        <4>1. \A f \in A : Direct(DirsOf(f)) \subseteq T
          BY Zenon
        <4> HIDE DEF A, T, x, R
        <4>2. QED
          BY <1>4, <1>6, <4>1
      <3> HIDE DEF A, T, x, R
      <3>2. QED
        BY <3>1 DEF Ahead
    <2>2. ASSUME NEW f \in {x} \cup A PROVE Ahead(R, {f}) \subseteq Ahead(R, {x} \cup A)
      BY DEF Ahead
    <2>3. x \in {x} \cup A /\ \A f \in A : f \in {x} \cup A
      OBVIOUS
    <2>4. T = UNION {Direct(DirsOf(f)) : f \in A}
      OBVIOUS
    <2> HIDE DEF A, T, x, R
    <2>5. A \subseteq Ahead(R, {x} \cup A)
      BY <1>4, <2>2, <2>3
    <2>6. ASSUME NEW f \in A PROVE Direct(DirsOf(f)) \subseteq Ahead(R, {x} \cup A)
      BY <1>6, <2>2, <2>3
    <2>7. T \subseteq Ahead(R, {x} \cup A)
      BY <2>4, <2>6
    <2>8. QED
      BY <2>1, <2>5, <2>7
  <1>8. Within(1) = A \ {x}
    <2>1. Near(x, R, 1) = {x} \cup A
      BY <1>2, <1>4
    <2>2. QED
      BY <2>1 DEF Within
  <1>9. Near(x, R, 2) = {x} \cup A \cup T
    BY <1>2, <1>3, <1>4, <1>7
  <1>10. Within(2) = ({x} \cup A \cup T) \ {x}
    BY <1>9, Zenon DEF Within
  <1>11. Transitive(x) = T \ (A \cup {x})
    BY Zenon DEF Transitive
  <1> HIDE DEF A, T, x
  <1>12. Within(1) = A \ {x} /\ Transitive(x) = Within(2) \ Within(1)
    BY <1>8, <1>10, <1>11
  <1>13. QED
    BY <1>12 DEF A, x

------------------------------------------------------------------------------
(* The invariant of a question that is being answered. *)

\* What each kind of question has found while it is open: what is found is as
\* near as its depth says, and near enough what is not queued was followed.
Fresh == found = <<>> /\ edges = {} /\ cut = FALSE
ImpactOpen == Levels(query.file, Dependants, ImpactBudget, found, queue)
PathOpen ==
  /\ query.from # query.to /\ query.to \notin DOMAIN found /\ DOMAIN found \subseteq Places
  /\ either \in BOOLEAN /\ (either => query.both /\ (cut \/ query.to \notin Around(FALSE, PathBudget)))
  /\ Visited(Links(either), query.from, PathBudget, found, queue)
  /\ Exhaustive(Links(either), query.from, PathBudget, found, queue)
  /\ Traced(Links(either), query.from, PathBudget, found)
WalkOpen ==
  /\ either = query.both /\ DOMAIN found \subseteq Places
  /\ IsFiniteSet(edges) /\ Cardinality(edges) <= EdgeBudget
  /\ \A e \in edges : e[1] \in DOMAIN found /\ e[2] \in DOMAIN found
  /\ Visited(Links(either), query.from, WalkBudget, found, queue)
  /\ cut \/ Exhaustive(Links(either), query.from, WalkBudget, found, queue)
GraphInv ==
  /\ Posed /\ cut \in BOOLEAN
  /\ asked = "new" => Fresh
  /\ asked = "open" /\ query.kind = "impact" => ImpactOpen
  /\ asked = "open" /\ query.kind = "path" => PathOpen
  /\ asked = "open" /\ query.kind = "walk" => WalkOpen
  /\ AnswersExact

LEMMA BudgetsAreNatural ==
  ASSUME Posed
  PROVE  /\ query.kind = "impact" => ImpactBudget \in Nat
         /\ query.kind = "path" => PathBudget \in Nat
         /\ query.kind = "walk" => WalkBudget \in Nat /\ EdgeBudget \in Nat
  <1>1. {ImpactDepth, ImpactCap, PathDepth, PathCap, WalkDepth, WalkCap, MaxVisits, MaxEdges} \subseteq Nat
    BY GraphBounds
  <1>2. /\ query.kind = "impact" => query.depth \in Nat
        /\ query.kind = "path" => query.depth \in Nat
        /\ query.kind = "walk" => query.depth \in Nat /\ query.limit \in Nat
    BY QueriesAreSound DEF Posed
  <1>3. query.kind = "impact" => ImpactBudget \in Nat
    BY <1>1, <1>2, Zenon DEF ImpactBudget
  <1>4. query.kind = "path" => PathBudget \in Nat
    BY <1>1, <1>2, Zenon DEF PathBudget, Budget
  <1>5. query.kind = "walk" => WalkBudget \in Nat
    BY <1>1, <1>2, Zenon DEF WalkBudget, Budget
  <1>6. query.kind = "walk" => EdgeBudget \in Nat
    BY <1>1, <1>2, Zenon DEF EdgeBudget
  <1>7. QED
    BY <1>3, <1>4, <1>5, <1>6

LEMMA PosedStays ==
  ASSUME Posed, Given
  PROVE  Posed'
  <1>1. project' = project /\ stored' = stored /\ query' = query
    BY DEF Given
  <1>2. QED
    BY <1>1 DEF Posed

LEMMA LinksStay ==
  ASSUME Given, either' = either
  PROVE  Links(either)' = Links(either)
  <1>1. project' = project /\ stored' = stored /\ query' = query /\ Nodes' = Nodes
    BY GraphStays DEF Given
  <1>2. QED
    BY <1>1 DEF Links, Adjacent, Onward, Backward

\* What an answer has to be stays with the question.
LEMMA ExactStays ==
  ASSUME Given, NEW a, NEW c
  PROVE  /\ ImpactExact(a) => ImpactExact(a)'
         /\ CallersExact(a) => CallersExact(a)'
         /\ PathExact(a, c) => PathExact(a, c)'
         /\ WalkExact(a, c) => WalkExact(a, c)'
  <1>1. project' = project /\ stored' = stored /\ query' = query
    BY DEF Given
  <1>2. ImpactExact(a) => ImpactExact(a)'
    BY <1>1, GraphStays DEF ImpactExact, Within
  <1>3. CallersExact(a) => CallersExact(a)'
    BY <1>1, GraphStays DEF CallersExact, Within
  <1>4. ASSUME NEW b
        PROVE  /\ Links(b)' = Links(b) /\ \A h : Adjacent(h, b)' = Adjacent(h, b)
    <2>1. Nodes' = Nodes
      BY GraphStays
    <2>2. \A h : Adjacent(h, b)' = Adjacent(h, b)
      BY <1>1 DEF Adjacent, Onward, Backward
    <2>3. Links(b)' = Links(b)
      BY <1>1, <2>1 DEF Links, Adjacent, Onward, Backward
    <2>4. QED
      BY <2>2, <2>3
  <1>5. Links(query.both)' = Links(query.both)
    <2>1. Nodes' = Nodes
      BY GraphStays
    <2>2. QED
      BY <1>1, <2>1 DEF Links, Adjacent, Onward, Backward
  <1>6. PathBudget' = PathBudget /\ WalkBudget' = WalkBudget /\ EdgeBudget' = EdgeBudget
    BY GraphStays
  <1>7. PathExact(a, c) => PathExact(a, c)'
    <2> DEFINE b == ~a.directed
    <2>1. Links(b)' = Links(b) /\ \A h : Adjacent(h, b)' = Adjacent(h, b)
      BY <1>4
    <2>2. Links(FALSE)' = Links(FALSE)
      BY <1>4
    <2>3. Walkable(a.hops, b)' <=> Walkable(a.hops, b)
      BY <2>1 DEF Walkable
    <2>4. /\ Around(b, Len(a.hops) - 1 - 1)' = Around(b, Len(a.hops) - 1 - 1)
          /\ Around(FALSE, PathBudget)' = Around(FALSE, PathBudget)
          /\ Around(query.both, PathBudget)' = Around(query.both, PathBudget)
      BY <1>1, <1>5, <1>6, <2>1, <2>2 DEF Around
    <2>5. QED
      BY <1>1, <1>6, <2>3, <2>4 DEF PathExact
  <1>8. WalkExact(a, c) => WalkExact(a, c)'
    <2>1. Around(query.both, WalkBudget)' = Around(query.both, WalkBudget)
      BY <1>1, <1>5, <1>6 DEF Around
    <2>2. QED
      BY <1>6, <2>1 DEF WalkExact
  <1>9. QED
    BY <1>2, <1>3, <1>7, <1>8

\* An answer that is what it has to be keeps the invariant.
LEMMA Answered ==
  ASSUME GraphInv, Given, NEW a, Answer(a), cut' \in BOOLEAN,
         query.kind = "impact" => ImpactExact(a), query.kind = "callers" => CallersExact(a),
         query.kind = "path" => PathExact(a, cut'), query.kind = "walk" => WalkExact(a, cut')
  PROVE  GraphInv'
  <1>1. PICK c : c = cut'
    OBVIOUS
  <1>2. answer' = a /\ asked' = "answered" /\ query' = query
    BY DEF Answer, Given
  <1>3. Posed'
    BY PosedStays DEF GraphInv
  <1>4. /\ query.kind = "impact" => ImpactExact(a)'
        /\ query.kind = "callers" => CallersExact(a)'
    BY ExactStays
  <1>5. query.kind = "path" => PathExact(a, c)'
    <2>1. query.kind = "path" => PathExact(a, c)
      BY <1>1
    <2>2. QED
      BY <2>1, ExactStays
  <1>6. query.kind = "walk" => WalkExact(a, c)'
    <2>1. query.kind = "walk" => WalkExact(a, c)
      BY <1>1
    <2>2. QED
      BY <2>1, ExactStays
  <1>7. AnswersExact'
    BY <1>1, <1>2, <1>4, <1>5, <1>6 DEF AnswersExact, ImpactExact, CallersExact, PathExact, WalkExact
  <1>8. asked' # "new" /\ asked' # "open"
    BY <1>2
  <1>9. QED
    BY <1>3, <1>7, <1>8 DEF GraphInv

LEMMA AskCallersKeeps ==
  ASSUME GraphInv, AskCallers
  PROVE  GraphInv'
  <1> DEFINE a == [direct |-> Direct(DirsOf(query.file)), transitive |-> Transitive(query.file)]
  <1>1. query.kind = "callers" /\ Given /\ cut' = cut /\ Answer(a)
    BY DEF AskCallers
  <1>2. query.file \in project.files
    BY <1>1, QueriesAreSound DEF GraphInv, Posed
  <1>3. CallersExact(a)
    BY <1>2, CallersAre DEF CallersExact
  <1> HIDE DEF a
  <1>4. query.kind # "impact" /\ query.kind # "path" /\ query.kind # "walk" /\ cut' \in BOOLEAN
    BY <1>1 DEF GraphInv
  <1>5. QED
    BY <1>1, <1>3, <1>4, Answered

LEMMA AskDeadKeeps ==
  ASSUME GraphInv, AskDead
  PROVE  GraphInv'
  <1> DEFINE a == [dead |-> {f \in project.files : f.lang # "md" /\ Direct({f.dir}) = {}}]
  <1>1. query.kind = "dead" /\ Given /\ cut' = cut /\ Answer(a)
    BY DEF AskDead
  <1> HIDE DEF a
  <1>2. /\ query.kind # "impact" /\ query.kind # "path" /\ query.kind # "walk" /\ query.kind # "callers"
        /\ cut' \in BOOLEAN
    BY <1>1 DEF GraphInv
  <1>3. QED
    BY <1>1, <1>2, Answered

LEMMA ImpactSettled ==
  ASSUME Posed, query.kind = "impact"
  PROVE  query.file \in project.files /\ ImpactBudget \in Nat
  BY QueriesAreSound, BudgetsAreNatural DEF Posed

LEMMA AskImpactKeeps ==
  ASSUME GraphInv, AskImpact
  PROVE  GraphInv'
  <1>1. /\ query.kind = "impact" /\ Given /\ asked = "new" /\ asked' = "open" /\ queue' = <<DirsOf(query.file)>>
        /\ found' = found /\ cut' = cut
    BY DEF AskImpact
  <1>2. found = <<>> /\ Posed /\ cut \in BOOLEAN
    BY <1>1 DEF GraphInv, Fresh
  <1>3. Levels(query.file, Dependants, ImpactBudget, <<>>, <<DirsOf(query.file)>>)
    BY <1>1, <1>2, ImpactSettled, ImpactStarts
  <1>4. query' = query /\ Dependants' = Dependants /\ ImpactBudget' = ImpactBudget
    BY <1>1, GraphStays DEF Given
  <1>5. ImpactOpen'
    BY <1>1, <1>2, <1>3, <1>4 DEF ImpactOpen
  <1>6. Posed'
    BY <1>1, <1>2, PosedStays
  <1>7. QED
    BY <1>1, <1>2, <1>4, <1>5, <1>6 DEF GraphInv, AnswersExact

LEMMA ExpandImpactKeeps ==
  ASSUME GraphInv, ExpandImpact
  PROVE  GraphInv'
  <1> DEFINE x == query.file
             R == Dependants
             B == ImpactBudget
  <1>1. query.kind = "impact" /\ Given /\ asked = "open" /\ cut' = cut
    BY DEF ExpandImpact
  <1>2. Posed /\ cut \in BOOLEAN /\ Levels(x, R, B, found, queue) /\ x \in project.files /\ B \in Nat
    BY <1>1, ImpactSettled DEF GraphInv, ImpactOpen
  <1>3. Affected = Newest(x, R, Len(queue)) /\ Len(queue) \in Nat \ {0}
    BY <1>2, AffectedAre
  <1>4. CASE Affected = {} \/ Len(queue) > B
    <2>1. Answer(found)
      BY <1>4 DEF ExpandImpact
    <2>2. Exactly(x, R, B, found)
      BY <1>2, <1>3, <1>4, ImpactEnds
    <2>3. ImpactExact(found)
      <3>1. DOMAIN found = Within(B)
        BY <2>2 DEF Exactly, Within
      <3>2. ASSUME NEW f \in DOMAIN found PROVE f \in Within(found[f]) /\ f \notin Within(found[f] - 1)
        <4>1. f \in Near(x, R, found[f]) /\ f \notin Near(x, R, found[f] - 1) /\ f # x
          BY <2>2 DEF Exactly, Measured
        <4>2. QED
          BY <4>1 DEF Within
      <3>3. QED
        BY <3>1, <3>2 DEF ImpactExact
    <2>4. query.kind # "callers" /\ query.kind # "path" /\ query.kind # "walk" /\ cut' \in BOOLEAN
      BY <1>1, <1>2
    <2>5. PICK a : a = found
      OBVIOUS
    <2>6. QED
      BY <1>1, <2>1, <2>3, <2>4, Answered
  <1>5. CASE ~(Affected = {} \/ Len(queue) > B)
    <2> DEFINE A == Affected
               more == [f \in DOMAIN found \cup A |-> IF f \in A THEN Len(queue) ELSE found[f]]
               D == UNION {DirsOf(f) : f \in A}
               q == Append(queue, D)
    <2>1. found' = more /\ queue' = q /\ asked' = "open"
      BY <1>1, <1>5 DEF ExpandImpact
    <2>2. Len(queue) <= B
      BY <1>2, <1>3, <1>5
    <2>3. Levels(x, R, B, more, q)
      <3>1. A = Newest(x, R, Len(queue))
        BY <1>3
      <3>2. /\ DOMAIN more = DOMAIN found \cup A
            /\ \A f \in A : more[f] = Len(queue)
            /\ \A f \in DOMAIN found : f \notin A => more[f] = found[f]
        OBVIOUS
      <3>3. D = UNION {DirsOf(f) : f \in A}
        OBVIOUS
      <3> HIDE DEF A, D, more, x, R, B
      <3>4. GoesOn(x, R, found, queue, more, D)
        BY <3>1, <3>2, <3>3 DEF GoesOn
      <3>5. QED
        BY <1>2, <2>2, <3>4, ImpactGoesOn, Zenon
    <2>4. query' = query /\ Dependants' = Dependants /\ ImpactBudget' = ImpactBudget
      BY <1>1, GraphStays DEF Given
    <2>5. ImpactOpen'
      BY <2>1, <2>3, <2>4 DEF ImpactOpen
    <2>6. Posed'
      BY <1>1, <1>2, PosedStays
    <2>7. QED
      BY <1>1, <1>2, <2>1, <2>4, <2>5, <2>6 DEF GraphInv, AnswersExact
  <1>6. QED
    BY <1>4, <1>5

------------------------------------------------------------------------------
(* A shortest path. *)
LEMMA TracedKeeps ==
  ASSUME NEW R, NEW x, NEW B \in Nat, NEW fo, NEW qu, NEW news,
         Visited(R, x, B, fo, qu), Traced(R, x, B, fo), Visits(R, B, fo, qu, news)
  PROVE  Traced(R, x, B, Extended(fo, Head(qu), news))
  <1> DEFINE n == Head(qu)
             d == fo[n].depth
             more == Extended(fo, n, news)
  <1>1. n \in DOMAIN fo /\ d \in 0 .. B
    <2>1. qu # <<>>
      BY DEF Visits
    <2>2. QED
      BY <2>1, HeadIs
  <1>2. Grown(more, fo, n, news)
    BY ExtendedIs
  <1>3. /\ news \subseteq Ahead(R, {n}) /\ \A m \in DOMAIN fo : m \notin news
        /\ \A m \in news : d < B
    BY DEF Visits
  <1> HIDE DEF more, n, d
  <1>4. /\ DOMAIN more = DOMAIN fo \cup news
        /\ \A m \in news : more[m].depth = d + 1 /\ more[m].prev = n
        /\ \A m \in DOMAIN fo : more[m] = fo[m]
    BY <1>2, <1>3 DEF Grown, d
  <1>5. ASSUME NEW m \in DOMAIN more
        PROVE  /\ more[m].depth \in 0 .. B /\ more[m].prev \in DOMAIN more
               /\ more[m].depth = 0 => m = x
               /\ more[m].depth # 0 => more[more[m].prev].depth + 1 = more[m].depth /\ m \in Ahead(R, {more[m].prev})
    <2>1. CASE m \in DOMAIN fo
      <3>1. /\ fo[m].depth \in 0 .. B /\ fo[m].prev \in DOMAIN fo
            /\ fo[m].depth = 0 => m = x
            /\ fo[m].depth # 0 => fo[fo[m].prev].depth + 1 = fo[m].depth /\ m \in Ahead(R, {fo[m].prev})
        BY <2>1, Zenon DEF Traced
      <3>2. more[m] = fo[m] /\ more[fo[m].prev] = fo[fo[m].prev]
        BY <1>4, <2>1, <3>1
      <3>3. QED
        BY <1>4, <3>1, <3>2
    <2>2. CASE m \in news
      <3>1. more[m].depth = d + 1 /\ more[m].prev = n /\ m \in Ahead(R, {n}) /\ d < B
        BY <1>3, <1>4, <2>2
      <3>2. more[n] = fo[n] /\ n \in DOMAIN more
        BY <1>1, <1>4
      <3>3. d + 1 \in 0 .. B /\ d + 1 # 0
        BY <1>1, <3>1
      <3>4. more[n].depth = d
        BY <3>2 DEF d
      <3>5. QED
        BY <3>1, <3>2, <3>3, <3>4
    <2>3. QED
      BY <1>4, <2>1, <2>2
  <1>6. QED
    BY <1>5, Zenon DEF Traced, more, n

LEMMA TracedBegins ==
  ASSUME NEW R, NEW x, NEW B \in Nat
  PROVE  Traced(R, x, B, [m \in {x} |-> [depth |-> 0, prev |-> x]])
  BY DEF Traced

\* A search for a path that begins at its start.
LEMMA PathBegins ==
  ASSUME Posed, query.kind = "path", Given, query.from # query.to, cut' \in BOOLEAN, NEW b \in BOOLEAN, Begin(query.from, b),
         b => query.both /\ (cut' \/ query.to \notin Around(FALSE, PathBudget)), AnswersExact'
  PROVE  GraphInv'
  <1> DEFINE x == query.from
             fo == [m \in {x} |-> [depth |-> 0, prev |-> x]]
             B == PathBudget
  <1>1. asked' = "open" /\ queue' = <<x>> /\ either' = b /\ found' = fo
    BY DEF Begin
  <1>2. query' = query /\ B' = B /\ Places' = Places /\ project' = project /\ stored' = stored /\ Nodes' = Nodes
    BY GraphStays DEF Given
  <1>3. Links(either)' = Links(b) /\ Links(FALSE)' = Links(FALSE)
    BY <1>1, <1>2 DEF Links, Adjacent, Onward, Backward
  <1>4. B \in Nat
    BY BudgetsAreNatural
  <1>5. Visited(Links(b), x, B, fo, <<x>>) /\ Exhaustive(Links(b), x, B, fo, <<x>>)
    BY <1>4, BeginIs
  <1>6. Traced(Links(b), x, B, fo)
    BY <1>4, TracedBegins
  <1>7. DOMAIN fo = {x}
    OBVIOUS
  <1> HIDE DEF fo, B
  <1>8. Around(FALSE, PathBudget)' = Around(FALSE, PathBudget)
    BY <1>2, <1>3 DEF Around, B
  <1>9. PathOpen'
    <2>1. /\ Visited(Links(either), query.from, PathBudget, found, queue)'
          /\ Exhaustive(Links(either), query.from, PathBudget, found, queue)'
          /\ Traced(Links(either), query.from, PathBudget, found)'
      BY <1>1, <1>2, <1>3, <1>5, <1>6 DEF B
    <2>2. query'.from # query'.to /\ query'.to \notin DOMAIN found' /\ DOMAIN found' \subseteq Places'
      BY <1>1, <1>2, <1>7 DEF Places
    <2>3. either' \in BOOLEAN /\ (either' => query'.both /\ (cut' \/ query'.to \notin Around(FALSE, PathBudget)'))
      BY <1>1, <1>2, <1>8
    <2>4. QED
      BY <2>1, <2>2, <2>3 DEF PathOpen
  <1>10. Posed'
    BY PosedStays
  <1>11. QED
    BY <1>1, <1>2, <1>9, <1>10 DEF GraphInv

LEMMA AskPathKeeps ==
  ASSUME GraphInv, AskPath
  PROVE  GraphInv'
  <1>1. query.kind = "path" /\ Given /\ asked = "new" /\ cut' = cut /\ Posed /\ cut \in BOOLEAN
    BY DEF AskPath, GraphInv
  <1>2. CASE query.from = query.to
    <2> DEFINE a == [found |-> TRUE, hops |-> <<query.from>>, directed |-> TRUE]
    <2>1. Answer(a)
      BY <1>2 DEF AskPath
    <2>2. a.found /\ Len(a.hops) = 1 /\ a.hops[1] = query.from /\ Last(a.hops) = query.to /\ a.directed
      BY <1>2 DEF Last
    <2>3. PathBudget \in Nat
      BY <1>1, BudgetsAreNatural
    <2> HIDE DEF a
    <2>4. PathExact(a, cut')
      BY <2>2, <2>3 DEF PathExact, Walkable
    <2>5. query.kind # "callers" /\ query.kind # "impact" /\ query.kind # "walk" /\ cut' \in BOOLEAN
      BY <1>1
    <2>6. PICK c : c = a
      OBVIOUS
    <2>7. QED
      BY <1>1, <2>1, <2>4, <2>5, <2>6, Answered
  <1>3. CASE query.from # query.to
    <2>1. Begin(query.from, FALSE) /\ answer' = answer
      BY <1>3 DEF AskPath
    <2>2. AnswersExact'
      BY <2>1 DEF Begin, AnswersExact
    <2>3. QED
      BY <1>1, <1>3, <2>1, <2>2, PathBegins
  <1>4. QED
    BY <1>2, <1>3

\* A search that ended found no path within the depth, or was cut.
LEMMA GiveUpKeeps ==
  ASSUME GraphInv, asked = "open", query.kind = "path", Given, GiveUp, cut' \in BOOLEAN, cut => cut',
         cut' \/ query.to \notin Around(either, PathBudget)
  PROVE  GraphInv'
  <1>1. Posed /\ PathOpen /\ query.both \in BOOLEAN
    BY QueriesAreSound DEF GraphInv, Posed
  <1>2. query.from # query.to /\ either \in BOOLEAN /\ (either => query.both)
    BY <1>1 DEF PathOpen
  <1>3. CASE query.both /\ ~either
    <2>1. Begin(query.from, TRUE) /\ either = FALSE
      BY <1>2, <1>3 DEF GiveUp
    <2>2. AnswersExact'
      BY <2>1 DEF Begin, AnswersExact
    <2>3. TRUE \in BOOLEAN /\ query.both
      BY <1>3
    <2>4. cut' \/ query.to \notin Around(FALSE, PathBudget)
      BY <2>1
    <2>5. QED
      BY <1>1, <1>2, <2>1, <2>2, <2>3, <2>4, PathBegins
  <1>4. CASE ~(query.both /\ ~either)
    <2>1. Answer(NoPath)
      BY <1>4 DEF GiveUp
    <2>2. either = query.both
      BY <1>1, <1>2, <1>4
    <2>3. ~NoPath.found
      BY DEF NoPath
    <2>4. PathExact(NoPath, cut')
      BY <2>2, <2>3 DEF PathExact
    <2>5. query.kind # "callers" /\ query.kind # "impact" /\ query.kind # "walk"
      OBVIOUS
    <2>6. QED
      BY <2>1, <2>4, <2>5, Answered
  <1>5. QED
    BY <1>3, <1>4

\* Visiting the first that waits on the way along the links.
LEMMA PathVisits ==
  ASSUME Posed, query.kind = "path", PathOpen, queue # <<>>, NEW news,
         news = IF found[Head(queue)].depth >= PathBudget THEN {} ELSE Adjacent(Head(queue), either) \ DOMAIN found
  PROVE  /\ Visits(Links(either), PathBudget, found, queue, news)
         /\ found[Head(queue)].depth < PathBudget => Ahead(Links(either), {Head(queue)}) \subseteq DOMAIN found \cup news
         /\ news \subseteq Nodes /\ PathBudget \in Nat /\ Head(queue) \in DOMAIN found
         /\ found[Head(queue)].depth \in 0 .. PathBudget
  <1> DEFINE n == Head(queue)
             d == found[n].depth
             B == PathBudget
             R == Links(either)
  <1>1. B \in Nat
    BY BudgetsAreNatural
  <1>2. n \in DOMAIN found /\ d \in 0 .. B
    BY <1>1, HeadIs DEF PathOpen
  <1>3. Walks /\ n \in Places
    BY <1>2 DEF Walks, PathOpen
  <1>4. Adjacent(n, either) = Ahead(R, {n}) /\ Adjacent(n, either) \subseteq Nodes /\ IsFiniteSet(Adjacent(n, either))
    BY <1>3, NeighboursAre
  <1>5. IsFiniteSet(news) /\ news \subseteq Adjacent(n, either) /\ news \cap DOMAIN found = {}
    <2>1. news \in SUBSET Adjacent(n, either) /\ news \cap DOMAIN found = {}
      OBVIOUS
    <2>2. QED
      BY <1>4, <2>1, FS_Subset
  <1>6. ~(d < B) => news = {}
    BY <1>1, <1>2
  <1>7. d < B => news = Adjacent(n, either) \ DOMAIN found
    BY <1>1, <1>2
  <1>8. Visits(R, B, found, queue, news)
    BY <1>4, <1>5, <1>6 DEF Visits
  <1>9. d < B => Ahead(R, {n}) \subseteq DOMAIN found \cup news
    BY <1>4, <1>7
  <1>10. QED
    BY <1>1, <1>2, <1>4, <1>5, <1>8, <1>9

LEMMA ReachedIs ==
  ASSUME NEW n, NEW news
  PROVE  Reached(n, news) = Extended(found, n, news)
  BY DEF Reached, Extended

\* The way to the node that was asked for, found at last, is a shortest path.
LEMMA PathFound ==
  ASSUME Posed, query.kind = "path", PathOpen, queue # <<>>, NEW news,
         news = IF found[Head(queue)].depth >= PathBudget THEN {} ELSE Adjacent(Head(queue), either) \ DOMAIN found,
         query.to \in news
  PROVE  PathExact([found |-> TRUE, hops |-> Hops(Reached(Head(queue), news)), directed |-> ~either], cut)
  <1> DEFINE n == Head(queue)
             d == found[n].depth
             B == PathBudget
             R == Links(either)
             x == query.from
             more == Extended(found, n, news)
             h == Hops(more)
             a == [found |-> TRUE, hops |-> Hops(Reached(n, news)), directed |-> ~either]
  <1>1. /\ Visits(R, B, found, queue, news) /\ news \subseteq Nodes /\ B \in Nat
        /\ n \in DOMAIN found /\ d \in 0 .. B
    BY PathVisits
  <1>2. /\ Visited(R, x, B, found, queue) /\ Exhaustive(R, x, B, found, queue) /\ Traced(R, x, B, found)
        /\ query.to \notin DOMAIN found /\ DOMAIN found \subseteq Places /\ either \in BOOLEAN
        /\ either => query.both /\ (cut \/ query.to \notin Around(FALSE, B))
    BY DEF PathOpen
  <1>3. Traced(R, x, B, more)
    BY <1>1, <1>2, TracedKeeps
  <1>4. Grown(more, found, n, news)
    BY ExtendedIs
  <1>5. query.to \in DOMAIN more /\ more[query.to].depth = d + 1 /\ DOMAIN more = DOMAIN found \cup news
    BY <1>4 DEF Grown
  <1>6. Trail(R, x, more, h, query.to)
    BY <1>1, <1>3, <1>5, HopsAre
  <1>7. a.found /\ a.hops = h /\ a.directed = ~either
    BY ReachedIs
  <1>8. \A k \in 0 .. d : Near(x, R, k) \subseteq DOMAIN found
    BY <1>1, <1>2, NearHead
  <1>9. query.to \notin Around(either, d)
    <2>1. d \in 0 .. d
      BY <1>1
    <2>2. QED
      BY <1>2, <1>8, <2>1 DEF Around
  <1>10. d < B
    BY <1>1, <1>2
  <1> HIDE DEF more, h, a, R, B, x, d, n
  <1>11. /\ h \in Seq(DOMAIN more) /\ Len(h) = d + 2 /\ h[1] = x /\ h[Len(h)] = query.to
         /\ \A i \in 1 .. (Len(h) - 1) : h[i + 1] \in Ahead(R, {h[i]})
    BY <1>1, <1>5, <1>6 DEF Trail
  <1>12. Walkable(h, either)
    <2>1. ASSUME NEW i \in 1 .. (Len(h) - 1) PROVE h[i + 1] \in Adjacent(h[i], either)
      <3>1. i \in 1 .. Len(h)
        BY <1>1, <1>11
      <3>2. h[i] \in DOMAIN more
        BY <1>11, <3>1
      <3>3. h[i] \in Places /\ Walks
        BY <1>1, <1>2, <1>5, <3>2 DEF Places, Walks
      <3>4. Adjacent(h[i], either) = Ahead(R, {h[i]})
        BY <3>3, NeighboursAre DEF R
      <3>5. QED
        BY <1>11, <3>4
    <2>2. QED
      BY <2>1 DEF Walkable
  <1>13. Last(h) = query.to /\ Len(h) - 1 = d + 1 /\ d + 1 <= B /\ (d + 1) - 1 = d
    BY <1>1, <1>10, <1>11 DEF Last
  <1>14. (~either) \in BOOLEAN /\ (~(~either)) = either
    BY <1>2
  <1>15. PathExact(a, cut)
    <2>1. a.hops[1] = query.from /\ Last(a.hops) = query.to /\ Len(a.hops) - 1 <= PathBudget
      BY <1>7, <1>11, <1>13 DEF B, x
    <2>2. Walkable(a.hops, ~a.directed) /\ (a.directed \/ query.both)
      BY <1>2, <1>7, <1>12, <1>14
    <2>3. query.to \notin Around(~a.directed, (Len(a.hops) - 1) - 1)
      BY <1>7, <1>9, <1>13, <1>14
    <2>4. cut \/ a.directed \/ query.to \notin Around(FALSE, PathBudget)
      BY <1>2, <1>7 DEF B
    <2>5. QED
      BY <1>7, <2>1, <2>2, <2>3, <2>4, Zenon DEF PathExact
  <1>16. QED
    BY <1>15 DEF a, n

LEMMA PathGoesOn ==
  ASSUME GraphInv, asked = "open", query.kind = "path", Given, PathOpen, queue # <<>>, NEW news,
         news = IF found[Head(queue)].depth >= PathBudget THEN {} ELSE Adjacent(Head(queue), either) \ DOMAIN found,
         query.to \notin news, asked' = asked, either' = either, cut' = cut,
         queue' = Tail(queue) \o SetToSeq(news), found' = Reached(Head(queue), news)
  PROVE  GraphInv'
  <1> DEFINE n == Head(queue)
             B == PathBudget
             R == Links(either)
             x == query.from
             more == Extended(found, n, news)
             q == Tail(queue) \o SetToSeq(news)
  <1>1. Posed /\ cut \in BOOLEAN
    BY DEF GraphInv
  <1>2. /\ Visits(R, B, found, queue, news) /\ news \subseteq Nodes /\ B \in Nat
        /\ found[n].depth < B => Ahead(R, {n}) \subseteq DOMAIN found \cup news
    BY <1>1, PathVisits
  <1>3. /\ Visited(R, x, B, found, queue) /\ Exhaustive(R, x, B, found, queue) /\ Traced(R, x, B, found)
        /\ query.to \notin DOMAIN found /\ DOMAIN found \subseteq Places
        /\ query.from # query.to /\ either \in BOOLEAN
        /\ either => query.both /\ (cut \/ query.to \notin Around(FALSE, B))
    BY DEF PathOpen
  <1>4. Visited(R, x, B, more, q)
    BY <1>2, <1>3, VisitKeeps
  <1>5. Exhaustive(R, x, B, more, q)
    BY <1>2, <1>3, ExhaustiveKeeps
  <1>6. Traced(R, x, B, more)
    BY <1>2, <1>3, TracedKeeps
  <1>7. Grown(more, found, n, news)
    BY ExtendedIs
  <1>8. DOMAIN more \subseteq Places /\ query.to \notin DOMAIN more
    BY <1>2, <1>3, <1>7 DEF Grown, Places
  <1>9. queue' = q /\ found' = more
    BY ReachedIs
  <1>10. query' = query /\ B' = B /\ Places' = Places /\ R' = R
    BY GraphStays, LinksStay DEF Given
  <1>11. Around(FALSE, PathBudget)' = Around(FALSE, PathBudget)
    BY <1>10, GraphStays DEF Around
  <1> HIDE DEF q, more
  <1>12. PathOpen'
    <2>1. /\ Visited(Links(either), query.from, PathBudget, found, queue)'
          /\ Exhaustive(Links(either), query.from, PathBudget, found, queue)'
          /\ Traced(Links(either), query.from, PathBudget, found)'
      BY <1>4, <1>5, <1>6, <1>9, <1>10
    <2>2. query'.from # query'.to /\ query'.to \notin DOMAIN found' /\ DOMAIN found' \subseteq Places'
      BY <1>3, <1>8, <1>9, <1>10
    <2>3. either' \in BOOLEAN /\ (either' => query'.both /\ (cut' \/ query'.to \notin Around(FALSE, PathBudget)'))
      BY <1>3, <1>10, <1>11
    <2>4. QED
      BY <2>1, <2>2, <2>3 DEF PathOpen
  <1>13. Posed'
    BY <1>1, PosedStays
  <1>14. QED
    BY <1>1, <1>10, <1>12, <1>13 DEF GraphInv, AnswersExact

LEMMA VisitOnPathKeeps ==
  ASSUME GraphInv, VisitOnPath
  PROVE  GraphInv'
  <1>1. asked = "open" /\ query.kind = "path" /\ Given
    BY DEF VisitOnPath
  <1>2. Posed /\ cut \in BOOLEAN /\ PathOpen /\ PathBudget \in Nat
    BY <1>1, BudgetsAreNatural DEF GraphInv
  <1>3. CASE queue = <<>>
    <2>1. GiveUp /\ cut' = cut
      BY <1>3 DEF VisitOnPath
    <2>2. \A k \in 0 .. PathBudget : Near(query.from, Links(either), k) \subseteq DOMAIN found
      BY <1>2, <1>3, AllFound DEF PathOpen
    <2>3. query.to \notin Around(either, PathBudget)
      BY <1>2, <2>2 DEF Around, PathOpen
    <2>4. QED
      BY <1>1, <1>2, <2>1, <2>3, GiveUpKeeps
  <1>4. CASE queue # <<>> /\ VisitsSpent
    <2>1. GiveUp /\ cut' = TRUE
      BY <1>4 DEF VisitOnPath
    <2>2. QED
      BY <1>1, <1>2, <2>1, GiveUpKeeps
  <1>5. CASE queue # <<>> /\ ~VisitsSpent
    <2> DEFINE n == Head(queue)
               news == IF found[n].depth >= PathBudget THEN {} ELSE Adjacent(n, either) \ DOMAIN found
               a == [found |-> TRUE, hops |-> Hops(Reached(n, news)), directed |-> ~either]
    <2>1. /\ IF query.to \in news THEN Answer(a) ELSE UNCHANGED <<asked, answer>>
          /\ queue' = Tail(queue) \o SetToSeq(news) /\ found' = Reached(n, news)
          /\ UNCHANGED <<either, cut>>
      BY <1>5, Zenon DEF VisitOnPath
    <2>2. CASE query.to \in news
      <3>1. PathExact(a, cut)
        BY <1>1, <1>2, <1>5, <2>2, PathFound
      <3>2. Answer(a) /\ cut' = cut
        BY <2>1, <2>2, Zenon
      <3>3. query.kind # "callers" /\ query.kind # "impact" /\ query.kind # "walk" /\ cut' \in BOOLEAN
        BY <1>1, <1>2, <3>2
      <3> HIDE DEF a
      <3>4. PathExact(a, cut')
        BY <3>1, <3>2
      <3>5. QED
        BY <1>1, <3>2, <3>3, <3>4, Answered
    <2>3. CASE query.to \notin news
      <3>1. asked' = asked /\ either' = either /\ cut' = cut
        BY <2>1, <2>3, Zenon
      <3>2. QED
        BY <1>1, <1>2, <1>5, <2>1, <2>3, <3>1, PathGoesOn
    <2>4. QED
      BY <2>2, <2>3
  <1>6. QED
    BY <1>3, <1>4, <1>5

------------------------------------------------------------------------------
(* A neighbourhood. *)
LEMMA AskWalkKeeps ==
  ASSUME GraphInv, AskWalk
  PROVE  GraphInv'
  <1> DEFINE x == query.from
             b == query.both
             fo == [m \in {x} |-> [depth |-> 0, prev |-> x]]
             B == WalkBudget
  <1>1. /\ asked = "new" /\ query.kind = "walk" /\ Given /\ edges' = edges /\ cut' = cut /\ answer' = answer
        /\ Begin(x, b)
    BY DEF AskWalk
  <1>2. Posed /\ edges = {} /\ cut = FALSE
    BY <1>1 DEF GraphInv, Fresh
  <1>3. asked' = "open" /\ queue' = <<x>> /\ either' = b /\ found' = fo
    BY <1>1 DEF Begin
  <1>4. query' = query /\ B' = B /\ Places' = Places /\ project' = project /\ stored' = stored /\ Nodes' = Nodes
    BY <1>1, GraphStays DEF Given
  <1>5. Links(either)' = Links(b)
    BY <1>3, <1>4 DEF Links, Adjacent, Onward, Backward
  <1>6. B \in Nat /\ EdgeBudget \in Nat /\ EdgeBudget' = EdgeBudget
    BY <1>1, <1>2, BudgetsAreNatural, GraphStays
  <1>7. Visited(Links(b), x, B, fo, <<x>>) /\ Exhaustive(Links(b), x, B, fo, <<x>>)
    BY <1>6, BeginIs
  <1>8. DOMAIN fo = {x}
    OBVIOUS
  <1> HIDE DEF fo
  <1>9. IsFiniteSet({}) /\ Cardinality({}) = 0
    BY FS_EmptySet
  <1>10. WalkOpen'
    <2>1. /\ Visited(Links(either), query.from, WalkBudget, found, queue)'
          /\ Exhaustive(Links(either), query.from, WalkBudget, found, queue)'
      BY <1>3, <1>4, <1>5, <1>7
    <2>2. either' = query'.both /\ DOMAIN found' \subseteq Places'
      BY <1>3, <1>4, <1>8 DEF Places
    <2>3. edges' = {} /\ Cardinality(edges') <= EdgeBudget'
      BY <1>1, <1>2, <1>6, <1>9
    <2>4. QED
      BY <1>9, <2>1, <2>2, <2>3 DEF WalkOpen
  <1>11. Posed'
    BY <1>1, <1>2, PosedStays
  <1>12. QED
    BY <1>1, <1>2, <1>3, <1>4, <1>10, <1>11 DEF GraphInv, AnswersExact

\* The edges that are taken at a node: as many as there is room for.
FirstEdges(more, room) == {SetToSeq(more)[i] : i \in {k \in DOMAIN SetToSeq(more) : k <= room}}
LEMMA TakenIs ==
  ASSUME NEW more, IsFiniteSet(more), NEW room \in Nat
  PROVE  /\ FirstEdges(more, room) \subseteq more /\ IsFiniteSet(FirstEdges(more, room))
         /\ Cardinality(FirstEdges(more, room)) <= room /\ Cardinality(FirstEdges(more, room)) \in Nat
         /\ ~(Len(SetToSeq(more)) > room) => FirstEdges(more, room) = more
  <1> DEFINE s == SetToSeq(more)
             N == Cardinality(more)
             I == {k \in 1 .. N : k <= room}
             f == [i \in I |-> s[i]]
             taken == FirstEdges(more, room)
  <1>1. /\ s \in [1 .. N -> more] /\ N \in Nat /\ Len(s) = N
        /\ \A x \in more : \E i \in 1 .. N : s[i] = x
    BY SetToSeqIs
  <1>2. taken = {s[i] : i \in I}
    BY <1>1 DEF FirstEdges
  <1> HIDE DEF s, taken
  <1>3. I \in SUBSET (1 .. room) /\ IsFiniteSet(1 .. room) /\ Cardinality(1 .. room) = room
    <2>1. I \in SUBSET (1 .. room)
      BY <1>1
    <2>2. QED
      BY <2>1, FS_Interval
  <1>4. IsFiniteSet(I) /\ Cardinality(I) <= room /\ Cardinality(I) \in Nat
    <2>1. IsFiniteSet(I) /\ Cardinality(I) <= Cardinality(1 .. room)
      BY <1>3, FS_Subset
    <2>2. QED
      BY <1>3, <2>1, FS_CardinalityType
  <1>5. f \in Surjection(I, taken)
    BY <1>2 DEF Surjection
  <1>6. IsFiniteSet(taken) /\ Cardinality(taken) <= Cardinality(I)
    BY <1>4, <1>5, FS_Surjection
  <1>7. Cardinality(taken) \in Nat
    BY <1>6, FS_CardinalityType
  <1>8. taken \subseteq more
    BY <1>1, <1>2
  <1>9. ASSUME ~(Len(s) > room) PROVE taken = more
    <2>1. I = 1 .. N
      BY <1>1, <1>9
    <2>2. QED
      BY <1>1, <1>2, <2>1
  <1>10. QED
    BY <1>4, <1>6, <1>7, <1>8, <1>9 DEF s, taken

LEMMA EdgesAre ==
  ASSUME Posed, query.kind = "walk", NEW n \in Places
  PROVE  /\ IsFiniteSet(EdgesAt(n))
         /\ \A e \in EdgesAt(n) : e[1] = n /\ e[2] \in Adjacent(n, either)
         /\ \A m \in Adjacent(n, either) : \E e \in EdgesAt(n) : e[2] = m
  <1>1. IsFiniteSet(Onward(n)) /\ IsFiniteSet(Backward(n))
    BY NeighboursAre DEF Walks
  <1> DEFINE on == [m \in Onward(n) |-> <<n, m, "on">>]
             back == [m \in Backward(n) |-> <<n, m, "back">>]
             O == {<<n, m, "on">> : m \in Onward(n)}
             A == {<<n, m, "back">> : m \in Backward(n)}
  <1>2. EdgesAt(n) = O \cup (IF either THEN A ELSE {})
    BY DEF EdgesAt
  <1>3. IsFiniteSet(O)
    <2>1. IsFiniteSet({on[m] : m \in DOMAIN on})
      BY <1>1, ImageFinite
    <2>2. QED
      BY <2>1
  <1>4. IsFiniteSet(A)
    <2>1. IsFiniteSet({back[m] : m \in DOMAIN back})
      BY <1>1, ImageFinite
    <2>2. QED
      BY <2>1
  <1>5. \A m \in Onward(n) : <<n, m, "on">> \in O /\ <<n, m, "on">>[2] = m
    OBVIOUS
  <1>6. \A m \in Backward(n) : <<n, m, "back">> \in A /\ <<n, m, "back">>[2] = m
    OBVIOUS
  <1>7. /\ \A e \in O : e[1] = n /\ e[2] \in Onward(n)
        /\ \A e \in A : e[1] = n /\ e[2] \in Backward(n)
    OBVIOUS
  <1> HIDE DEF O, A
  <1>8. IsFiniteSet(EdgesAt(n))
    <2>1. IsFiniteSet(O \cup A) /\ IsFiniteSet(O \cup {})
      BY <1>3, <1>4, SingleFinite, FS_Union
    <2>2. QED
      BY <1>2, <2>1, Zenon
  <1>9. Adjacent(n, either) = Onward(n) \cup (IF either THEN Backward(n) ELSE {})
    BY DEF Adjacent
  <1>10. CASE either
    BY <1>2, <1>5, <1>6, <1>7, <1>8, <1>9, <1>10
  <1>11. CASE ~either
    BY <1>2, <1>5, <1>7, <1>8, <1>9, <1>11
  <1>12. QED
    BY <1>10, <1>11

\* One visit of a walk: what is taken, what is found by it, and whether it is cut.
TakesEdges(more, taken, news) ==
  /\ more = IF found[Head(queue)].depth >= WalkBudget THEN {} ELSE EdgesAt(Head(queue)) \ edges
  /\ taken = FirstEdges(more, EdgeBudget - Cardinality(edges))
  /\ news = {e[2] : e \in taken} \ DOMAIN found

LEMMA WalkVisits ==
  ASSUME Posed, query.kind = "walk", WalkOpen, queue # <<>>, cut \in BOOLEAN, NEW more, NEW taken, NEW news,
         TakesEdges(more, taken, news)
  PROVE  /\ Visits(Links(either), WalkBudget, found, queue, news) /\ WalkBudget \in Nat
         /\ news \subseteq Nodes /\ Head(queue) \in DOMAIN found
         /\ ~(Len(SetToSeq(more)) > EdgeBudget - Cardinality(edges)) =>
              (found[Head(queue)].depth < WalkBudget => Ahead(Links(either), {Head(queue)}) \subseteq DOMAIN found \cup news)
         /\ IsFiniteSet(edges \cup taken) /\ Cardinality(edges \cup taken) <= EdgeBudget
         /\ \A e \in taken : e[1] = Head(queue) /\ e[2] \in DOMAIN found \cup news
  <1> DEFINE n == Head(queue)
             d == found[n].depth
             B == WalkBudget
             R == Links(either)
             room == EdgeBudget - Cardinality(edges)
  <1>1. B \in Nat /\ EdgeBudget \in Nat
    BY BudgetsAreNatural
  <1>2. n \in DOMAIN found /\ d \in 0 .. B
    BY <1>1, HeadIs DEF WalkOpen
  <1>3. Walks /\ n \in Places
    BY <1>2 DEF Walks, WalkOpen
  <1>4. Adjacent(n, either) = Ahead(R, {n}) /\ Adjacent(n, either) \subseteq Nodes
    BY <1>3, NeighboursAre
  <1>5. /\ IsFiniteSet(EdgesAt(n)) /\ \A e \in EdgesAt(n) : e[1] = n /\ e[2] \in Adjacent(n, either)
        /\ \A m \in Adjacent(n, either) : \E e \in EdgesAt(n) : e[2] = m
    BY <1>3, EdgesAre
  <1>6. more \in SUBSET EdgesAt(n) /\ IsFiniteSet(more)
    <2>1. more \in SUBSET EdgesAt(n)
      BY DEF TakesEdges
    <2>2. QED
      BY <1>5, <2>1, FS_Subset
  <1>7. IsFiniteSet(edges) /\ Cardinality(edges) \in Nat /\ Cardinality(edges) <= EdgeBudget
    BY FS_CardinalityType DEF WalkOpen
  <1>8. room \in Nat
    BY <1>1, <1>7
  <1>9. /\ taken = FirstEdges(more, room)
        /\ news = {e[2] : e \in taken} \ DOMAIN found
        /\ more = IF d >= B THEN {} ELSE EdgesAt(n) \ edges
    BY Zenon DEF TakesEdges
  <1> HIDE DEF room, R, B, d, n
  <1>10. /\ taken \subseteq more /\ IsFiniteSet(taken) /\ Cardinality(taken) <= room /\ Cardinality(taken) \in Nat
         /\ ~(Len(SetToSeq(more)) > room) => taken = more
    <2>1. taken = FirstEdges(more, room) /\ IsFiniteSet(more)
      BY <1>6, <1>9
    <2>2. QED
      BY <1>8, <2>1, TakenIs
  <1>11. IsFiniteSet(news)
    <2> DEFINE second == [e \in taken |-> e[2]]
    <2>1. IsFiniteSet(DOMAIN second)
      BY <1>10
    <2>2. IsFiniteSet({second[e] : e \in DOMAIN second})
      BY <2>1, ImageFinite
    <2>3. IsFiniteSet({e[2] : e \in taken})
      BY <2>2
    <2>4. QED
      BY <1>9, <2>3, FS_Difference
  <1>12. news \subseteq Adjacent(n, either) /\ news \cap DOMAIN found = {}
    <2>1. ASSUME NEW m \in news PROVE m \in Adjacent(n, either) /\ m \notin DOMAIN found
      <3>1. m \in {e[2] : e \in taken} /\ m \notin DOMAIN found
        BY <1>9
      <3>2. PICK e \in taken : m = e[2]
        BY <3>1
      <3>3. e \in EdgesAt(n)
        BY <1>6, <1>10, <3>2
      <3>4. QED
        BY <1>5, <3>1, <3>2, <3>3
    <2>2. QED
      BY <2>1
  <1>13. ~(d < B) => news = {}
    BY <1>1, <1>2, <1>9, <1>10
  <1>14. Visits(R, B, found, queue, news)
    BY <1>4, <1>11, <1>12, <1>13 DEF Visits, n, d
  <1>15. ASSUME ~(Len(SetToSeq(more)) > room), d < B PROVE Ahead(R, {n}) \subseteq DOMAIN found \cup news
    <2>1. taken = EdgesAt(n) \ edges
      <3>1. taken = more
        BY <1>10, <1>15
      <3>2. ~(d >= B)
        BY <1>1, <1>2, <1>15
      <3>3. QED
        BY <1>9, <3>1, <3>2
    <2>2. ASSUME NEW m \in Adjacent(n, either) PROVE m \in DOMAIN found \cup news
      <3>1. PICK e \in EdgesAt(n) : e[2] = m
        BY <1>5
      <3>2. CASE e \in edges
        BY <3>1, <3>2 DEF WalkOpen
      <3>3. CASE e \notin edges
        BY <1>9, <2>1, <3>1, <3>3
      <3>4. QED
        BY <3>2, <3>3
    <2>3. QED
      BY <1>4, <2>2
  <1>16. IsFiniteSet(edges \cup taken) /\ Cardinality(edges \cup taken) <= EdgeBudget
    <2>1. /\ IsFiniteSet(edges \cup taken) /\ IsFiniteSet(edges \cap taken)
          /\ Cardinality(edges \cup taken) = Cardinality(edges) + Cardinality(taken) - Cardinality(edges \cap taken)
      BY <1>7, <1>10, FS_Union, FS_Intersection
    <2>2. Cardinality(edges \cap taken) \in Nat
      BY <2>1, FS_CardinalityType
    <2>3. Cardinality(taken) <= EdgeBudget - Cardinality(edges)
      BY <1>10 DEF room
    <2>4. QED
      BY <1>1, <1>7, <1>10, <2>1, <2>2, <2>3
  <1>17. \A e \in taken : e[1] = n /\ e[2] \in DOMAIN found \cup news
    BY <1>5, <1>6, <1>9, <1>10
  <1>18. QED
    BY <1>1, <1>2, <1>4, <1>12, <1>14, <1>15, <1>16, <1>17 DEF room, R, B, d, n

LEMMA WalkGoesOn ==
  ASSUME GraphInv, asked = "open", query.kind = "walk", Given, WalkOpen, queue # <<>>, NEW more, NEW taken, NEW news,
         TakesEdges(more, taken, news),
         edges' = edges \cup taken, found' = Reached(Head(queue), news), queue' = Tail(queue) \o SetToSeq(news),
         cut' = (cut \/ Len(SetToSeq(more)) > EdgeBudget - Cardinality(edges)),
         asked' = asked, either' = either
  PROVE  GraphInv'
  <1> DEFINE n == Head(queue)
             B == WalkBudget
             R == Links(either)
             x == query.from
             fo == Extended(found, n, news)
             q == Tail(queue) \o SetToSeq(news)
  <1>1. Posed /\ cut \in BOOLEAN /\ cut' \in BOOLEAN
    BY DEF GraphInv
  <1>2. /\ Visits(R, B, found, queue, news) /\ B \in Nat /\ news \subseteq Nodes /\ n \in DOMAIN found
        /\ ~(Len(SetToSeq(more)) > EdgeBudget - Cardinality(edges)) =>
             (found[n].depth < B => Ahead(R, {n}) \subseteq DOMAIN found \cup news)
        /\ IsFiniteSet(edges \cup taken) /\ Cardinality(edges \cup taken) <= EdgeBudget
        /\ \A e \in taken : e[1] = n /\ e[2] \in DOMAIN found \cup news
    BY <1>1, WalkVisits
  <1>3. /\ Visited(R, x, B, found, queue) /\ (cut \/ Exhaustive(R, x, B, found, queue))
        /\ DOMAIN found \subseteq Places /\ either = query.both
        /\ \A e \in edges : e[1] \in DOMAIN found /\ e[2] \in DOMAIN found
    BY DEF WalkOpen
  <1>4. Visited(R, x, B, fo, q)
    BY <1>2, <1>3, VisitKeeps
  <1>5. cut' \/ Exhaustive(R, x, B, fo, q)
    <2>1. CASE cut'
      BY <2>1
    <2>2. CASE ~cut'
      <3>1. ~cut /\ ~(Len(SetToSeq(more)) > EdgeBudget - Cardinality(edges))
        BY <1>1, <2>2
      <3>2. Exhaustive(R, x, B, found, queue)
        BY <1>3, <3>1
      <3>3. found[n].depth < B => Ahead(R, {n}) \subseteq DOMAIN found \cup news
        BY <1>2, <3>1
      <3>4. Exhaustive(R, x, B, fo, q)
        BY <1>2, <1>3, <3>2, <3>3, ExhaustiveKeeps
      <3>5. QED
        BY <3>4
    <2>3. QED
      BY <2>1, <2>2
  <1>6. DOMAIN fo = DOMAIN found \cup news
    <2>1. Grown(fo, found, n, news)
      BY ExtendedIs
    <2>2. QED
      BY <2>1 DEF Grown
  <1>7. queue' = q /\ found' = fo
    BY ReachedIs
  <1>8. query' = query /\ B' = B /\ Places' = Places /\ R' = R /\ EdgeBudget' = EdgeBudget
    BY GraphStays, LinksStay DEF Given
  <1> HIDE DEF q, fo
  <1>9. WalkOpen'
    <2>1. /\ Visited(Links(either), query.from, WalkBudget, found, queue)'
          /\ cut' \/ Exhaustive(Links(either), query.from, WalkBudget, found, queue)'
      BY <1>4, <1>5, <1>7, <1>8
    <2>2. either' = query'.both /\ DOMAIN found' \subseteq Places'
      BY <1>2, <1>3, <1>6, <1>7, <1>8 DEF Places
    <2>3. IsFiniteSet(edges') /\ Cardinality(edges') <= EdgeBudget'
      BY <1>2, <1>8
    <2>4. \A e \in edges' : e[1] \in DOMAIN found' /\ e[2] \in DOMAIN found'
      BY <1>2, <1>3, <1>6, <1>7
    <2>5. QED
      BY <2>1, <2>2, <2>3, <2>4 DEF WalkOpen
  <1>10. Posed'
    BY <1>1, PosedStays
  <1>11. QED
    BY <1>1, <1>8, <1>9, <1>10 DEF GraphInv, AnswersExact

LEMMA EndWalkKeeps ==
  ASSUME GraphInv, asked = "open", query.kind = "walk", Given, WalkOpen, EndWalk, cut' \in BOOLEAN, cut => cut',
         cut' \/ queue = <<>>
  PROVE  GraphInv'
  <1> DEFINE a == [nodes |-> DOMAIN found, edges |-> edges]
             B == WalkBudget
  <1>1. Posed /\ cut \in BOOLEAN /\ B \in Nat
    BY BudgetsAreNatural DEF GraphInv
  <1>2. Answer(a)
    BY DEF EndWalk
  <1>3. a.nodes = DOMAIN found /\ a.edges = edges
    OBVIOUS
  <1>4. DOMAIN found \subseteq Around(query.both, B)
    BY <1>1, FoundNear DEF WalkOpen, Around
  <1>5. ASSUME ~cut' PROVE DOMAIN found = Around(query.both, B)
    <2>1. queue = <<>> /\ Exhaustive(Links(either), query.from, B, found, <<>>) /\ Visited(Links(either), query.from, B, found, <<>>)
      BY <1>1, <1>5 DEF WalkOpen
    <2>2. \A k \in 0 .. B : Near(query.from, Links(either), k) \subseteq DOMAIN found
      BY <1>1, <2>1, AllFound
    <2>3. B \in 0 .. B
      BY <1>1
    <2>4. Around(query.both, B) \subseteq DOMAIN found
      BY <2>2, <2>3 DEF Around, WalkOpen
    <2>5. QED
      BY <1>4, <2>4
  <1>6. \A e \in edges : {e[1], e[2]} \subseteq DOMAIN found
    BY DEF WalkOpen
  <1>7. Cardinality(edges) <= EdgeBudget
    BY DEF WalkOpen
  <1> HIDE DEF a
  <1>8. WalkExact(a, cut')
    BY <1>3, <1>4, <1>5, <1>6, <1>7 DEF WalkExact
  <1>9. query.kind # "callers" /\ query.kind # "impact" /\ query.kind # "path"
    OBVIOUS
  <1>10. QED
    BY <1>2, <1>8, <1>9, Answered

LEMMA VisitOnWalkKeeps ==
  ASSUME GraphInv, VisitOnWalk
  PROVE  GraphInv'
  <1>1. asked = "open" /\ query.kind = "walk" /\ Given
    BY DEF VisitOnWalk
  <1>2. cut \in BOOLEAN /\ WalkOpen
    BY <1>1 DEF GraphInv
  <1>3. CASE queue = <<>>
    <2>1. EndWalk /\ cut' = cut
      BY <1>3 DEF VisitOnWalk
    <2>2. QED
      BY <1>1, <1>2, <1>3, <2>1, EndWalkKeeps
  <1>4. CASE queue # <<>> /\ VisitsSpent
    <2>1. EndWalk /\ cut' = TRUE
      BY <1>4 DEF VisitOnWalk
    <2>2. QED
      BY <1>1, <1>2, <2>1, EndWalkKeeps
  <1>5. CASE queue # <<>> /\ ~VisitsSpent
    <2> DEFINE n == Head(queue)
               more == IF found[n].depth >= WalkBudget THEN {} ELSE EdgesAt(n) \ edges
               room == EdgeBudget - Cardinality(edges)
               order == SetToSeq(more)
               taken == {order[i] : i \in {k \in DOMAIN order : k <= room}}
               news == {e[2] : e \in taken} \ DOMAIN found
    <2>1. /\ edges' = edges \cup taken /\ found' = Reached(n, news)
          /\ queue' = Tail(queue) \o SetToSeq(news)
          /\ cut' = (cut \/ Len(order) > room)
          /\ UNCHANGED <<asked, answer>> /\ UNCHANGED either
      BY <1>5, Zenon DEF VisitOnWalk
    <2>2. asked' = asked /\ either' = either
      BY <2>1, Zenon
    <2>3. TakesEdges(more, taken, news)
      BY Zenon DEF TakesEdges, FirstEdges
    <2> HIDE DEF taken, news, more
    <2>4. QED
      BY <1>1, <1>2, <1>5, <2>1, <2>2, <2>3, WalkGoesOn
  <1>6. QED
    BY <1>3, <1>4, <1>5

------------------------------------------------------------------------------
(* The theorem. *)
LEMMA GraphStarts == GraphInit => GraphInv
  <1> SUFFICES ASSUME GraphInit PROVE GraphInv
    OBVIOUS
  <1>1. PICK p \in Codebases : \E q \in Queries(p) : Ask(p, q)
    BY DEF GraphInit
  <1>2. PICK q \in Queries(p) : Ask(p, q)
    BY <1>1
  <1>3. /\ project = p /\ query = q /\ asked = "new" /\ stored = [f \in p.files |-> Analyzed(f)]
        /\ found = <<>> /\ edges = {} /\ cut = FALSE
    BY <1>2 DEF Ask
  <1>4. Posed
    <2>1. project \in Codebases /\ query \in Queries(project)
      BY <1>3
    <2>2. DOMAIN stored = project.files /\ \A f \in project.files : stored[f] = Analyzed(f)
      BY <1>3
    <2>3. \A f \in project.files : IsFiniteSet(stored[f])
      BY <2>1, <2>2, AnalyzedFinite
    <2>4. QED
      BY <2>1, <2>2, <2>3 DEF Posed
  <1>5. QED
    BY <1>3, <1>4 DEF GraphInv, Fresh, AnswersExact

LEMMA GraphKeeps == GraphInv /\ [GraphNext]_graphVars => GraphInv'
  <1> SUFFICES ASSUME GraphInv, [GraphNext]_graphVars PROVE GraphInv'
    OBVIOUS
  <1>1. CASE GraphNext
    BY <1>1, AskCallersKeeps, AskDeadKeeps, AskImpactKeeps, ExpandImpactKeeps, AskPathKeeps, VisitOnPathKeeps,
       AskWalkKeeps, VisitOnWalkKeeps DEF GraphNext
  <1>2. CASE UNCHANGED graphVars
    <2>1. /\ Given /\ asked' = asked /\ found' = found /\ queue' = queue /\ edges' = edges /\ either' = either
          /\ cut' = cut /\ answer' = answer
      BY <1>2 DEF graphVars, Given
    <2>2. Posed' /\ query' = query
      BY <2>1, PosedStays DEF GraphInv, Given
    <2>3. asked = "open" => ~(asked = "answered") /\ ~(asked = "new")
      OBVIOUS
    <2>4. ASSUME asked = "open" PROVE GraphInv'
      <3>1. /\ Dependants' = Dependants /\ Places' = Places /\ ImpactBudget' = ImpactBudget
            /\ PathBudget' = PathBudget /\ WalkBudget' = WalkBudget /\ EdgeBudget' = EdgeBudget
            /\ Links(either)' = Links(either) /\ Links(FALSE)' = Links(FALSE)
        BY <2>1, GraphStays, LinksStay
      <3>2. query.kind = "impact" => ImpactOpen'
        BY <2>1, <2>2, <2>4, <3>1 DEF GraphInv, ImpactOpen
      <3>3. Around(FALSE, PathBudget)' = Around(FALSE, PathBudget)
        BY <2>2, <3>1 DEF Around
      <3>4. query.kind = "path" => PathOpen'
        BY <2>1, <2>2, <2>4, <3>1, <3>3 DEF GraphInv, PathOpen
      <3>5. query.kind = "walk" => WalkOpen'
        BY <2>1, <2>2, <2>4, <3>1 DEF GraphInv, WalkOpen
      <3>6. QED
        BY <2>1, <2>2, <2>4, <3>2, <3>4, <3>5 DEF GraphInv, AnswersExact
    <2>5. ASSUME asked = "new" PROVE GraphInv'
      BY <2>1, <2>2, <2>5 DEF GraphInv, AnswersExact, Fresh
    <2>6. ASSUME asked # "new", asked # "open" PROVE GraphInv'
      <3>1. PICK a : a = answer
        OBVIOUS
      <3>2. PICK c : c = cut
        OBVIOUS
      <3>3. AnswersExact'
        <4>1. asked = "answered" =>
                /\ query.kind = "impact" => ImpactExact(a)
                /\ query.kind = "callers" => CallersExact(a)
                /\ query.kind = "path" => PathExact(a, c)
                /\ query.kind = "walk" => WalkExact(a, c)
          BY <3>1, <3>2 DEF GraphInv, AnswersExact
        <4>2. asked = "answered" =>
                /\ query.kind = "impact" => ImpactExact(a)'
                /\ query.kind = "callers" => CallersExact(a)'
                /\ query.kind = "path" => PathExact(a, c)'
                /\ query.kind = "walk" => WalkExact(a, c)'
          BY <2>1, <4>1, ExactStays
        <4>3. a = answer' /\ c = cut'
          BY <2>1, <3>1, <3>2
        <4>4. QED
          BY <2>1, <2>2, <4>2, <4>3 DEF AnswersExact, ImpactExact, CallersExact, PathExact, WalkExact
      <3>4. QED
        BY <2>1, <2>2, <2>6, <3>3 DEF GraphInv
    <2>7. QED
      BY <2>4, <2>5, <2>6
  <1>3. QED
    BY <1>1, <1>2

\* Whatever the project and whatever was asked of it, callers, impact, paths
\* and neighbourhoods are answered exactly, or as cut: reverseDependencyClosure
\* of internal/codeintel, ShortestPath and bfsWalk of internal/graph.
THEOREM AnswersAreExact == GraphSpec => []AnswersExact
  <1>1. GraphInv => AnswersExact
    BY DEF GraphInv
  <1>2. QED
    BY <1>1, GraphStarts, GraphKeeps, PTL DEF GraphSpec
==============================================================================
