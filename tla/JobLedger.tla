------------------------------ MODULE JobLedger ------------------------------
(***************************************************************************)
(* What semidx promises about a durable indexing job, whatever the number  *)
(* of workers and whatever crashes: a job is worked on by at most one      *)
(* worker, only the worker that owns it decides its outcome, an outcome is *)
(* final, and a job returns to the queue only once nobody owns it.         *)
(* IndexJobs implements this specification in a deployment whose server    *)
(* processes do not overlap.                                               *)
(***************************************************************************)
CONSTANTS Jobs, Workers, NoOwner

VARIABLES st,     \* what the job's row says
          owner   \* the worker the job is being run by, or NoOwner

vars == <<st, owner>>

Outcomes == {"succeeded", "failed"}

Init == /\ st = [j \in Jobs |-> "none"]
        /\ owner = [j \in Jobs |-> NoOwner]

Enqueue(j) == /\ st[j] = "none"
              /\ st' = [st EXCEPT ![j] = "queued"]
              /\ UNCHANGED owner

Claim(j, w) == /\ st[j] = "queued"
               /\ st' = [st EXCEPT ![j] = "running"]
               /\ owner' = [owner EXCEPT ![j] = w]

Finish(j, outcome) == /\ st[j] = "running"
                      /\ owner[j] # NoOwner
                      /\ st' = [st EXCEPT ![j] = outcome]
                      /\ owner' = [owner EXCEPT ![j] = NoOwner]

\* The owners of a set of jobs disappear (a process dies, a write is lost).
Abandon(lost) == /\ owner' = [j \in Jobs |-> IF j \in lost THEN NoOwner ELSE owner[j]]
                 /\ UNCHANGED st

Requeue(stale) == /\ \A j \in stale : st[j] = "running" /\ owner[j] = NoOwner
                  /\ st' = [j \in Jobs |-> IF j \in stale THEN "queued" ELSE st[j]]
                  /\ UNCHANGED owner

\* The project is deleted and its jobs go with it.
Remove(gone) == /\ st' = [j \in Jobs |-> IF j \in gone THEN "gone" ELSE st[j]]
                /\ owner' = [j \in Jobs |-> IF j \in gone THEN NoOwner ELSE owner[j]]

Next == \/ \E j \in Jobs : Enqueue(j)
        \/ \E j \in Jobs, w \in Workers : Claim(j, w)
        \/ \E j \in Jobs, outcome \in Outcomes : Finish(j, outcome)
        \/ \E lost \in SUBSET Jobs : Abandon(lost)
        \/ \E stale \in SUBSET Jobs : Requeue(stale)
        \/ \E gone \in SUBSET Jobs : Remove(gone)

Spec == Init /\ [][Next]_vars
==============================================================================
