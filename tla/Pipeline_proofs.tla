--------------------------- MODULE Pipeline_proofs ---------------------------
(***************************************************************************)
(* Proofs about the parts of the pipeline from a file to its embedding:    *)
(* EmbedChain for every number of providers and callers, any threshold and *)
(* any choice of local providers (that a probe is never lost needs         *)
(* ~AllowLostProbes: with lost probes the claim is false), Watcher for any *)
(* files, contents and number of callbacks, Chunker for any text of whole  *)
(* runes, any symbols found in it and any sizes, and Extract for any       *)
(* documents of its forms, any archives in archives and any limits.        *)
(***************************************************************************)
EXTENDS EmbedChain, Watcher, Chunker, Extract, FiniteSetTheorems, WellFoundedInduction, TLAPS

LEMMA RecordSuccessType ==
  ASSUME TypeOK, NEW p \in Providers, RecordSuccess(p)
  PROVE  /\ failures' \in [Providers -> 0 .. Threshold]
         /\ open' \in [Providers -> BOOLEAN]
         /\ probing' \in [Providers -> BOOLEAN]
  BY ThresholdAssumption DEF TypeOK, RecordSuccess

LEMMA RecordFailureType ==
  ASSUME TypeOK, NEW p \in Providers, RecordFailure(p)
  PROVE  /\ failures' \in [Providers -> 0 .. Threshold]
         /\ open' \in [Providers -> BOOLEAN]
         /\ probing' \in [Providers -> BOOLEAN]
  <1>1. OneMore(failures[p]) \in 0 .. Threshold
    BY ThresholdAssumption DEF TypeOK, OneMore
  <1>2. failures' \in [Providers -> 0 .. Threshold]
    BY <1>1 DEF TypeOK, RecordFailure
  <1>3. (open[p] \/ OneMore(failures[p]) = Threshold) \in BOOLEAN
    OBVIOUS
  <1>4. open' \in [Providers -> BOOLEAN]
    BY <1>3, Zenon DEF TypeOK, RecordFailure
  <1>5. probing' \in [Providers -> BOOLEAN]
    BY DEF TypeOK, RecordFailure
  <1>6. QED
    BY <1>2, <1>4, <1>5

LEMMA EndsType ==
  ASSUME TypeOK, NEW c \in Callers, NEW result \in {"ok", "failed", "cancelled"}, Ends(c, result)
  PROVE  /\ pc' \in [Callers -> {"idle", "ask", "call"}]
         /\ at' \in [Callers -> Providers]
         /\ outcome' \in [Callers -> {"none", "ok", "failed", "cancelled"}]
  BY DEF TypeOK, Ends

LEMMA ProceedType ==
  ASSUME TypeOK, NEW c \in Callers, Proceed(c)
  PROVE  /\ pc' \in [Callers -> {"idle", "ask", "call"}]
         /\ at' \in [Callers -> Providers]
         /\ outcome' \in [Callers -> {"none", "ok", "failed", "cancelled"}]
  <1>1. CASE Ends(c, "failed") \/ Ends(c, "cancelled")
    BY <1>1, EndsType
  <1>2. ASSUME NEW p \in Providers, ComesTo(c, p)
        PROVE  /\ pc' \in [Callers -> {"idle", "ask", "call"}]
               /\ at' \in [Callers -> Providers]
               /\ outcome' \in [Callers -> {"none", "ok", "failed", "cancelled"}]
    BY <1>2 DEF TypeOK, ComesTo
  <1>3. QED
    BY <1>1, <1>2 DEF Proceed

LEMMA TypeOKInit == Init => TypeOK
  BY NProvidersAssumption, ThresholdAssumption, RetriesAssumption DEF Init, TypeOK, Providers

LEMMA TypeOKNext == TypeOK /\ [Next]_vars => TypeOK'
  <1> SUFFICES ASSUME TypeOK, [Next]_vars PROVE TypeOK'
    OBVIOUS
  <1> USE ThresholdAssumption, RetriesAssumption
  <1>1. ASSUME NEW p \in Providers, Cool(p) PROVE TypeOK'
    BY <1>1 DEF Cool, TypeOK, request
  <1>2. ASSUME NEW p \in Providers, Flip(p) PROVE TypeOK'
    BY <1>2 DEF Flip, TypeOK, breakers, request
  <1>3. ASSUME NEW c \in Callers, Admit(c) PROVE TypeOK'
    <2>1. HalfOpen(at[c]) \in BOOLEAN
      BY DEF HalfOpen
    <2>2. (probing[at[c]] \/ HalfOpen(at[c])) \in BOOLEAN
      OBVIOUS
    <2>3. probing' \in [Providers -> BOOLEAN]
      BY <1>3, <2>2, Zenon DEF Admit, TypeOK
    <2>4. probe' \in [Callers -> BOOLEAN]
      BY <1>3, <2>1, Zenon DEF Admit, TypeOK
    <2>5. tries' \in [Callers -> 0 .. MaxRetries] /\ pc' \in [Callers -> {"idle", "ask", "call"}]
      BY <1>3 DEF Admit, TypeOK
    <2>6. QED
      BY <1>3, <2>3, <2>4, <2>5 DEF Admit, TypeOK, request
  <1>4. ASSUME NEW c \in Callers, Refuse(c) PROVE TypeOK'
    BY <1>4, ProceedType DEF Refuse, TypeOK, breakers, request
  <1>5. ASSUME NEW c \in Callers, Succeed(c) PROVE TypeOK'
    <2>1. at[c] \in Providers
      BY DEF TypeOK
    <2>2. QED
      BY <1>5, <2>1, RecordSuccessType, EndsType DEF Succeed, TypeOK, request
  <1>6. ASSUME NEW c \in Callers, Retry(c) PROVE TypeOK'
    BY <1>6 DEF Retry, TypeOK, breakers, request
  <1>7. ASSUME NEW c \in Callers, FailCall(c) PROVE TypeOK'
    <2>1. at[c] \in Providers
      BY DEF TypeOK
    <2>2. QED
      BY <1>7, <2>1, RecordFailureType, ProceedType DEF FailCall, TypeOK, request
  <1>8. ASSUME NEW c \in Callers, Uncounted(c) PROVE TypeOK'
    BY <1>8, ProceedType DEF Uncounted, TypeOK, breakers, request
  <1>9. ASSUME NEW c \in Callers, Cancel(c) PROVE TypeOK'
    BY <1>9, EndsType DEF Cancel, TypeOK, breakers, request
  <1>10. ASSUME NEW c \in Callers, NEW loc \in BOOLEAN, NEW o \in {"embed", "info"},
                Request(c, loc, o)
         PROVE  TypeOK'
    <2>1. at' \in [Callers -> Providers]
      BY <1>10 DEF Request, TypeOK
    <2>2. local' \in [Callers -> BOOLEAN]
      BY <1>10, Zenon DEF Request, TypeOK
    <2>3. QED
      BY <1>10, <2>1, <2>2 DEF Request, TypeOK, breakers
  <1>11. CASE UNCHANGED vars
    BY <1>11 DEF TypeOK, vars, breakers, request
  <1>12. QED
    BY <1>1, <1>2, <1>3, <1>4, <1>5, <1>6, <1>7, <1>8, <1>9, <1>10, <1>11 DEF Next, Step

\* Every reachable state is well typed; in particular a caller never walks past
\* the last provider of the chain (tryEach).
THEOREM TypeCorrect == Spec => []TypeOK
  BY TypeOKInit, TypeOKNext, PTL DEF Spec

------------------------------------------------------------------------------
(* The breaker's fields agree *)

LEMMA CoherentNext == TypeOK /\ BreakerCoherent /\ [Next]_vars => BreakerCoherent'
  <1> SUFFICES ASSUME TypeOK, BreakerCoherent, [Next]_vars PROVE BreakerCoherent'
    OBVIOUS
  <1> USE ThresholdAssumption
  <1>1. ASSUME NEW p \in Providers, Cool(p) PROVE BreakerCoherent'
    BY <1>1 DEF Cool, TypeOK, BreakerCoherent
  <1>2. ASSUME UNCHANGED breakers PROVE BreakerCoherent'
    BY <1>2 DEF BreakerCoherent, breakers
  <1>3. ASSUME NEW c \in Callers, Admit(c) PROVE BreakerCoherent'
    <2>1. CASE HalfOpen(at[c])
      BY <1>3, <2>1 DEF Admit, HalfOpen, TypeOK, BreakerCoherent
    <2>2. CASE ~HalfOpen(at[c])
      BY <1>3, <2>2 DEF Admit, TypeOK, BreakerCoherent
    <2>3. QED
      BY <2>1, <2>2
  <1>4. ASSUME NEW p \in Providers, RecordSuccess(p) PROVE BreakerCoherent'
    BY <1>4 DEF RecordSuccess, TypeOK, BreakerCoherent
  <1>5. ASSUME NEW p \in Providers, RecordFailure(p) PROVE BreakerCoherent'
    BY <1>5 DEF RecordFailure, OneMore, TypeOK, BreakerCoherent
  <1>6. QED
    BY <1>1, <1>2, <1>3, <1>4, <1>5
    DEF Next, Step, Flip, Refuse, Succeed, Retry, FailCall, Uncounted, Cancel, Request, vars,
        TypeOK

\* A late success or failure of a call that was let through before the breaker
\* opened never leaves a breaker that is both open and awaiting a probe, or that
\* is either below its threshold (recordSuccess, recordFailure).
THEOREM BreakersAgree == Spec => []BreakerCoherent
  <1>1. Init => BreakerCoherent
    BY DEF Init, BreakerCoherent
  <1>2. QED
    BY <1>1, CoherentNext, TypeCorrect, PTL DEF Spec

------------------------------------------------------------------------------
(* Every probe is in flight *)

\* A caller that leaves its call without being counted was no probe, or its
\* breaker has forgotten the probe.
LEMMA ProbeKept ==
  ASSUME TypeOK, ProbeInFlight, NEW c \in Callers,
         pc' \in [Callers -> {"idle", "ask", "call"}],
         \A d \in Callers \ {c} : pc'[d] = pc[d] /\ at'[d] = at[d],
         UNCHANGED probe,
         \A p \in Providers : probing'[p] => probing[p],
         (pc[c] = "call" /\ probe[c]) => ~probing'[at[c]]
  PROVE  ProbeInFlight'
  <1> SUFFICES ASSUME NEW p \in Providers, probing'[p]
               PROVE  \E d \in Callers : pc'[d] = "call" /\ at'[d] = p /\ probe'[d]
    BY DEF ProbeInFlight
  <1>1. PICK d \in Callers : pc[d] = "call" /\ at[d] = p /\ probe[d]
    BY DEF ProbeInFlight
  <1>2. d # c
    BY <1>1
  <1>3. QED
    BY <1>1, <1>2

LEMMA MovesOnly ==
  ASSUME TypeOK, NEW c \in Callers,
         Proceed(c) \/ \E result \in {"ok", "failed", "cancelled"} : Ends(c, result)
  PROVE  \A d \in Callers \ {c} : pc'[d] = pc[d] /\ at'[d] = at[d]
  BY DEF TypeOK, Proceed, Ends, ComesTo

LEMMA ProbeNext ==
  TypeOK /\ TypeOK' /\ ~AllowLostProbes /\ ProbeInFlight /\ [Next]_vars => ProbeInFlight'
  <1> SUFFICES ASSUME TypeOK, TypeOK', ~AllowLostProbes, ProbeInFlight, [Next]_vars
               PROVE  ProbeInFlight'
    OBVIOUS
  <1>1. ASSUME UNCHANGED <<probing, pc, at, probe>> PROVE ProbeInFlight'
    BY <1>1 DEF ProbeInFlight
  <1>2. ASSUME NEW c \in Callers, Admit(c) PROVE ProbeInFlight'
    <2> SUFFICES ASSUME NEW p \in Providers, probing'[p]
                 PROVE  \E d \in Callers : pc'[d] = "call" /\ at'[d] = p /\ probe'[d]
      BY DEF ProbeInFlight
    <2>1. CASE probing[p]
      <3>1. PICK d \in Callers : pc[d] = "call" /\ at[d] = p /\ probe[d]
        BY <2>1 DEF ProbeInFlight
      <3>2. d # c
        BY <1>2, <3>1 DEF Admit
      <3>3. pc'[d] = "call" /\ at'[d] = p /\ probe'[d]
        BY <1>2, <3>1, <3>2 DEF Admit, TypeOK
      <3>4. QED
        BY <3>3
    <2>2. CASE ~probing[p]
      <3>1. p = at[c] /\ HalfOpen(at[c])
        BY <1>2, <2>2 DEF Admit, TypeOK
      <3>2. pc'[c] = "call" /\ at'[c] = p /\ probe'[c]
        BY <1>2, <3>1 DEF Admit, TypeOK
      <3>3. QED
        BY <3>2
    <2>3. QED
      BY <2>1, <2>2
  <1>3. ASSUME NEW c \in Callers, Refuse(c) PROVE ProbeInFlight'
    <2>1. Proceed(c) /\ pc[c] = "ask" /\ UNCHANGED <<probing, probe>>
      BY <1>3 DEF Refuse, breakers
    <2>2. QED
      BY <2>1, MovesOnly, ProbeKept DEF TypeOK
  <1>4. ASSUME NEW c \in Callers, Succeed(c) PROVE ProbeInFlight'
    <2>1. Ends(c, "ok") /\ UNCHANGED probe /\ at[c] \in Providers
      BY <1>4 DEF Succeed, TypeOK
    <2>2. /\ \A p \in Providers : probing'[p] => probing[p]
          /\ ~probing'[at[c]]
      BY <1>4, <2>1 DEF Succeed, RecordSuccess, TypeOK
    <2>3. QED
      BY <2>1, <2>2, MovesOnly, ProbeKept DEF TypeOK
  <1>5. ASSUME NEW c \in Callers, FailCall(c) PROVE ProbeInFlight'
    <2>1. Proceed(c) /\ UNCHANGED probe /\ at[c] \in Providers
      BY <1>5 DEF FailCall, TypeOK
    <2>2. /\ \A p \in Providers : probing'[p] => probing[p]
          /\ ~probing'[at[c]]
      BY <1>5, <2>1 DEF FailCall, RecordFailure, TypeOK
    <2>3. QED
      BY <2>1, <2>2, MovesOnly, ProbeKept DEF TypeOK
  <1>6. ASSUME NEW c \in Callers, Uncounted(c) PROVE ProbeInFlight'
    <2>1. Proceed(c) /\ ~probe[c] /\ UNCHANGED <<probing, probe>>
      BY <1>6 DEF Uncounted, MayBeLost, breakers
    <2>2. QED
      BY <2>1, MovesOnly, ProbeKept DEF TypeOK
  <1>7. ASSUME NEW c \in Callers, Cancel(c) PROVE ProbeInFlight'
    <2>1. Ends(c, "cancelled") /\ ~probe[c] /\ UNCHANGED <<probing, probe>>
      BY <1>7 DEF Cancel, MayBeLost, breakers
    <2>2. QED
      BY <2>1, MovesOnly, ProbeKept DEF TypeOK
  <1>8. ASSUME NEW c \in Callers, NEW loc \in BOOLEAN, NEW o \in {"embed", "info"},
               Request(c, loc, o)
        PROVE  ProbeInFlight'
    <2>1. pc[c] = "idle" /\ UNCHANGED <<probing, probe>>
      BY <1>8 DEF Request, breakers
    <2>2. \A d \in Callers \ {c} : pc'[d] = pc[d] /\ at'[d] = at[d]
      BY <1>8 DEF Request, TypeOK
    <2>3. QED
      BY <2>1, <2>2, ProbeKept DEF TypeOK
  <1>9. QED
    BY <1>1, <1>2, <1>3, <1>4, <1>5, <1>6, <1>7, <1>8
    DEF Next, Step, Cool, Flip, Retry, vars, breakers

\* When no probe ends unresolved, a breaker holds everybody back only while its
\* probe is in flight (allow).
THEOREM ProbesResolve == ~AllowLostProbes /\ Spec => []ProbeInFlight
  <1> SUFFICES ASSUME ~AllowLostProbes PROVE Spec => []ProbeInFlight
    OBVIOUS
  <1>1. Init => ProbeInFlight
    BY DEF Init, ProbeInFlight
  <1>2. TypeOK /\ TypeOK' /\ ProbeInFlight /\ [Next]_vars => ProbeInFlight'
    BY ProbeNext
  <1>3. QED
    BY <1>1, <1>2, TypeCorrect, PTL DEF Spec

------------------------------------------------------------------------------
(* A forced-local request stays on local providers *)

LEMMA LocalNext == TypeOK /\ TypeOK' /\ LocalStaysLocal /\ [Next]_vars => LocalStaysLocal'
  <1> SUFFICES ASSUME TypeOK, TypeOK', LocalStaysLocal, [Next]_vars PROVE LocalStaysLocal'
    OBVIOUS
  <1>1. ASSUME UNCHANGED <<pc, at, local>> PROVE LocalStaysLocal'
    BY <1>1 DEF LocalStaysLocal
  <1>2. ASSUME NEW c \in Callers, UNCHANGED <<at, local>>, pc[c] # "idle",
               pc' = [pc EXCEPT ![c] = "call"]
        PROVE  LocalStaysLocal'
    BY <1>2 DEF LocalStaysLocal, TypeOK
  <1>3. ASSUME NEW c \in Callers, UNCHANGED local,
               NEW result \in {"ok", "failed", "cancelled"}, Ends(c, result)
        PROVE  LocalStaysLocal'
    BY <1>3 DEF LocalStaysLocal, TypeOK, Ends
  <1>4. ASSUME NEW c \in Callers, UNCHANGED local, NEW p \in Eligible(local[c]), ComesTo(c, p)
        PROVE  LocalStaysLocal'
    BY <1>4 DEF LocalStaysLocal, TypeOK, ComesTo, Eligible
  <1>5. ASSUME NEW c \in Callers, UNCHANGED local, Proceed(c) PROVE LocalStaysLocal'
    BY <1>3, <1>4, <1>5 DEF Proceed, IsFirst
  <1>6. ASSUME NEW c \in Callers, NEW loc \in BOOLEAN, NEW o \in {"embed", "info"},
               Request(c, loc, o)
        PROVE  LocalStaysLocal'
    <2>1. PICK p \in Eligible(loc) : at' = [at EXCEPT ![c] = p]
      BY <1>6 DEF Request, IsFirst
    <2>2. local' = [local EXCEPT ![c] = loc] /\ pc' = [pc EXCEPT ![c] = "ask"]
      BY <1>6 DEF Request
    <2>3. QED
      BY <2>1, <2>2 DEF LocalStaysLocal, TypeOK, Eligible
  <1>7. QED
    BY <1>1, <1>2, <1>3, <1>5, <1>6
    DEF Next, Step, Cool, Flip, Admit, Refuse, Succeed, Retry, FailCall, Uncounted, Cancel,
        vars, breakers, request

\* A request that forces local providers reaches no other one, whatever fails or
\* is overtaken on the way (skip, tryEach).
THEOREM ForceLocalHolds == Spec => []LocalStaysLocal
  <1>1. Init => LocalStaysLocal
    BY DEF Init, LocalStaysLocal
  <1>2. QED
    BY <1>1, LocalNext, TypeCorrect, PTL DEF Spec

------------------------------------------------------------------------------
(***************************************************************************)
(* Proofs about Watcher for any files, contents and number of callbacks:   *)
(* in a folder without a worktree no reported change is lost.              *)
(*                                                                         *)
(* What has to be done about a file is somewhere on its way until it is    *)
(* done: in the channel, in a timer, in a callback that goes on, or in a   *)
(* task that has read the present content.  Only a task that has read an   *)
(* older content can undo it, and then there was another task at the file. *)
(***************************************************************************)
Reports == [op : {"create", "write", "remove"}, path : Paths] \cup {[op |-> "create", path |-> SubDir]}
TaskType == [st : Steps, path : Paths \cup {SubDir}, text : Contents, latest : BOOLEAN]

Queued(p) == \E i \in 1 .. Len(events) : events[i].path = p
RemovalQueued(p) == \E i \in 1 .. Len(events) : events[i].path = p /\ events[i].op = "remove"
Underway(p) ==
  \E t \in Tasks : task[t].path = p /\ (task[t].st = "open" \/ (task[t].st = "fired" /\ task[t].latest))

\* The file will be read or removed again.  One that is gone cannot be read: only
\* its removal, not yet handled, will do.
Awaited(p) ==
  IF disk[p] = Absent THEN RemovalQueued(p) ELSE Queued(p) \/ p \in armed \/ Underway(p)

AtWork(t, p) == task[t].path = p /\ task[t].st \in {"store", "drop"}

Stored(p) == IF disk[p] \in Bodies THEN <<p, disk[p]>> \in rows ELSE VersionsOf(p) = {}

TypeInv ==
  /\ disk \in [Paths -> Contents \cup {Absent}]
  /\ events \in Seq(Reports)
  /\ armed \subseteq Paths
  /\ task \in [Tasks -> TaskType]
  /\ rows \subseteq Paths \X Bodies
  /\ \A t \in Tasks : /\ task[t].st # "idle" => task[t].path \in Paths
                      /\ task[t].st = "store" => task[t].text \in Bodies
                      /\ task[t].st # "sweep"
  /\ \A p \in Paths : Queued(p) => Watched(p)
  /\ watchRoot \/ (events = <<>> /\ ~watchSub)

\* The last report about a file is a removal only if the file is gone.
ReportsTrue ==
  \A p \in Paths : \A i \in 1 .. Len(events) :
    (events[i].path = p /\ events[i].op = "remove" /\ \A j \in i + 1 .. Len(events) : events[j].path # p)
      => disk[p] = Absent

\* Nobody is beside the task at a file that is not raced.
Single == \A p \in Paths \ raced : \A t, u \in Tasks : AtWork(t, p) /\ AtWork(u, p) => t = u

SettledAt(p) ==
  \/ Awaited(p)
  \/ \E t \in Tasks : AtWork(t, p) /\ task[t].st = "store" /\ task[t].text = disk[p]
  \/ \E t \in Tasks : AtWork(t, p) /\ task[t].st = "drop" /\ disk[p] \notin Bodies
  \/ Stored(p) /\ \A t \in Tasks : ~AtWork(t, p)

Settled == \A p \in Paths \ (missed \cup raced) : SettledAt(p)

WatchInv == ~inWorktree /\ TypeInv /\ ReportsTrue /\ Single /\ Settled


------------------------------------------------------------------------------
(* The channel *)

LEMMA QueueAppended ==
  ASSUME NEW e \in Reports, events \in Seq(Reports), events' = Append(events, e)
  PROVE  /\ events' \in Seq(Reports)
         /\ Len(events') = Len(events) + 1
         /\ events'[Len(events) + 1] = e
         /\ \A i \in 1 .. Len(events) : events'[i] = events[i]
  OBVIOUS

LEMMA Taken ==
  ASSUME events \in Seq(Reports), events # <<>>, events' = Tail(events)
  PROVE  /\ events' \in Seq(Reports)
         /\ Head(events) = events[1] /\ events[1] \in Reports
         /\ Len(events) \in Nat /\ Len(events') = Len(events) - 1
         /\ \A i \in 1 .. Len(events') : events'[i] = events[i + 1]
  OBVIOUS

\* After a report about p, and only then, p is queued; the others are as before.
LEMMA QueueGrows ==
  ASSUME NEW e \in Reports, events \in Seq(Reports), events' = Append(events, e), NEW p
  PROVE  /\ Queued(p)' <=> Queued(p) \/ p = e.path
         /\ RemovalQueued(p)' <=> RemovalQueued(p) \/ (p = e.path /\ e.op = "remove")
  BY QueueAppended DEF Queued, RemovalQueued

\* What is handled leaves the queue, and nothing else does.
LEMMA QueueShrinks ==
  ASSUME events \in Seq(Reports), events # <<>>, events' = Tail(events), NEW p
  PROVE  /\ Queued(p) <=> Queued(p)' \/ Head(events).path = p
         /\ RemovalQueued(p) <=> RemovalQueued(p)' \/ (Head(events).path = p /\ Head(events).op = "remove")
  <1>1. /\ 1 \in 1 .. Len(events) /\ Head(events) = events[1]
        /\ \A i \in 1 .. Len(events) : i = 1 \/ (i - 1 \in 1 .. Len(events') /\ events'[i - 1] = events[i])
        /\ \A i \in 1 .. Len(events') : i + 1 \in 1 .. Len(events) /\ events'[i] = events[i + 1]
    <2>1. Len(events) # 0
      OBVIOUS
    <2>2. QED
      BY <2>1, Taken
  <1> DEFINE Q == \E i \in 1 .. Len(events) : events[i].path = p
             QT == \E i \in 1 .. Len(events') : events'[i].path = p
             R == \E i \in 1 .. Len(events) : events[i].path = p /\ events[i].op = "remove"
             RT == \E i \in 1 .. Len(events') : events'[i].path = p /\ events'[i].op = "remove"
  <1>2. Q <=> QT \/ Head(events).path = p
    BY <1>1
  <1>3. R <=> RT \/ (Head(events).path = p /\ Head(events).op = "remove")
    BY <1>1
  <1> QED
    BY <1>2, <1>3 DEF Queued, RemovalQueued

LEMMA QueueKept ==
  ASSUME events' = events, NEW p
  PROVE  (Queued(p)' <=> Queued(p)) /\ (RemovalQueued(p)' <=> RemovalQueued(p))
  BY DEF Queued, RemovalQueued

------------------------------------------------------------------------------
(* What a step makes of the tasks *)

\* Only t's task becomes another one: r.
Becomes(t, r) == task' = [task EXCEPT ![t] = r]

LEMMA OneTask ==
  ASSUME task \in [Tasks -> TaskType], NEW t \in Tasks, NEW r \in TaskType, Becomes(t, r)
  PROVE  /\ task' \in [Tasks -> TaskType]
         /\ task'[t] = r
         /\ \A u \in Tasks : u # t => task'[u] = task[u]
  BY DEF Becomes

LEMMA IdleTask == Idle \in TaskType /\ Idle.st = "idle" /\ Idle.latest = FALSE
  BY DEF Idle, TaskType, Steps, Contents

LEMMA TakesOne ==
  ASSUME NEW t \in Tasks, NEW step \in Steps, NEW p \in Paths \cup {SubDir}, Takes(t, step, p)
  PROVE  \E r \in TaskType : Becomes(t, r) /\ r.st = step /\ r.path = p
  <1>1. [Idle EXCEPT !.st = step, !.path = p] \in TaskType
    BY DEF Idle, TaskType, Steps, Contents
  <1>2. [Idle EXCEPT !.st = step, !.path = p].st = step /\ [Idle EXCEPT !.st = step, !.path = p].path = p
    BY DEF Idle
  <1> QED
    BY <1>1, <1>2 DEF Takes, Becomes

LEMMA Superseded ==
  ASSUME task \in [Tasks -> TaskType], NEW p, task' = Supersede(p)
  PROVE  /\ task' \in [Tasks -> TaskType]
         /\ \A t \in Tasks : /\ task'[t].st = task[t].st /\ task'[t].path = task[t].path
                             /\ task'[t].text = task[t].text
                             /\ task'[t].latest = task[t].latest \/ task[t].path = p
  <1>1. ASSUME NEW t \in Tasks
        PROVE  /\ task'[t] \in TaskType
               /\ task'[t].st = task[t].st /\ task'[t].path = task[t].path
               /\ task'[t].text = task[t].text
               /\ task'[t].latest = task[t].latest \/ task[t].path = p
    <2>1. task[t] \in TaskType
      OBVIOUS
    <2>2. task'[t] = IF task[t].st = "fired" /\ task[t].path = p THEN [task[t] EXCEPT !.latest = FALSE] ELSE task[t]
      BY DEF Supersede
    <2>3. QED
      BY <2>1, <2>2 DEF TaskType
  <1>2. task' = [t \in Tasks |-> task'[t]]
    BY DEF Supersede
  <1> QED
    BY <1>1, <1>2

(* The steps of a task, as what they do to it and to the rest. *)

\* A task that goes on, with what it leaves alone.
LEMMA OpenStep ==
  ASSUME WatchInv, NEW t \in Tasks, Open(t), NEW p, p = task[t].path
  PROVE  /\ task[t].st = "open" /\ p \in Paths
         /\ UNCHANGED <<inWorktree, tree, events, armed, index>>
         /\ \E r \in TaskType :
              /\ Becomes(t, r)
              /\ \/ /\ disk[p] \in Bodies /\ r.path = p /\ r.st = "store" /\ r.text = disk[p]
                    /\ raced' = Marked(t, p)
                 \/ disk[p] = Blank /\ r.path = p /\ r.st = "drop" /\ raced' = Marked(t, p)
                 \/ disk[p] = Absent /\ r = Idle /\ raced' = raced
  <1>1. task[t].st = "open" /\ p \in Paths /\ task[t] \in TaskType /\ disk[p] \in Contents \cup {Absent}
    BY DEF WatchInv, TypeInv, Open
  <1>2. UNCHANGED <<inWorktree, tree, events, armed, index>>
    BY DEF Open
  <1>3. raced' = IF disk[p] = Absent THEN raced ELSE Marked(t, p)
    BY DEF Open
  <1>4. CASE disk[p] \in Bodies /\ task' = [task EXCEPT ![t].st = "store", ![t].text = disk[p]]
    <2> DEFINE r == [task[t] EXCEPT !.st = "store", !.text = disk[p]]
    <2>1. r \in TaskType /\ r.path = p /\ r.st = "store" /\ r.text = disk[p]
      BY <1>1, <1>4 DEF TaskType, Steps, Contents
    <2>2. task' = [task EXCEPT ![t] = r]
      BY <1>4
    <2> HIDE DEF r
    <2> QED
      BY <1>1, <1>2, <1>3, <1>4, <2>1, <2>2, ContentsAssumption DEF Becomes, Contents
  <1>5. CASE disk[p] = Blank /\ Takes(t, "drop", p)
    <2>1. PICK r \in TaskType : Becomes(t, r) /\ r.st = "drop" /\ r.path = p
      BY <1>1, <1>5, TakesOne DEF Steps
    <2> QED
      BY <1>1, <1>2, <1>3, <1>5, <2>1, ContentsAssumption DEF Contents
  <1>6. CASE disk[p] = Absent /\ Finishes(t)
    BY <1>1, <1>2, <1>3, <1>6, IdleTask DEF Finishes, Becomes
  <1> QED
    BY <1>4, <1>5, <1>6 DEF Open

LEMMA StoreStep ==
  ASSUME WatchInv, NEW t \in Tasks, Store(t)
  PROVE  /\ task[t].st = "store" /\ task[t].path \in Paths /\ task[t].text \in Bodies
         /\ rows' = rows \cup {<<task[t].path, task[t].text>>}
         /\ Becomes(t, Idle)
         /\ UNCHANGED <<inWorktree, tree, events, armed, raced>>
  BY DEF WatchInv, TypeInv, Store, Finishes, Becomes

LEMMA DropStep ==
  ASSUME WatchInv, NEW t \in Tasks, DropFile(t)
  PROVE  /\ task[t].st = "drop" /\ task[t].path \in Paths
         /\ rows' = rows \ VersionsOf(task[t].path)
         /\ Becomes(t, Idle)
         /\ UNCHANGED <<inWorktree, tree, events, armed, raced>>
  BY DEF WatchInv, TypeInv, DropFile, Finishes, Becomes

LEMMA NoSweep ==
  ASSUME WatchInv, NEW t \in Tasks PROVE ~Sweep(t)
  BY DEF WatchInv, TypeInv, Sweep

LEMMA LockStep ==
  ASSUME WatchInv, NEW k \in Callbacks, Lock(k)
  PROVE  /\ task[k].st = "fired" /\ task[k].path \in Paths
         /\ UNCHANGED <<inWorktree, tree, events, armed, index, raced>>
         /\ \E r \in TaskType :
              /\ Becomes(k, r)
              /\ \/ task[k].latest /\ r.st = "open" /\ r.path = task[k].path
                 \/ ~task[k].latest /\ r = Idle
  <1>1. task[k].st = "fired" /\ task[k].path \in Paths /\ k \in Tasks
    BY DEF WatchInv, TypeInv, Lock, Tasks
  <1>2. CASE task[k].latest /\ Takes(k, "open", task[k].path)
    <2>1. PICK r \in TaskType : Becomes(k, r) /\ r.st = "open" /\ r.path = task[k].path
      BY <1>1, <1>2, TakesOne DEF Steps
    <2> QED
      BY <1>1, <1>2, <2>1 DEF Lock
  <1>3. CASE ~task[k].latest /\ task' = [task EXCEPT ![k] = Idle]
    BY <1>1, <1>3, IdleTask DEF Lock, Becomes
  <1> QED
    BY <1>2, <1>3 DEF Lock

LEMMA FireStep ==
  ASSUME WatchInv, NEW k \in Callbacks, NEW p \in Paths, Fire(k, p)
  PROVE  /\ task[k].st = "idle" /\ p \in armed /\ armed' = armed \ {p}
         /\ UNCHANGED <<inWorktree, tree, events, index, raced>>
         /\ \E r \in TaskType : Becomes(k, r) /\ r.st = "fired" /\ r.path = p /\ r.latest
  <1> DEFINE r == [Idle EXCEPT !.st = "fired", !.path = p, !.latest = TRUE]
  <1>1. r \in TaskType /\ r.st = "fired" /\ r.path = p /\ r.latest
    BY DEF Idle, TaskType, Steps, Contents
  <1>2. Becomes(k, r)
    BY DEF Fire, Becomes
  <1> HIDE DEF r
  <1> QED
    BY <1>1, <1>2 DEF Fire

(* The steps of the tree and of the event loop. *)

LEMMA ChangeStep ==
  ASSUME WatchInv, NEW p \in Paths, NEW c \in Contents \cup {Absent}, Change(p, c)
  PROVE  /\ disk' = [disk EXCEPT ![p] = c]
         /\ UNCHANGED <<inWorktree, watchRoot, watchSub, armed, task, index, raced>>
         /\ \/ /\ Watched(p) /\ missed' = missed \ {p}
               /\ \E e \in Reports : /\ events' = Append(events, e) /\ e.path = p
                                     /\ e.op = "remove" <=> c = Absent
            \/ ~Watched(p) /\ missed' = missed \cup {p} /\ events' = events
  <1>1. disk' = [disk EXCEPT ![p] = c] /\ UNCHANGED <<inWorktree, watchRoot, watchSub, armed, task, index, raced>>
    BY DEF Change
  <1>2. ASSUME Watched(p)
        PROVE  /\ missed' = missed \ {p}
               /\ \E e \in Reports : /\ events' = Append(events, e) /\ e.path = p
                                     /\ e.op = "remove" <=> c = Absent
    <2>1. missed' = missed \ {p} /\ \E o \in Notices(p, c) : events' = Append(events, [op |-> o, path |-> p])
      BY <1>2 DEF Change, Report
    <2>2. PICK o \in Notices(p, c) : events' = Append(events, [op |-> o, path |-> p])
      BY <2>1
    <2>3. o \in {"create", "write", "remove"} /\ (o = "remove" <=> c = Absent)
      <3>1. CASE c = Absent
        <4>1. disk[p] # Absent
          BY <3>1 DEF Change
        <4>2. Notices(p, c) = {"remove"}
          BY <3>1, <4>1, Zenon DEF Notices
        <4> QED
          BY <3>1, <4>2
      <3>2. CASE c # Absent /\ disk[p] = Absent
        <4>1. Notices(p, c) = {"create"}
          BY <3>2, Zenon DEF Notices
        <4> QED
          BY <3>2, <4>1
      <3>3. CASE c # Absent /\ disk[p] # Absent
        BY <3>3 DEF Notices
      <3> QED
        BY <3>1, <3>2, <3>3
    <2>4. [op |-> o, path |-> p] \in Reports
      BY <2>3 DEF Reports
    <2> QED
      BY <2>1, <2>2, <2>3, <2>4
  <1>3. ASSUME ~Watched(p) PROVE missed' = missed \cup {p} /\ events' = events
    BY <1>3 DEF Change
  <1> QED
    BY <1>1, <1>2, <1>3

LEMMA EventStep ==
  ASSUME WatchInv, HandleEvent, NEW e, e = Head(events)
  PROVE  /\ e \in Reports /\ events # <<>> /\ events' = Tail(events) /\ task[Loop].st = "idle"
         /\ UNCHANGED <<inWorktree, disk, watchRoot, missed, index>>
         /\ \/ e.path = SubDir /\ watchSub' = TRUE /\ UNCHANGED <<armed, task, raced>>
            \/ /\ e.op = "create" /\ e.path \in Paths /\ UNCHANGED <<watchSub, armed, raced>>
               /\ \E r \in TaskType : Becomes(Loop, r) /\ r.st = "open" /\ r.path = e.path
            \/ /\ e.op = "write" /\ e.path \in Paths /\ UNCHANGED <<watchSub, raced>>
               /\ armed' = armed \cup {e.path} /\ task' = Supersede(e.path)
            \/ /\ e.op = "remove" /\ e.path \in Paths /\ UNCHANGED <<watchSub, armed>>
               /\ raced' = Marked(Loop, e.path)
               /\ \E r \in TaskType : Becomes(Loop, r) /\ r.st = "drop" /\ r.path = e.path
  <1>1. events \in Seq(Reports) /\ events # <<>> /\ events' = Tail(events) /\ task[Loop].st = "idle"
    BY DEF WatchInv, TypeInv, HandleEvent
  <1>2. e \in Reports
    BY <1>1, Taken
  <1>3. UNCHANGED <<inWorktree, disk, watchRoot, missed, index>>
    BY DEF HandleEvent
  <1>4. Loop \in Tasks
    BY DEF Tasks
  <1>5. e.path \in Paths \/ (e.path = SubDir /\ e.op = "create")
    BY <1>2 DEF Reports
  <1>6. CASE e.op = "create" /\ e.path = SubDir /\ watchSub' = TRUE /\ UNCHANGED <<armed, task, raced>>
    BY <1>1, <1>2, <1>3, <1>6
  <1>7. CASE e.op = "create" /\ e.path # SubDir /\ Takes(Loop, "open", e.path) /\ UNCHANGED <<watchSub, armed, raced>>
    <2>1. \E r \in TaskType : Becomes(Loop, r) /\ r.st = "open" /\ r.path = e.path
      BY <1>4, <1>5, <1>7, TakesOne DEF Steps
    <2> QED
      BY <1>1, <1>2, <1>3, <1>5, <1>7, <2>1
  <1>8. CASE e.op = "write" /\ Debounce(e.path) /\ UNCHANGED <<watchSub, raced>>
    BY <1>1, <1>2, <1>3, <1>5, <1>8 DEF Debounce
  <1>9. CASE e.op = "remove" /\ Takes(Loop, "drop", e.path) /\ raced' = Marked(Loop, e.path)
             /\ UNCHANGED <<watchSub, armed>>
    <2>1. \E r \in TaskType : Becomes(Loop, r) /\ r.st = "drop" /\ r.path = e.path
      BY <1>4, <1>5, <1>9, TakesOne DEF Steps
    <2> QED
      BY <1>1, <1>2, <1>3, <1>5, <1>9, <2>1
  <1> QED
    BY <1>6, <1>7, <1>8, <1>9 DEF HandleEvent

LEMMA MarkedIff ==
  ASSUME NEW t, NEW p
  PROVE  /\ p \in Marked(t, p) <=> \E u \in Tasks \ {t} : AtWork(u, p)
         /\ \A q : q # p => (q \in Marked(t, p) <=> q \in raced)
  BY DEF Marked, AtWork

LEMMA StepsOf ==
  ASSUME WatchInv, [WatchNext]_watchVars
  PROVE  \/ \E p \in Paths, c \in Contents \cup {Absent} : Change(p, c)
         \/ MakeDir
         \/ Watch
         \/ HandleEvent
         \/ \E k \in Callbacks, p \in Paths : Fire(k, p)
         \/ \E k \in Callbacks : Lock(k)
         \/ \E t \in Tasks : Open(t)
         \/ \E t \in Tasks : Store(t)
         \/ \E t \in Tasks : DropFile(t)
         \/ UNCHANGED watchVars
  BY NoSweep DEF WatchNext, TaskStep

LEMMA MakeDirStep ==
  ASSUME WatchInv, MakeDir
  PROVE  /\ UNCHANGED <<inWorktree, disk, watchRoot, watchSub, missed, armed, task, rows, raced>>
         /\ \/ events' = events
            \/ watchRoot /\ \E e \in Reports : e.path = SubDir /\ events' = Append(events, e)
  <1>1. [op |-> "create", path |-> SubDir] \in Reports
    BY DEF Reports
  <1>2. events' = events \/ (watchRoot /\ events' = Append(events, [op |-> "create", path |-> SubDir]))
    BY DEF MakeDir, Report
  <1> QED
    BY <1>1, <1>2 DEF MakeDir, tree, index

------------------------------------------------------------------------------
(* Types *)

LEMMA TypeNext == WatchInv /\ [WatchNext]_watchVars => TypeInv'
  <1> SUFFICES ASSUME WatchInv, [WatchNext]_watchVars PROVE TypeInv'
    OBVIOUS
  <1> DEFINE Others(U) == \A t \in U : /\ task'[t].st # "idle" => task'[t].path \in Paths
                                       /\ task'[t].st = "store" => task'[t].text \in Bodies
                                       /\ task'[t].st # "sweep"
             Watches == \A p \in Paths : Queued(p)' => Watched(p)'
  <1>0. TypeInv /\ Loop \in Tasks /\ Callbacks \subseteq Tasks
    BY DEF WatchInv, Tasks
  <1>i. Idle \in TaskType /\ Idle.st = "idle"
    BY IdleTask
  <1>1. ASSUME NEW p \in Paths, NEW c \in Contents \cup {Absent}, Change(p, c) PROVE TypeInv'
    <2>1. /\ disk' = [disk EXCEPT ![p] = c]
          /\ UNCHANGED <<inWorktree, watchRoot, watchSub, armed, task, index, raced>>
      BY <1>1, ChangeStep
    <2>2. disk' \in [Paths -> Contents \cup {Absent}]
      BY <1>0, <2>1 DEF TypeInv
    <2>3. CASE Watched(p) /\ \E e \in Reports : events' = Append(events, e) /\ e.path = p
      <3>0. watchRoot
        BY <1>0, <2>3 DEF TypeInv, Watched
      <3>1. PICK e \in Reports : events' = Append(events, e) /\ e.path = p
        BY <2>3
      <3>2. events' \in Seq(Reports)
        BY <1>0, <3>1, QueueAppended DEF TypeInv
      <3>3. ASSUME NEW q \in Paths, Queued(q)' PROVE Watched(q)'
        <4>1. Queued(q) \/ q = p
          BY <1>0, <3>1, <3>3, QueueGrows DEF TypeInv
        <4> QED
          BY <1>0, <2>1, <2>3, <4>1 DEF TypeInv, Watched
      <3> QED
        BY <1>0, <2>1, <2>2, <3>0, <3>2, <3>3 DEF TypeInv, index
    <2>4. CASE events' = events
      <3>1. Watches
        BY <1>0, <2>1, <2>4 DEF TypeInv, Watched, Queued
      <3> QED
        BY <1>0, <2>1, <2>2, <2>4, <3>1 DEF TypeInv, index
    <2> QED
      BY <1>1, <2>3, <2>4, ChangeStep
  <1>2. ASSUME MakeDir PROVE TypeInv'
    <2>1. UNCHANGED <<inWorktree, disk, watchRoot, watchSub, missed, armed, task, rows, raced>>
      BY <1>2, MakeDirStep
    <2>2. CASE events' = events
      <3>1. Watches
        BY <1>0, <2>1, <2>2 DEF TypeInv, Watched, Queued
      <3> QED
        BY <1>0, <2>1, <2>2, <3>1 DEF TypeInv
    <2>3. CASE watchRoot /\ \E e \in Reports : e.path = SubDir /\ events' = Append(events, e)
      <3>1. PICK e \in Reports : e.path = SubDir /\ events' = Append(events, e)
        BY <2>3
      <3>2. events' \in Seq(Reports)
        BY <1>0, <3>1, QueueAppended DEF TypeInv
      <3>3. ASSUME NEW q \in Paths, Queued(q)' PROVE Watched(q)'
        <4>1. Queued(q)
          BY <1>0, <3>1, <3>3, QueueGrows, PathsAssumption DEF TypeInv
        <4> QED
          BY <1>0, <2>1, <4>1 DEF TypeInv, Watched
      <3> QED
        BY <1>0, <2>1, <2>3, <3>2, <3>3 DEF TypeInv
    <2> QED
      BY <1>2, <2>2, <2>3, MakeDirStep
  <1>3. ASSUME Watch PROVE TypeInv'
    <2>1. Watches
      BY <1>0, <1>3 DEF TypeInv, Watched, Queued, Watch
    <2> QED
      BY <1>0, <1>3, <2>1 DEF TypeInv, Watch, index
  <1>4. ASSUME HandleEvent PROVE TypeInv'
    <2>1. PICK e : e = Head(events)
      OBVIOUS
    <2>2. /\ e \in Reports /\ events # <<>> /\ events' = Tail(events) /\ task[Loop].st = "idle"
          /\ UNCHANGED <<inWorktree, disk, watchRoot, missed, index>>
      BY <1>4, <2>1, EventStep
    <2>3. events' \in Seq(Reports) /\ watchRoot'
      BY <1>0, <2>2, Taken DEF TypeInv
    <2>4. ASSUME watchSub' = watchSub \/ watchSub' = TRUE PROVE Watches
      <3> SUFFICES ASSUME NEW q \in Paths, Queued(q)' PROVE Watched(q)'
        OBVIOUS
      <3>1. Queued(q)
        BY <1>0, <2>2, QueueShrinks DEF TypeInv
      <3> QED
        BY <1>0, <2>2, <2>4, <3>1 DEF TypeInv, Watched
    <2>5. CASE e.path = SubDir /\ watchSub' = TRUE /\ UNCHANGED <<armed, task, raced>>
      BY <1>0, <2>2, <2>3, <2>4, <2>5 DEF TypeInv, index
    <2>6. CASE /\ UNCHANGED <<watchSub, armed>> /\ e.path \in Paths
               /\ \E r \in TaskType : Becomes(Loop, r) /\ r.st \in {"open", "drop"} /\ r.path = e.path
      <3>1. PICK r \in TaskType : Becomes(Loop, r) /\ r.st \in {"open", "drop"} /\ r.path = e.path
        BY <2>6
      <3>2. task' \in [Tasks -> TaskType] /\ task'[Loop] = r /\ \A u \in Tasks : u # Loop => task'[u] = task[u]
        BY <1>0, <3>1, OneTask DEF TypeInv
      <3>3. Others(Tasks)
        BY <1>0, <2>6, <3>1, <3>2 DEF TypeInv
      <3> QED
        BY <1>0, <2>2, <2>3, <2>4, <2>6, <3>2, <3>3 DEF TypeInv, index
    <2>7. CASE /\ e.path \in Paths /\ UNCHANGED <<watchSub, raced>>
               /\ armed' = armed \cup {e.path} /\ task' = Supersede(e.path)
      <3>1. /\ task' \in [Tasks -> TaskType]
            /\ \A t \in Tasks : /\ task'[t].st = task[t].st /\ task'[t].path = task[t].path
                                /\ task'[t].text = task[t].text
        BY <1>0, <2>7, Superseded DEF TypeInv
      <3>2. Others(Tasks)
        BY <1>0, <3>1 DEF TypeInv
      <3> QED
        BY <1>0, <2>2, <2>3, <2>4, <2>7, <3>1, <3>2 DEF TypeInv, index
    <2> QED
      BY <1>4, <2>1, <2>5, <2>6, <2>7, EventStep
  \* A step of one task that leaves the tree alone.
  <1>5. ASSUME NEW t \in Tasks, NEW r \in TaskType, Becomes(t, r), UNCHANGED <<disk, events, watchRoot, watchSub>>,
               r.st # "idle" => r.path \in Paths, r.st = "store" => r.text \in Bodies, r.st # "sweep",
               armed' \subseteq Paths, rows' \subseteq Paths \X Bodies
        PROVE  TypeInv'
    <2>1. task' \in [Tasks -> TaskType] /\ task'[t] = r /\ \A u \in Tasks : u # t => task'[u] = task[u]
      BY <1>0, <1>5, OneTask DEF TypeInv
    <2>2. Others(Tasks)
      BY <1>0, <1>5, <2>1 DEF TypeInv
    <2>3. Watches
      BY <1>0, <1>5 DEF TypeInv, Watched, Queued
    <2> QED
      BY <1>0, <1>5, <2>1, <2>2, <2>3 DEF TypeInv
  <1>6. ASSUME NEW k \in Callbacks, NEW p \in Paths, Fire(k, p) PROVE TypeInv'
    <2>1. PICK r \in TaskType : Becomes(k, r) /\ r.st = "fired" /\ r.path = p /\ r.latest
      BY <1>6, FireStep
    <2>2. armed' = armed \ {p} /\ UNCHANGED <<inWorktree, tree, events, index, raced>>
      BY <1>6, FireStep
    <2> QED
      BY <1>0, <1>5, <2>1, <2>2 DEF TypeInv, tree, index
  <1>7. ASSUME NEW k \in Callbacks, Lock(k) PROVE TypeInv'
    <2>1. UNCHANGED <<inWorktree, tree, events, armed, index, raced>> /\ task[k].path \in Paths
      BY <1>7, LockStep
    <2>2. PICK r \in TaskType : /\ Becomes(k, r)
                                /\ \/ task[k].latest /\ r.st = "open" /\ r.path = task[k].path
                                   \/ ~task[k].latest /\ r = Idle
      BY <1>7, LockStep
    <2> QED
      BY <1>0, <1>i, <1>5, <2>1, <2>2 DEF TypeInv, tree, index
  <1>8. ASSUME NEW t \in Tasks, Open(t) PROVE TypeInv'
    <2>1. PICK p : p = task[t].path
      OBVIOUS
    <2>2. p \in Paths /\ UNCHANGED <<inWorktree, tree, events, armed, index>>
      BY <1>8, <2>1, OpenStep
    <2>3. PICK r \in TaskType : /\ Becomes(t, r)
                                /\ \/ disk[p] \in Bodies /\ r.path = p /\ r.st = "store" /\ r.text = disk[p]
                                   \/ r.path = p /\ r.st = "drop"
                                   \/ r = Idle
      BY <1>8, <2>1, OpenStep
    <2> QED
      BY <1>0, <1>i, <1>5, <2>2, <2>3 DEF TypeInv, tree, index
  <1>9. ASSUME NEW t \in Tasks, Store(t) PROVE TypeInv'
    <2>1. /\ task[t].path \in Paths /\ task[t].text \in Bodies /\ Becomes(t, Idle)
          /\ rows' = rows \cup {<<task[t].path, task[t].text>>}
          /\ UNCHANGED <<inWorktree, tree, events, armed, raced>>
      BY <1>9, StoreStep
    <2>2. rows' \subseteq Paths \X Bodies /\ armed' \subseteq Paths
      BY <1>0, <2>1 DEF TypeInv
    <2> QED
      BY <1>i, <1>5, <2>1, <2>2 DEF tree
  <1>10. ASSUME NEW t \in Tasks, DropFile(t) PROVE TypeInv'
    <2>1. /\ rows' = rows \ VersionsOf(task[t].path) /\ Becomes(t, Idle)
          /\ UNCHANGED <<inWorktree, tree, events, armed, raced>>
      BY <1>10, DropStep
    <2> QED
      BY <1>0, <1>i, <1>5, <2>1 DEF TypeInv, tree
  <1>11. CASE UNCHANGED watchVars
    <2>1. Watches
      BY <1>0, <1>11 DEF TypeInv, Watched, Queued, watchVars, tree
    <2> QED
      BY <1>0, <1>11, <2>1 DEF TypeInv, watchVars, tree, index
  <1> QED
    BY <1>1, <1>2, <1>3, <1>4, <1>6, <1>7, <1>8, <1>9, <1>10, <1>11, StepsOf

------------------------------------------------------------------------------
(* Reports *)

LEMMA ReportsNext == WatchInv /\ [WatchNext]_watchVars => ReportsTrue'
  <1> SUFFICES ASSUME WatchInv, [WatchNext]_watchVars PROVE ReportsTrue'
    OBVIOUS
  <1>0. TypeInv /\ ReportsTrue
    BY DEF WatchInv
  <1>1. CASE UNCHANGED <<disk, events>>
    BY <1>0, <1>1 DEF ReportsTrue
  <1>2. ASSUME NEW e \in Reports, events' = Append(events, e),
               \A q \in Paths : q # e.path => disk'[q] = disk[q],
               e.path \in Paths /\ e.op = "remove" => disk'[e.path] = Absent
        PROVE  ReportsTrue'
    <2>1. /\ Len(events') = Len(events) + 1 /\ Len(events) \in Nat
          /\ events'[Len(events) + 1] = e
          /\ \A i \in 1 .. Len(events) : events'[i] = events[i]
      BY <1>0, <1>2, QueueAppended DEF TypeInv
    <2> SUFFICES ASSUME NEW p \in Paths, NEW i \in 1 .. Len(events'),
                        events'[i].path = p, events'[i].op = "remove",
                        \A j \in i + 1 .. Len(events') : events'[j].path # p
                 PROVE  disk'[p] = Absent
      BY DEF ReportsTrue
    <2>2. CASE i = Len(events) + 1
      BY <1>2, <2>1, <2>2
    <2>3. CASE i # Len(events) + 1
      <3>1. i \in 1 .. Len(events) /\ Len(events) + 1 \in i + 1 .. Len(events')
        BY <2>1, <2>3
      <3>2. e.path # p
        BY <2>1, <3>1
      <3>3. \A j \in i + 1 .. Len(events) : events[j].path # p
        BY <2>1, <3>1
      <3> QED
        BY <1>0, <1>2, <2>1, <3>1, <3>2, <3>3 DEF ReportsTrue
    <2> QED
      BY <2>2, <2>3
  <1>3. ASSUME NEW p \in Paths, NEW c \in Contents \cup {Absent}, Change(p, c) PROVE ReportsTrue'
    <2>1. disk' = [disk EXCEPT ![p] = c] /\ disk \in [Paths -> Contents \cup {Absent}]
      BY <1>0, <1>3, ChangeStep DEF TypeInv
    <2>2. CASE \E e \in Reports : events' = Append(events, e) /\ e.path = p /\ (e.op = "remove" <=> c = Absent)
      BY <1>2, <2>1, <2>2
    <2>3. CASE ~Watched(p) /\ events' = events
      <3>1. \A i \in 1 .. Len(events) : events[i].path # p
        BY <1>0, <2>3 DEF TypeInv, Queued
      <3> QED
        BY <1>0, <2>1, <2>3, <3>1 DEF ReportsTrue
    <2> QED
      BY <1>3, <2>2, <2>3, ChangeStep
  <1>4. ASSUME MakeDir PROVE ReportsTrue'
    <2>1. disk' = disk /\ (events' = events \/ \E e \in Reports : e.path = SubDir /\ events' = Append(events, e))
      BY <1>4, MakeDirStep
    <2> QED
      BY <1>1, <1>2, <2>1, PathsAssumption
  <1>5. ASSUME HandleEvent PROVE ReportsTrue'
    <2>1. events # <<>> /\ events' = Tail(events) /\ disk' = disk
      BY <1>5, EventStep
    <2>2. /\ Len(events) \in Nat /\ Len(events') = Len(events) - 1
          /\ \A i \in 1 .. Len(events') : events'[i] = events[i + 1]
      BY <1>0, <2>1, Taken DEF TypeInv
    <2> SUFFICES ASSUME NEW p \in Paths, NEW i \in 1 .. Len(events'),
                        events'[i].path = p, events'[i].op = "remove",
                        \A j \in i + 1 .. Len(events') : events'[j].path # p
                 PROVE  disk'[p] = Absent
      BY DEF ReportsTrue
    <2>3. i + 1 \in 1 .. Len(events) /\ events[i + 1].path = p /\ events[i + 1].op = "remove"
      BY <2>2
    <2>4. ASSUME NEW j \in i + 1 + 1 .. Len(events) PROVE events[j].path # p
      <3>1. j - 1 \in i + 1 .. Len(events') /\ events'[j - 1] = events[j]
        BY <2>2
      <3> QED
        BY <3>1
    <2> QED
      BY <1>0, <2>1, <2>3, <2>4 DEF ReportsTrue
  <1>6. Watch => UNCHANGED <<disk, events>>
    BY DEF Watch
  <1>7. \A k \in Callbacks, p \in Paths : Fire(k, p) => UNCHANGED <<disk, events>>
    BY DEF Fire, tree
  <1>8. \A k \in Callbacks : Lock(k) => UNCHANGED <<disk, events>>
    BY DEF Lock, tree
  <1>9. \A t \in Tasks : Open(t) \/ Store(t) \/ DropFile(t) => UNCHANGED <<disk, events>>
    BY DEF Open, Store, DropFile, tree
  <1>10. UNCHANGED watchVars => UNCHANGED <<disk, events>>
    BY DEF watchVars, tree
  <1> QED
    BY <1>1, <1>3, <1>4, <1>5, <1>6, <1>7, <1>8, <1>9, <1>10, StepsOf

------------------------------------------------------------------------------
(* Who is at a file *)

LEMMA SingleNext == WatchInv /\ [WatchNext]_watchVars => Single'
  <1> SUFFICES ASSUME WatchInv, [WatchNext]_watchVars PROVE Single'
    OBVIOUS
  <1>0. TypeInv /\ Single /\ Loop \in Tasks /\ Callbacks \subseteq Tasks
    BY DEF WatchInv, Tasks
  <1>1. CASE UNCHANGED <<task, raced>>
    BY <1>0, <1>1 DEF Single, AtWork
  \* A task that begins to work marks its file, and one that ends leaves the marks.
  <1>2. ASSUME NEW t \in Tasks, NEW r \in TaskType, Becomes(t, r),
               IF r.st \in {"store", "drop"} THEN raced' = Marked(t, r.path) ELSE raced' = raced
        PROVE  Single'
    <2>1. task'[t] = r /\ \A u \in Tasks : u # t => task'[u] = task[u]
      BY <1>0, <1>2, OneTask DEF TypeInv
    <2> SUFFICES ASSUME NEW p \in Paths, p \notin raced', NEW u \in Tasks, NEW v \in Tasks,
                        AtWork(u, p)', AtWork(v, p)'
                 PROVE  u = v
      BY DEF Single
    <2>2. CASE r.st \in {"store", "drop"} /\ r.path = p
      <3>1. \A w \in Tasks : w # t => ~AtWork(w, p)
        BY <1>2, <2>2, MarkedIff
      <3> QED
        BY <2>1, <3>1 DEF AtWork
    <2>3. CASE ~(r.st \in {"store", "drop"} /\ r.path = p)
      <3>1. p \notin raced
        BY <1>2, <2>3, MarkedIff
      <3>2. u # t /\ v # t
        BY <2>1, <2>3 DEF AtWork
      <3>3. AtWork(u, p) /\ AtWork(v, p)
        BY <2>1, <3>2 DEF AtWork
      <3> QED
        BY <1>0, <3>1, <3>3 DEF Single
    <2> QED
      BY <2>2, <2>3
  <1>3. ASSUME HandleEvent PROVE Single'
    <2>1. PICK e : e = Head(events)
      OBVIOUS
    <2>2. CASE UNCHANGED <<task, raced>>
      BY <1>1, <2>2
    <2>3. CASE UNCHANGED raced /\ \E r \in TaskType : Becomes(Loop, r) /\ r.st = "open" /\ r.path = e.path
      BY <1>0, <1>2, <2>3
    <2>4. CASE UNCHANGED raced /\ task' = Supersede(e.path)
      <3>1. \A t \in Tasks : task'[t].st = task[t].st /\ task'[t].path = task[t].path
        BY <1>0, <2>4, Superseded DEF TypeInv
      <3> QED
        BY <1>0, <2>4, <3>1 DEF Single, AtWork
    <2>5. CASE raced' = Marked(Loop, e.path) /\ \E r \in TaskType : Becomes(Loop, r) /\ r.st = "drop" /\ r.path = e.path
      BY <1>0, <1>2, <2>5
    <2> QED
      BY <1>3, <2>1, <2>2, <2>3, <2>4, <2>5, EventStep
  <1>4. ASSUME NEW k \in Callbacks, NEW p \in Paths, Fire(k, p) PROVE Single'
    BY <1>0, <1>2, <1>4, FireStep
  <1>5. ASSUME NEW k \in Callbacks, Lock(k) PROVE Single'
    BY <1>0, <1>2, <1>5, LockStep, IdleTask
  <1>6. ASSUME NEW t \in Tasks, Open(t) PROVE Single'
    <2>1. PICK p : p = task[t].path
      OBVIOUS
    <2>2. PICK r \in TaskType :
            /\ Becomes(t, r)
            /\ \/ r.path = p /\ r.st \in {"store", "drop"} /\ raced' = Marked(t, p)
               \/ r = Idle /\ raced' = raced
      BY <1>6, <2>1, OpenStep
    <2> QED
      BY <1>2, <2>2, IdleTask
  <1>7. ASSUME NEW t \in Tasks, Store(t) \/ DropFile(t) PROVE Single'
    BY <1>2, <1>7, StoreStep, DropStep, IdleTask
  <1>8. \A p \in Paths, c \in Contents \cup {Absent} : Change(p, c) => UNCHANGED <<task, raced>>
    BY DEF Change
  <1>9. MakeDir \/ Watch \/ UNCHANGED watchVars => UNCHANGED <<task, raced>>
    BY DEF MakeDir, Watch, watchVars
  <1> QED
    BY <1>1, <1>3, <1>4, <1>5, <1>6, <1>7, <1>8, <1>9, StepsOf

------------------------------------------------------------------------------
(* What has to be done is on its way or done *)

LEMMA Untouched ==
  ASSUME NEW p \in Paths, SettledAt(p), disk'[p] = disk[p],
         Awaited(p) => Awaited(p)', Stored(p) => Stored(p)',
         \A t \in Tasks : AtWork(t, p)' <=> AtWork(t, p),
         \A t \in Tasks : AtWork(t, p) => task'[t].st = task[t].st /\ task'[t].text = task[t].text
  PROVE  SettledAt(p)'
  <1>1. CASE Awaited(p)
    BY <1>1 DEF SettledAt
  <1>2. ASSUME NEW t \in Tasks, AtWork(t, p), task[t].st = "store", task[t].text = disk[p] PROVE SettledAt(p)'
    <2>1. AtWork(t, p)' /\ task'[t].st = "store" /\ task'[t].text = disk'[p]
      BY <1>2
    <2> QED
      BY <2>1 DEF SettledAt
  <1>3. ASSUME NEW t \in Tasks, AtWork(t, p), task[t].st = "drop", disk[p] \notin Bodies PROVE SettledAt(p)'
    <2>1. AtWork(t, p)' /\ task'[t].st = "drop" /\ disk'[p] \notin Bodies
      BY <1>3
    <2> QED
      BY <2>1 DEF SettledAt
  <1>4. CASE Stored(p) /\ \A t \in Tasks : ~AtWork(t, p)
    BY <1>4 DEF SettledAt
  <1> QED
    BY <1>1, <1>2, <1>3, <1>4 DEF SettledAt

LEMMA StoredKept ==
  ASSUME NEW p, disk'[p] = disk[p], rows' = rows PROVE Stored(p)' <=> Stored(p)
  BY DEF Stored, VersionsOf

LEMMA AwaitedKept ==
  ASSUME NEW p \in Paths, disk'[p] = disk[p], Awaited(p),
         RemovalQueued(p) => RemovalQueued(p)',
         disk[p] # Absent => /\ Queued(p) => Queued(p)' \/ p \in armed' \/ Underway(p)'
                             /\ p \in armed => p \in armed' \/ Underway(p)'
                             /\ Underway(p) => p \in armed' \/ Underway(p)'
  PROVE  Awaited(p)'
  BY DEF Awaited

\* A step of t, as far as it concerns the file p.
LEMMA UnderwayOne ==
  ASSUME task \in [Tasks -> TaskType], NEW t \in Tasks, NEW r \in TaskType, Becomes(t, r), NEW p
  PROVE  /\ Underway(p) => \/ Underway(p)'
                           \/ task[t].path = p /\ (task[t].st = "open" \/ (task[t].st = "fired" /\ task[t].latest))
         /\ r.path = p /\ (r.st = "open" \/ (r.st = "fired" /\ r.latest)) => Underway(p)'
         /\ \A u \in Tasks : u # t => (AtWork(u, p)' <=> AtWork(u, p))
         /\ AtWork(t, p)' <=> r.path = p /\ r.st \in {"store", "drop"}
  <1>1. task'[t] = r /\ \A u \in Tasks : u # t => task'[u] = task[u]
    BY OneTask
  <1>2. \A u \in Tasks : u # t => (AtWork(u, p)' <=> AtWork(u, p))
    BY <1>1 DEF AtWork
  <1>3. AtWork(t, p)' <=> r.path = p /\ r.st \in {"store", "drop"}
    BY <1>1 DEF AtWork
  <1>4. r.path = p /\ (r.st = "open" \/ (r.st = "fired" /\ r.latest)) => Underway(p)'
    BY <1>1 DEF Underway
  <1>5. ASSUME NEW u \in Tasks, u # t, task[u].path = p,
               task[u].st = "open" \/ (task[u].st = "fired" /\ task[u].latest)
        PROVE  Underway(p)'
    BY <1>1, <1>5 DEF Underway
  <1> QED
    BY <1>2, <1>3, <1>4, <1>5 DEF Underway

\* A task that is not at work on p and does not begin to be, in a tree that stays.
LEMMA Elsewhere ==
  ASSUME WatchInv, NEW t \in Tasks, NEW r \in TaskType, Becomes(t, r), NEW p \in Paths,
         ~AtWork(t, p), r.path = p => r.st \notin {"store", "drop"},
         disk' = disk, rows' = rows, p \notin missed \cup raced,
         Awaited(p) => Awaited(p)'
  PROVE  SettledAt(p)'
  <1>1. task \in [Tasks -> TaskType] /\ SettledAt(p)
    BY DEF WatchInv, TypeInv, Settled
  <1>2. \A u \in Tasks : AtWork(u, p)' <=> AtWork(u, p)
    <2>1. (\A u \in Tasks : u # t => (AtWork(u, p)' <=> AtWork(u, p))) /\ ~AtWork(t, p)'
      BY <1>1, UnderwayOne
    <2>2. QED
      BY <2>1
  <1>3. \A u \in Tasks : u # t => task'[u] = task[u]
    BY <1>1, OneTask
  <1> QED
    BY <1>1, <1>2, <1>3, Untouched, StoredKept

LEMMA SettledNext == WatchInv /\ [WatchNext]_watchVars => Settled'
  <1> SUFFICES ASSUME WatchInv, [WatchNext]_watchVars, NEW p \in Paths, p \notin missed', p \notin raced'
               PROVE  SettledAt(p)'
    BY DEF Settled
  <1>0. /\ task \in [Tasks -> TaskType] /\ events \in Seq(Reports) /\ Loop \in Tasks
        /\ Callbacks \subseteq Tasks /\ disk \in [Paths -> Contents \cup {Absent}]
        /\ p \notin missed \cup raced => SettledAt(p)
    BY DEF WatchInv, TypeInv, Settled, Tasks
  <1>1. ASSUME NEW q \in Paths, NEW c \in Contents \cup {Absent}, Change(q, c) PROVE SettledAt(p)'
    <2>1. /\ disk' = [disk EXCEPT ![q] = c]
          /\ UNCHANGED <<inWorktree, watchRoot, watchSub, armed, task, index, raced>>
      BY <1>1, ChangeStep
    <2>2. CASE q = p
      <3>1. PICK e \in Reports : /\ events' = Append(events, e) /\ e.path = p
                                 /\ e.op = "remove" <=> c = Absent
        BY <1>1, <2>2, ChangeStep
      <3>2. Queued(p)' /\ (RemovalQueued(p)' <=> RemovalQueued(p) \/ e.op = "remove")
        BY <1>0, <3>1, QueueGrows
      <3>3. disk'[p] = c
        BY <1>0, <2>1, <2>2
      <3>4. Awaited(p)'
        BY <3>1, <3>2, <3>3 DEF Awaited
      <3> QED
        BY <3>4 DEF SettledAt
    <2>3. CASE q # p
      <3>1. (Queued(p) => Queued(p)') /\ (RemovalQueued(p) => RemovalQueued(p)') /\ p \notin missed
        <4>1. CASE \E e \in Reports : events' = Append(events, e) /\ missed' = missed \ {q}
          BY <1>0, <2>3, <4>1, QueueGrows
        <4>2. CASE events' = events /\ missed' = missed \cup {q}
          BY <4>2, QueueKept
        <4> QED
          BY <1>1, <4>1, <4>2, ChangeStep
      <3>2. disk'[p] = disk[p] /\ p \notin missed \cup raced /\ SettledAt(p)
        BY <1>0, <2>1, <2>3, <3>1
      <3>3. Awaited(p) => Awaited(p)'
        BY <2>1, <3>1, <3>2 DEF Awaited, Underway
      <3>4. \A t \in Tasks : AtWork(t, p)' <=> AtWork(t, p)
        BY <2>1 DEF AtWork
      <3> QED
        BY <2>1, <3>2, <3>3, <3>4, Untouched, StoredKept DEF index
    <2> QED
      BY <2>2, <2>3
  <1>2. ASSUME UNCHANGED <<disk, missed, armed, task, rows, raced>>,
               RemovalQueued(p) => RemovalQueued(p)', Queued(p) => Queued(p)'
        PROVE  SettledAt(p)'
    <2>1. Awaited(p) => Awaited(p)'
      BY <1>2 DEF Awaited, Underway
    <2>2. \A t \in Tasks : AtWork(t, p)' <=> AtWork(t, p)
      BY <1>2 DEF AtWork
    <2> QED
      BY <1>0, <1>2, <2>1, <2>2, Untouched, StoredKept
  <1>3. ASSUME MakeDir PROVE SettledAt(p)'
    <2>1. (RemovalQueued(p) => RemovalQueued(p)') /\ (Queued(p) => Queued(p)')
      BY <1>0, <1>3, MakeDirStep, QueueGrows, QueueKept
    <2> QED
      BY <1>2, <1>3, <2>1, MakeDirStep
  <1>4. CASE Watch \/ UNCHANGED watchVars
    <2>1. UNCHANGED <<disk, missed, armed, task, rows, raced, events>>
      BY <1>4 DEF Watch, watchVars, tree, index
    <2> QED
      BY <1>2, <2>1, QueueKept
  <1>5. ASSUME HandleEvent PROVE SettledAt(p)'
    <2>1. PICK e : e = Head(events)
      OBVIOUS
    <2>2. /\ e \in Reports /\ events # <<>> /\ events' = Tail(events) /\ task[Loop].st = "idle"
          /\ UNCHANGED <<inWorktree, disk, watchRoot, missed, index>>
      BY <1>5, <2>1, EventStep
    <2>3. /\ Queued(p) => Queued(p)' \/ e.path = p
          /\ RemovalQueued(p) => RemovalQueued(p)' \/ (e.path = p /\ e.op = "remove")
      BY <1>0, <2>1, <2>2, QueueShrinks
    <2>4. CASE e.path = SubDir /\ UNCHANGED <<armed, task, raced>>
      BY <1>2, <2>2, <2>3, <2>4, PathsAssumption DEF index
    <2>5. CASE /\ e.op = "create" /\ UNCHANGED <<armed, raced>>
               /\ \E r \in TaskType : Becomes(Loop, r) /\ r.st = "open" /\ r.path = e.path
      <3>1. PICK r \in TaskType : Becomes(Loop, r) /\ r.st = "open" /\ r.path = e.path
        BY <2>5
      <3>2. /\ Underway(p) => Underway(p)'
            /\ e.path = p => Underway(p)'
        BY <1>0, <2>2, <3>1, UnderwayOne
      <3>3. Awaited(p) => Awaited(p)'
        BY <2>2, <2>3, <2>5, <3>2, AwaitedKept
      <3>4. ~AtWork(Loop, p)
        BY <2>2 DEF AtWork
      <3> QED
        BY <1>0, <2>2, <2>5, <3>1, <3>3, <3>4, Elsewhere DEF index
    <2>6. CASE /\ e.op = "write" /\ UNCHANGED raced
               /\ armed' = armed \cup {e.path} /\ task' = Supersede(e.path)
      <3>1. \A t \in Tasks : /\ task'[t].st = task[t].st /\ task'[t].path = task[t].path
                             /\ task'[t].text = task[t].text
                             /\ task'[t].latest = task[t].latest \/ task[t].path = e.path
        BY <1>0, <2>6, Superseded
      <3>2. Underway(p) => Underway(p)' \/ p \in armed'
        BY <2>6, <3>1 DEF Underway
      <3>3. Awaited(p) => Awaited(p)'
        BY <2>2, <2>3, <2>6, <3>2, AwaitedKept
      <3>4. \A t \in Tasks : AtWork(t, p)' <=> AtWork(t, p)
        BY <3>1 DEF AtWork
      <3> QED
        BY <1>0, <2>2, <2>6, <3>1, <3>3, <3>4, Untouched, StoredKept DEF index
    <2>7. CASE /\ e.op = "remove" /\ e.path \in Paths /\ UNCHANGED armed
               /\ raced' = Marked(Loop, e.path)
               /\ \E r \in TaskType : Becomes(Loop, r) /\ r.st = "drop" /\ r.path = e.path
      <3>1. PICK r \in TaskType : Becomes(Loop, r) /\ r.st = "drop" /\ r.path = e.path
        BY <2>7
      <3>2. (Underway(p) => Underway(p)') /\ task'[Loop] = r
        BY <1>0, <2>2, <3>1, UnderwayOne, OneTask
      <3>3. CASE e.path # p
        <4>1. Awaited(p) => Awaited(p)'
          BY <2>2, <2>3, <2>7, <3>2, <3>3, AwaitedKept
        <4>2. p \notin missed \cup raced
          BY <2>2, <2>7, <3>3, MarkedIff
        <4> QED
          BY <1>0, <2>2, <3>1, <3>3, <4>1, <4>2, Elsewhere DEF index, AtWork
      <3>4. CASE e.path = p /\ disk[p] \notin Bodies
        <4>1. AtWork(Loop, p)' /\ task'[Loop].st = "drop" /\ disk'[p] \notin Bodies
          BY <2>2, <3>1, <3>2, <3>4 DEF AtWork
        <4> QED
          BY <1>0, <4>1 DEF SettledAt
      <3>5. CASE e.path = p /\ disk[p] \in Bodies
        <4>1. disk[p] # Absent
          BY <3>5, ContentsAssumption DEF Contents
        <4>2. /\ Len(events) \in Nat /\ 1 \in 1 .. Len(events) /\ events[1] = e
              /\ Len(events') = Len(events) - 1
              /\ \A i \in 1 .. Len(events') : events'[i] = events[i + 1]
          <5>1. Len(events) # 0
            BY <1>0, <2>2
          <5> QED
            BY <1>0, <2>1, <2>2, <5>1, Taken
        <4>3. PICK j \in 2 .. Len(events) : events[j].path = p
          BY <2>7, <3>5, <4>1, <4>2 DEF WatchInv, ReportsTrue
        <4>4. j - 1 \in 1 .. Len(events') /\ events'[j - 1].path = p
          BY <4>2, <4>3
        <4>5. Queued(p)' /\ disk'[p] # Absent
          BY <2>2, <4>1, <4>4 DEF Queued
        <4>6. Awaited(p)'
          BY <4>5 DEF Awaited
        <4> QED
          BY <4>6 DEF SettledAt
      <3> QED
        BY <3>3, <3>4, <3>5
    <2> QED
      BY <1>5, <2>1, <2>4, <2>5, <2>6, <2>7, EventStep
  <1>6. ASSUME NEW k \in Callbacks, NEW q \in Paths, Fire(k, q) PROVE SettledAt(p)'
    <2>1. /\ task[k].st = "idle" /\ armed' = armed \ {q} /\ k \in Tasks
          /\ UNCHANGED <<inWorktree, tree, events, index, raced>>
      BY <1>0, <1>6, FireStep
    <2>2. PICK r \in TaskType : Becomes(k, r) /\ r.st = "fired" /\ r.path = q /\ r.latest
      BY <1>6, FireStep
    <2>3. (Underway(p) => Underway(p)') /\ (q = p => Underway(p)')
      BY <1>0, <2>1, <2>2, UnderwayOne
    <2>4. (Queued(p) => Queued(p)') /\ (RemovalQueued(p) => RemovalQueued(p)')
      BY <2>1, QueueKept
    <2>5. Awaited(p) => Awaited(p)'
      BY <2>1, <2>3, <2>4, AwaitedKept DEF tree
    <2>6. ~AtWork(k, p)
      BY <2>1 DEF AtWork
    <2> QED
      BY <2>1, <2>2, <2>5, <2>6, Elsewhere DEF tree, index
  <1>7. ASSUME NEW k \in Callbacks, Lock(k) PROVE SettledAt(p)'
    <2>1. /\ task[k].st = "fired" /\ k \in Tasks
          /\ UNCHANGED <<inWorktree, tree, events, armed, index, raced>>
      BY <1>0, <1>7, LockStep
    <2>2. PICK r \in TaskType : /\ Becomes(k, r)
                                /\ \/ task[k].latest /\ r.st = "open" /\ r.path = task[k].path
                                   \/ ~task[k].latest /\ r = Idle
      BY <1>7, LockStep
    <2>3. Underway(p) => Underway(p)'
      BY <1>0, <2>1, <2>2, UnderwayOne
    <2>4. (Queued(p) => Queued(p)') /\ (RemovalQueued(p) => RemovalQueued(p)')
      BY <2>1, QueueKept
    <2>5. Awaited(p) => Awaited(p)'
      BY <2>1, <2>3, <2>4, AwaitedKept DEF tree
    <2>6. ~AtWork(k, p) /\ r.st \notin {"store", "drop"}
      BY <2>1, <2>2, IdleTask DEF AtWork
    <2> QED
      BY <2>1, <2>2, <2>5, <2>6, Elsewhere DEF tree, index
  <1>8. ASSUME NEW t \in Tasks, Open(t) PROVE SettledAt(p)'
    <2>1. PICK q : q = task[t].path
      OBVIOUS
    <2>2. /\ task[t].st = "open" /\ q \in Paths
          /\ UNCHANGED <<inWorktree, tree, events, armed, index>>
      BY <1>8, <2>1, OpenStep
    <2>3. PICK r \in TaskType :
            /\ Becomes(t, r)
            /\ \/ /\ disk[q] \in Bodies /\ r.path = q /\ r.st = "store" /\ r.text = disk[q]
                  /\ raced' = Marked(t, q)
               \/ disk[q] = Blank /\ r.path = q /\ r.st = "drop" /\ raced' = Marked(t, q)
               \/ disk[q] = Absent /\ r = Idle /\ raced' = raced
      BY <1>8, <2>1, OpenStep
    <2>4. (Queued(p) => Queued(p)') /\ (RemovalQueued(p) => RemovalQueued(p)')
      BY <2>2, QueueKept
    <2>5. task'[t] = r
      BY <1>0, <2>3, OneTask
    <2>6. CASE q # p \/ disk[q] = Absent
      <3>1. disk[p] # Absent => (Underway(p) => Underway(p)')
        BY <1>0, <2>1, <2>3, <2>6, UnderwayOne
      <3>2. Awaited(p) => Awaited(p)'
        BY <2>2, <2>4, <3>1, AwaitedKept DEF tree
      <3>3. p \notin missed \cup raced
        BY <2>2, <2>3, <2>6, MarkedIff, ContentsAssumption DEF tree, Contents
      <3>4. r.path = p => r.st \notin {"store", "drop"}
        BY <2>3, <2>6, IdleTask, ContentsAssumption DEF Contents
      <3>5. ~AtWork(t, p)
        BY <2>2 DEF AtWork
      <3> QED
        BY <2>2, <2>3, <3>2, <3>3, <3>4, <3>5, Elsewhere DEF tree, index
    <2>7. CASE q = p /\ disk[p] \in Bodies
      <3>1. AtWork(t, p)' /\ task'[t].st = "store" /\ task'[t].text = disk'[p]
        BY <2>2, <2>3, <2>5, <2>7, ContentsAssumption DEF AtWork, tree, Contents
      <3> QED
        BY <3>1 DEF SettledAt
    <2>8. CASE q = p /\ disk[p] = Blank
      <3>1. AtWork(t, p)' /\ task'[t].st = "drop" /\ disk'[p] \notin Bodies
        BY <2>2, <2>3, <2>5, <2>8, ContentsAssumption DEF AtWork, tree, Contents
      <3> QED
        BY <3>1 DEF SettledAt
    <2> QED
      BY <2>3, <2>6, <2>7, <2>8
  \* The task that stores or removes ends.
  <1>9. ASSUME NEW t \in Tasks, AtWork(t, task[t].path), Becomes(t, Idle),
               UNCHANGED <<tree, events, armed, raced>>, NEW q, q = task[t].path,
               \A x \in Paths : x # q => (Stored(x) => Stored(x)'),
               /\ q = p => (Stored(p)' \/ Awaited(p) \/ \E u \in Tasks \ {t} : AtWork(u, p))
        PROVE  SettledAt(p)'
    <2>0. p \notin missed \cup raced /\ SettledAt(p) /\ disk' = disk
      BY <1>0, <1>9 DEF tree
    <2>1. /\ Underway(p) => Underway(p)'
          /\ \A u \in Tasks : u # t => (AtWork(u, p)' <=> AtWork(u, p))
          /\ ~AtWork(t, p)'
      <3>1. task[t].st \in {"store", "drop"}
        BY <1>9 DEF AtWork
      <3> QED
        BY <1>0, <1>9, <3>1, IdleTask, UnderwayOne
    <2>2. (Queued(p) => Queued(p)') /\ (RemovalQueued(p) => RemovalQueued(p)')
      BY <1>9, QueueKept
    <2>3. Awaited(p) => Awaited(p)'
      BY <1>9, <2>0, <2>1, <2>2 DEF Awaited
    <2>4. \A u \in Tasks : u # t => task'[u] = task[u]
      BY <1>0, <1>9, IdleTask, OneTask
    <2>5. CASE q # p
      <3>1. ~AtWork(t, p)
        BY <1>9, <2>5 DEF AtWork
      <3> QED
        BY <1>9, <2>0, <2>1, <2>3, <2>4, <2>5, <3>1, Untouched
    <2>6. CASE q = p
      <3>1. \A u \in Tasks : u # t => ~AtWork(u, p)
        BY <1>9, <2>0, <2>6 DEF WatchInv, Single
      <3>2. Stored(p)' \/ Awaited(p)'
        BY <1>9, <2>3, <2>6, <3>1
      <3> QED
        BY <2>1, <3>1, <3>2 DEF SettledAt
    <2> QED
      BY <2>5, <2>6
  <1>10. ASSUME NEW t \in Tasks, Store(t) PROVE SettledAt(p)'
    <2>1. PICK q : q = task[t].path
      OBVIOUS
    <2>2. /\ task[t].st = "store" /\ q \in Paths /\ task[t].text \in Bodies
          /\ rows' = rows \cup {<<q, task[t].text>>} /\ Becomes(t, Idle)
          /\ UNCHANGED <<inWorktree, tree, events, armed, raced>>
      BY <1>10, <2>1, StoreStep
    <2>3. \A x \in Paths : x # q => (Stored(x) => Stored(x)')
      BY <2>2 DEF Stored, VersionsOf, tree
    <2>4. ASSUME q = p PROVE Stored(p)' \/ Awaited(p) \/ \E u \in Tasks \ {t} : AtWork(u, p)
      <3>1. SettledAt(p) /\ disk' = disk /\ AtWork(t, p)
        BY <1>0, <2>1, <2>2, <2>4 DEF tree, AtWork
      <3>2. CASE task[t].text = disk[p]
        <4>1. Stored(p)'
          BY <2>2, <2>4, <3>1, <3>2 DEF Stored
        <4> QED
          BY <4>1
      <3>3. CASE task[t].text # disk[p]
        BY <2>2, <3>1, <3>3 DEF SettledAt
      <3> QED
        BY <3>2, <3>3
    <2> QED
      BY <1>9, <2>1, <2>2, <2>3, <2>4 DEF AtWork
  <1>11. ASSUME NEW t \in Tasks, DropFile(t) PROVE SettledAt(p)'
    <2>1. PICK q : q = task[t].path
      OBVIOUS
    <2>2. /\ task[t].st = "drop" /\ q \in Paths
          /\ rows' = rows \ VersionsOf(q) /\ Becomes(t, Idle)
          /\ UNCHANGED <<inWorktree, tree, events, armed, raced>>
      BY <1>11, <2>1, DropStep
    <2>3. \A x \in Paths : x # q => (Stored(x) => Stored(x)')
      BY <2>2 DEF Stored, VersionsOf, tree
    <2>4. ASSUME q = p PROVE Stored(p)' \/ Awaited(p) \/ \E u \in Tasks \ {t} : AtWork(u, p)
      <3>1. SettledAt(p) /\ disk' = disk /\ AtWork(t, p)
        BY <1>0, <2>1, <2>2, <2>4 DEF tree, AtWork
      <3>2. CASE disk[p] \notin Bodies
        <4>1. Stored(p)'
          BY <2>2, <2>4, <3>1, <3>2 DEF Stored, VersionsOf
        <4> QED
          BY <4>1
      <3>3. CASE disk[p] \in Bodies
        BY <2>2, <3>1, <3>3 DEF SettledAt
      <3> QED
        BY <3>2, <3>3
    <2> QED
      BY <1>9, <2>1, <2>2, <2>3, <2>4 DEF AtWork
  <1> QED
    BY <1>1, <1>3, <1>4, <1>5, <1>6, <1>7, <1>8, <1>10, <1>11, StepsOf

------------------------------------------------------------------------------
LEMMA WatchInvInit == WatchInit /\ ~inWorktree => WatchInv
  <1> SUFFICES ASSUME WatchInit, ~inWorktree PROVE WatchInv
    OBVIOUS
  <1>1. Len(events) = 0
    BY IdleTask DEF WatchInit
  <1>2. TypeInv
    <2>1. events \in Seq(Reports) /\ task \in [Tasks -> TaskType] /\ rows \subseteq Paths \X Bodies
      BY IdleTask DEF WatchInit
    <2>2. \A t \in Tasks : task[t].st = "idle"
      BY IdleTask DEF WatchInit
    <2> QED
      BY <1>1, <2>1, <2>2 DEF WatchInit, TypeInv, Queued
  <1>3. ReportsTrue
    BY <1>1 DEF ReportsTrue
  <1>4. \A t \in Tasks, p \in Paths : ~AtWork(t, p)
    BY IdleTask DEF WatchInit, AtWork
  <1>5. \A p \in Paths : Stored(p)
    BY ContentsAssumption DEF WatchInit, Stored, VersionsOf, Contents
  <1> QED
    BY <1>2, <1>3, <1>4, <1>5 DEF WatchInv, Single, Settled, SettledAt

LEMMA WatchInvNext == WatchInv /\ [WatchNext]_watchVars => WatchInv'
  <1>1. WatchInv /\ [WatchNext]_watchVars => inWorktree' = inWorktree
    BY DEF WatchNext, Change, MakeDir, Watch, HandleEvent, Fire, Lock, TaskStep, Open, Store, DropFile,
           Sweep, watchVars
  <1> QED
    BY <1>1, TypeNext, ReportsNext, SingleNext, SettledNext DEF WatchInv

LEMMA WatchInvEnough == WatchInv => NoChangeLost
  <1> SUFFICES ASSUME WatchInv, Quiet, NEW p \in Paths \ (missed \cup raced) PROVE Stored(p)
    BY DEF NoChangeLost, Stored
  <1>1. SettledAt(p) /\ events = <<>> /\ armed = {} /\ \A t \in Tasks : task[t].st = "idle"
    BY DEF WatchInv, Settled, Quiet
  <1>2. ~Queued(p) /\ ~RemovalQueued(p)
    BY <1>1 DEF Queued, RemovalQueued
  <1>3. ~Underway(p) /\ \A t \in Tasks : ~AtWork(t, p)
    BY <1>1 DEF Underway, AtWork
  <1> QED
    BY <1>1, <1>2, <1>3 DEF SettledAt, Awaited

\* In a folder without a worktree no reported change of a file is lost, whatever
\* timers, callbacks and events overtake each other, for any number of files, changes
\* and callbacks: once all is quiet the store has what the tree has, but for files that
\* two tasks were at together.
THEOREM ReportsAreHandled == WatchSpec => []NoChangeLost
  <1>1. WatchSpec /\ ~inWorktree => []NoChangeLost
    BY WatchInvInit, WatchInvNext, WatchInvEnough, PTL DEF WatchSpec
  <1>2. inWorktree /\ [WatchNext]_watchVars => inWorktree'
    BY DEF WatchNext, Change, MakeDir, Watch, HandleEvent, Fire, Lock, TaskStep, Open, Store, DropFile,
           Sweep, watchVars
  <1>3. inWorktree => NoChangeLost
    BY DEF NoChangeLost
  <1>4. WatchSpec /\ inWorktree => []NoChangeLost
    BY <1>2, <1>3, PTL DEF WatchSpec
  <1> QED
    BY <1>1, <1>4

------------------------------------------------------------------------------
(* Chunker.  The invariant says of each stage how much of the text the chunks *)
(* show so far, and what is pending.                                          *)
\* A byte is in a chunk, or in the lines that are pending.
Covered(cs, i) == \E k \in DOMAIN cs : Covers(cs[k], i)
InPend(pe, i) == pe.size > 0 /\ pe.from <= i /\ i <= pe.to

\* Chunks cut as they should be, with the lines that hold their text.
FineCut(c) ==
  /\ c.size <= MaxChars
  /\ c.from <= c.to => RuneStart(c.from) /\ (c.to = Len(text) \/ RuneStart(c.to + 1))
Before(cs, k) == k > 1 /\ Unsplittable(cs[k - 1])
FineList(cs) ==
  \A k \in DOMAIN cs : (FineCut(cs[k]) \/ Unsplittable(cs[k]) \/ Before(cs, k)) /\ LinesTrue(cs[k])

\* Of the text before line n, or before byte n, nothing is missing.
ShownLines(cs, n) == \A i \in NonBlank(1, Len(text)) : LineOf(i) < n => Covered(cs, i)
ShownBytes(cs, a, n) == \A i \in NonBlank(1, Len(text)) : a <= i /\ i < n => Covered(cs, i)

\* The size of the pending chunk is that of its lines and the ends added to them.
PendExtra(pe, so) ==
  IF so = "file" THEN (pe.last - pe.first) + (IF pe.last < LineCount THEN 1 ELSE 0) ELSE 0
PendSound(pe, nx, so) ==
  pe.size > 0 =>
    /\ 1 <= pe.first /\ pe.first <= pe.last /\ pe.last + 1 = nx /\ pe.last <= LineCount
    /\ pe.from = LineFirst(pe.first) /\ pe.to = LineLast(pe.last)
    /\ pe.size = (pe.to + 1 - pe.from) + 1 + PendExtra(pe, so)
    /\ pe.size <= MaxChars + 1

\* Which lines are taken: all of the file, up to a symbol, or after the last one.
FeedSound(nx, la, so, le, ll, fi) ==
  /\ nx >= 1 /\ la <= LineCount
  /\ so = "file" => /\ le = <<>> /\ ll = 0
                    /\ la = LineCount \/ (la + 1 = LineCount /\ LineLen(LineCount) = 0)
  /\ so = "gap" => IF le = <<>> THEN la = LineCount ELSE la + 1 = fi

\* What holds at any stage, and what each stage adds to it.
SymbolsSound(le) ==
  \A k \in DOMAIN le : /\ 1 <= le[k][1] /\ le[k][1] <= le[k][2] /\ le[k][1] <= LineCount
                       /\ ~IsBlank(le[k][1])

BaseSound(so, le, ll, cs) ==
  /\ cs \in Seq(Chunks) /\ FineList(cs)
  /\ so \in {"file", "gap"}
  /\ le \in Seq(Nat \X Nat) /\ SymbolsSound(le)
  /\ ll \in Nat /\ ll <= LineCount

StageSound(st, nx, la, so, pe, le, ll, po, li, cs, fi, en) ==
  /\ st = "begin" => cs = <<>> /\ le = <<>> /\ ll = 0
  /\ st = "lines" =>
       /\ FeedSound(nx, la, so, le, ll, fi)
       /\ PendSound(pe, nx, so)
       /\ \A i \in NonBlank(1, Len(text)) : LineOf(i) < nx => Covered(cs, i) \/ InPend(pe, i)
  /\ st = "cuts" =>
       /\ FeedSound(nx, la, so, le, ll, fi) /\ nx <= la
       /\ pe = NonePending
       /\ LineFirst(nx) <= po /\ po <= LineLast(nx) /\ RuneStart(po)
       /\ ShownLines(cs, nx) /\ ShownBytes(cs, LineFirst(nx), po)
  /\ st = "symbols" => ShownLines(cs, ll + 1)
  /\ st \in {"emit", "pieces"} => le # <<>> /\ ShownLines(cs, fi)
  /\ st = "pieces" =>
       /\ LineFirst(fi) <= po /\ po <= LineLast(en) + 1
       /\ ShownBytes(cs, LineFirst(fi), po)
       /\ LineOf(po) <= li
       /\ \/ po = LineLast(en) + 1
          \/ RuneStart(po)
          \/ cs # <<>> /\ Unsplittable(cs[Len(cs)])
  /\ st = "prose" =>
       /\ 1 <= po
       /\ Len(text) > MaxChars => po <= Len(text) /\ RuneStart(po)
       /\ ShownBytes(cs, 1, po)
  /\ st = "cap" =>
       \A i \in NonBlank(1, Len(text)) : Covered(cs, i) \/ (le = <<>> /\ ll = 0 /\ Beyond(i))

TypesSound(st, nx, la, pe, po, li) ==
  /\ st \in {"begin", "lines", "cuts", "symbols", "emit", "pieces", "prose", "cap", "kept"}
  /\ nx \in Nat /\ la \in Nat /\ po \in Nat /\ li \in Nat
  /\ pe \in [from : Nat, to : Nat, size : Nat, first : Nat, last : Nat]

Sound(st, nx, la, so, pe, le, ll, po, li, cs, fi, en) ==
  /\ TypesSound(st, nx, la, pe, po, li)
  /\ BaseSound(so, le, ll, cs)
  /\ StageSound(st, nx, la, so, pe, le, ll, po, li, cs, fi, en)

\* The invariant, over names for the values of the state: a step is then proved
\* once for the values it begins with and once for those it ends with.
Sane == text \in Seq(Bytes) /\ Valid(text)
ChunkInv ==
  /\ Sane
  /\ \A st, nx, la, so, pe, le, ll, po, li, cs, fi, en :
       /\ st = stage /\ nx = next /\ la = last /\ so = source /\ pe = pend /\ le = left
       /\ ll = lastLine /\ po = pos /\ li = line /\ cs = chunks
       /\ fi = First /\ en = End
       => Sound(st, nx, la, so, pe, le, ll, po, li, cs, fi, en)

Typed == text \in Seq(Bytes)

\* A nonempty set of naturals has a least element, a bounded one a greatest.
LEMMA LeastIs ==
  ASSUME NEW S \in SUBSET Nat, S # {}
  PROVE  Least(S) \in S /\ \A j \in S : Least(S) <= j
<1> DEFINE R == OpToRel(<, Nat)
<1>1. IsWellFoundedOn(R, Nat)
  BY NatLessThanWellFounded
<1>2. \A x, y \in Nat : y < x => <<y, x>> \in R
  <2> SUFFICES ASSUME NEW x \in Nat, NEW y \in Nat, y < x PROVE <<y, x>> \in R
    OBVIOUS
  <2> DEFINE t == <<y, x>>
  <2>1. t \in Nat \X Nat /\ t[1] < t[2]
    OBVIOUS
  <2>2. QED
    BY <2>1, Zenon DEF OpToRel
<1> HIDE DEF R
<1>3. PICK x \in S : \A y \in S : ~ (<<y, x>> \in R)
  BY <1>1, WFMin
<1>4. ASSUME NEW y \in S PROVE x <= y
  <2>1. x \in Nat /\ y \in Nat
    OBVIOUS
  <2>2. ~ (y < x)
    BY <1>2, <1>3, <2>1, Zenon
  <2>3. QED
    BY <2>1, <2>2
<1>5. \E i \in S : \A j \in S : i <= j
  BY <1>4
<1>6. QED
  BY <1>5, Zenon DEF Least

LEMMA GreatestIs ==
  ASSUME NEW n \in Nat, NEW S \in SUBSET (0 .. n), S # {}
  PROVE  Greatest(S) \in S /\ \A j \in S : j <= Greatest(S)
<1> DEFINE T == {m \in 0 .. n : n - m \in S}
<1>1. T \in SUBSET Nat /\ T # {}
  <2>1. PICK s \in S : TRUE
    OBVIOUS
  <2>2. n - s \in 0 .. n /\ n - (n - s) = s
    BY <2>1
  <2>3. n - s \in T
    BY <2>1, <2>2
  <2>4. QED
    BY <2>3
<1> DEFINE m == Least(T)
<1>2. m \in T /\ \A j \in T : m <= j
  BY <1>1, LeastIs, Zenon
<1> HIDE DEF m
<1>3. m \in 0 .. n /\ n - m \in S
  BY <1>2
<1>4. ASSUME NEW j \in S PROVE j <= n - m
  <2>1. j \in 0 .. n
    OBVIOUS
  <2>2. n - j \in 0 .. n /\ n - (n - j) = j
    BY <2>1
  <2>3. n - j \in T
    BY <2>2
  <2>4. m <= n - j
    BY <1>2, <2>3
  <2>5. QED
    BY <1>3, <2>1, <2>4
<1>5. \E i \in S : \A j \in S : j <= i
  BY <1>3, <1>4
<1>6. QED
  BY <1>5, Zenon DEF Greatest

------------------------------------------------------------------------------
(* Lines. *)

LEMMA NewlinesFinite ==
  ASSUME Typed
  PROVE  /\ Newlines \subseteq 1 .. Len(text) /\ IsFiniteSet(Newlines)
         /\ Cardinality(Newlines) \in Nat
<1>1. Newlines \subseteq 1 .. Len(text)
  BY DEF Newlines, Typed
<1>2. Len(text) \in Nat
  BY DEF Typed
<1>3. IsFiniteSet(1 .. Len(text))
  BY <1>2, FS_Interval
<1>4. IsFiniteSet(Newlines)
  BY <1>1, <1>3, FS_Subset
<1>5. QED
  BY <1>1, <1>4, FS_CardinalityType

LEMMA LineEndsNat ==
  ASSUME Typed, NEW a, NEW b
  PROVE  LineEnds(a, b) \in Nat /\ LineEnds(a, b) <= Cardinality(Newlines)
<1>1. IsFiniteSet(Newlines) /\ Newlines \cap (a .. b) \in SUBSET Newlines
  BY NewlinesFinite
<1>2. IsFiniteSet(Newlines \cap (a .. b)) /\ Cardinality(Newlines \cap (a .. b)) <= Cardinality(Newlines)
  BY <1>1, FS_Subset
<1>3. QED
  BY <1>2, FS_CardinalityType DEF LineEnds

LEMMA LineEndsGrow ==
  ASSUME Typed, NEW a \in Nat, NEW b \in Nat, NEW c \in Nat, NEW d \in Nat, c <= a, b <= d
  PROVE  LineEnds(a, b) <= LineEnds(c, d)
<1>1. IsFiniteSet(Newlines \cap (c .. d))
  BY NewlinesFinite, FS_Subset
<1>2. Newlines \cap (a .. b) \in SUBSET (Newlines \cap (c .. d))
  OBVIOUS
<1>3. QED
  BY <1>1, <1>2, FS_Subset DEF LineEnds

\* The line of the next byte.
LEMMA LineNext ==
  ASSUME Typed, NEW i \in Nat, i >= 1
  PROVE  LineOf(i + 1) = LineOf(i) + (IF i \in Newlines THEN 1 ELSE 0)
<1> DEFINE S == Newlines \cap (1 .. (i - 1))
<1> DEFINE T == Newlines \cap (1 .. i)
<1>1. IsFiniteSet(S) /\ Cardinality(S) \in Nat
  BY NewlinesFinite, FS_Subset, FS_CardinalityType
<1>2. CASE i \in Newlines
  <2>1. T = S \cup {i} /\ i \notin S
    BY <1>2
  <2>2. Cardinality(T) = Cardinality(S) + 1
    BY <1>1, <2>1, FS_AddElement
  <2>3. QED
    BY <1>1, <1>2, <2>2 DEF LineOf, LineEnds
<1>3. CASE i \notin Newlines
  <2>1. T = S
    BY <1>3
  <2>2. QED
    BY <1>1, <1>3, <2>1 DEF LineOf, LineEnds
<1>4. QED
  BY <1>2, <1>3

LEMMA LineType ==
  ASSUME Typed
  PROVE  /\ LineCount \in Nat /\ LineCount >= 1
         /\ \A i : LineOf(i) \in Nat /\ 1 <= LineOf(i) /\ LineOf(i) <= LineCount
         /\ LineOf(1) = 1
         /\ LineOf(Len(text) + 1) = LineCount
<1>1. LineCount \in Nat /\ LineCount >= 1
  BY NewlinesFinite DEF LineCount
<1>2. ASSUME NEW i PROVE LineOf(i) \in Nat /\ 1 <= LineOf(i) /\ LineOf(i) <= LineCount
  BY LineEndsNat, NewlinesFinite DEF LineOf, LineCount
<1>3. LineOf(1) = 1
  <2>1. Newlines \cap (1 .. (1 - 1)) = {}
    OBVIOUS
  <2>2. QED
    BY <2>1, FS_EmptySet DEF LineOf, LineEnds
<1>4. LineOf(Len(text) + 1) = LineCount
  <2>1. Len(text) \in Nat /\ Len(text) + 1 - 1 = Len(text)
    BY DEF Typed
  <2>2. Newlines \cap (1 .. Len(text)) = Newlines
    BY <2>1, NewlinesFinite
  <2>3. ((Len(text) + 1) - 1) = Len(text)
    BY <2>1
  <2>4. LineEnds(1, (Len(text) + 1) - 1) = Cardinality(Newlines)
    BY <2>2, <2>3, Zenon DEF LineEnds
  <2>5. QED
    BY <2>4, Zenon DEF LineOf, LineCount
<1>5. QED
  BY <1>1, <1>2, <1>3, <1>4

LEMMA LineGrows ==
  ASSUME Typed, NEW i \in Nat, NEW j \in Nat, 1 <= i, i <= j
  PROVE  LineOf(i) <= LineOf(j)
<1>1. i - 1 \in Nat /\ j - 1 \in Nat /\ 1 \in Nat /\ 1 <= 1 /\ i - 1 <= j - 1
  OBVIOUS
<1>2. LineEnds(1, i - 1) <= LineEnds(1, j - 1)
  BY <1>1, LineEndsGrow
<1>3. QED
  BY <1>2, LineEndsNat DEF LineOf

\* Line ends are counted between two positions.
LEMMA LineEndsBetween ==
  ASSUME Typed, NEW a \in Nat, NEW b \in Nat, 1 <= a, a <= b + 1
  PROVE  LineEnds(a, b) = LineOf(b + 1) - LineOf(a)
<1> DEFINE S == Newlines \cap (1 .. (a - 1))
<1> DEFINE T == Newlines \cap (a .. b)
<1> DEFINE U == Newlines \cap (1 .. b)
<1>1. IsFiniteSet(S) /\ IsFiniteSet(T) /\ Cardinality(S) \in Nat /\ Cardinality(T) \in Nat
  BY NewlinesFinite, FS_Subset, FS_CardinalityType
<1>2. U = S \cup T /\ S \cap T = {}
  OBVIOUS
<1>3. Cardinality(S \cup T) = Cardinality(S) + Cardinality(T)
  <2>1. Cardinality(S \cap T) = 0
    BY <1>2, FS_EmptySet
  <2>2. Cardinality(S \cup T) = Cardinality(S) + Cardinality(T) - Cardinality(S \cap T)
    BY <1>1, FS_Union, Zenon
  <2>3. QED
    BY <1>1, <2>1, <2>2
<1>4. b + 1 - 1 = b
  OBVIOUS
<1>5. LineOf(b + 1) = 1 + Cardinality(U) /\ LineOf(a) = 1 + Cardinality(S) /\ LineEnds(a, b) = Cardinality(T)
  BY <1>4 DEF LineOf, LineEnds
<1>6. QED
  BY <1>1, <1>2, <1>3, <1>5

\* Every line but the last ends somewhere, and once.
LEMMA LineStops ==
  ASSUME Typed, NEW k \in Nat, 1 <= k, k < LineCount
  PROVE  \E m \in Newlines : {i \in Newlines : LineOf(i) = k} = {m} /\ LineOf(m) = k /\ LineOf(m + 1) = k + 1
<1>1. Len(text) \in Nat
  BY DEF Typed
<1> DEFINE S == {i \in 1 .. Len(text) : LineOf(i) <= k}
<1>2. S \in SUBSET (0 .. Len(text))
  BY <1>1
<1>3. Len(text) >= 1
  BY <1>1, LineType
<1>4. 1 \in S
  BY <1>1, <1>3, LineType
<1> DEFINE m == Greatest(S)
<1>5. m \in S /\ \A j \in S : j <= m
  BY <1>1, <1>2, <1>4, GreatestIs, Zenon
<1> HIDE DEF m
<1>6. m \in Nat /\ 1 <= m /\ m <= Len(text) /\ LineOf(m) <= k
  BY <1>1, <1>5
<1>7. LineOf(m + 1) > k
  <2>1. CASE m = Len(text)
    BY <2>1, LineType
  <2>2. CASE m < Len(text)
    <3>1. m + 1 \in 1 .. Len(text)
      BY <1>1, <1>6, <2>2
    <3>2. m + 1 \notin S
      BY <1>5, <1>6
    <3>3. QED
      BY <3>1, <3>2, LineType
  <2>3. QED
    BY <1>1, <1>6, <2>1, <2>2
<1>8. m \in Newlines /\ LineOf(m) = k /\ LineOf(m + 1) = k + 1
  <2>1. LineOf(m + 1) = LineOf(m) + (IF m \in Newlines THEN 1 ELSE 0)
    BY <1>6, LineNext
  <2>2. LineOf(m) \in Nat
    BY LineType
  <2>3. QED
    BY <1>6, <1>7, <2>1, <2>2
<1>9. ASSUME NEW i \in Newlines, LineOf(i) = k PROVE i = m
  <2>1. i \in Nat /\ 1 <= i
    BY NewlinesFinite, <1>1
  <2>2. LineOf(i + 1) = k + 1
    BY <1>9, <2>1, LineNext, LineType
  <2>3. ~ (i < m)
    BY <1>6, <1>8, <2>1, <2>2, LineGrows
  <2>4. ~ (m < i)
    BY <1>6, <1>8, <1>9, <2>1, LineGrows
  <2>5. QED
    BY <1>6, <2>1, <2>3, <2>4
<1>10. QED
  BY <1>8, <1>9

LEMMA LineBounds ==
  ASSUME Typed, NEW k \in Nat, 1 <= k, k <= LineCount
  PROVE  /\ LineFirst(k) \in Nat /\ LineLast(k) \in Nat
         /\ 1 <= LineFirst(k) /\ LineFirst(k) <= LineLast(k) + 1 /\ LineLast(k) <= Len(text)
         /\ LineOf(LineFirst(k)) = k /\ LineOf(LineLast(k) + 1) = k
         /\ k < LineCount => /\ LineLast(k) + 1 \in Newlines
                             /\ LineFirst(k + 1) = LineLast(k) + 2
         /\ k = LineCount => LineLast(k) = Len(text)
         /\ LineLen(k) \in Nat /\ LineLen(k) = LineLast(k) + 1 - LineFirst(k)
<1>0. Len(text) \in Nat /\ Newlines \subseteq 1 .. Len(text)
  BY NewlinesFinite DEF Typed
<1>1. ASSUME NEW m \in Nat, 1 <= m, m < LineCount
      PROVE  \E e \in Newlines : /\ Least({i \in Newlines : LineOf(i) = m}) = e /\ LineOf(e) = m
                                 /\ LineOf(e + 1) = m + 1
  <2>1. PICK e \in Newlines : /\ {i \in Newlines : LineOf(i) = m} = {e} /\ LineOf(e) = m
                              /\ LineOf(e + 1) = m + 1
    BY <1>1, LineStops
  <2>2. {e} \in SUBSET Nat /\ {e} # {}
    BY <1>0
  <2>3. Least({e}) \in {e}
    BY <2>2, LeastIs, Zenon
  <2>4. QED
    BY <2>1, <2>3
<1>2. /\ LineFirst(k) \in Nat /\ 1 <= LineFirst(k) /\ LineOf(LineFirst(k)) = k
      /\ LineFirst(k) <= Len(text) + 1
  <2>1. CASE k = 1
    BY <1>0, <2>1, LineType DEF LineFirst
  <2>2. CASE k # 1
    <3>1. k - 1 \in Nat /\ 1 <= k - 1 /\ k - 1 < LineCount
      BY <2>2, LineType
    <3>2. PICK e \in Newlines : /\ Least({i \in Newlines : LineOf(i) = k - 1}) = e
                                /\ LineOf(e + 1) = k - 1 + 1
      BY <1>1, <3>1
    <3>3. LineFirst(k) = 1 + e
      BY <2>2, <3>2 DEF LineFirst
    <3>4. QED
      BY <1>0, <3>2, <3>3
  <2>3. QED
    BY <2>1, <2>2
<1>3. CASE k = LineCount
  <2>1. LineLast(k) = Len(text)
    BY <1>3 DEF LineLast
  <2>2. QED
    BY <1>0, <1>2, <1>3, <2>1, LineType DEF LineLen
<1>4. CASE k < LineCount
  <2>1. PICK e \in Newlines : /\ Least({i \in Newlines : LineOf(i) = k}) = e /\ LineOf(e) = k
                              /\ LineOf(e + 1) = k + 1
    BY <1>1, <1>4
  <2>2. LineLast(k) = e - 1
    BY <1>4, <2>1, LineType DEF LineLast
  <2>3. LineFirst(k + 1) = 1 + e
    BY <1>4, <2>1 DEF LineFirst
  <2>4. e \in Nat /\ 1 <= e /\ e <= Len(text)
    BY <1>0
  <2>5. LineFirst(k) <= e
    <3>1. SUFFICES ASSUME e < LineFirst(k) PROVE FALSE
      BY <1>2, <2>4
    <3>2. e + 1 <= LineFirst(k)
      BY <1>2, <2>4, <3>1
    <3>3. LineOf(e + 1) <= LineOf(LineFirst(k))
      BY <1>2, <2>4, <3>2, LineGrows
    <3>4. QED
      BY <1>2, <2>1, <3>3
  <2>6. LineLast(k) + 1 = e
    BY <2>2, <2>4
  <2>7. QED
    BY <1>2, <1>4, <2>1, <2>2, <2>3, <2>4, <2>5, <2>6 DEF LineLen
<1>5. QED
  BY <1>3, <1>4, LineType

\* The bytes of a line lie between its bounds.
LEMMA InItsLine ==
  ASSUME Typed, NEW i \in Nat, 1 <= i, NEW k \in Nat, 1 <= k, k <= LineCount
  PROVE  /\ LineOf(i) >= k => LineFirst(k) <= i
         /\ LineOf(i) <= k /\ i <= Len(text) + 1 => i <= LineLast(k) + 1
         /\ LineOf(i) <= k /\ i <= Len(text) /\ i \notin Newlines => i <= LineLast(k)
         /\ LineFirst(k) <= i => LineOf(i) >= k
         /\ i <= LineLast(k) + 1 => LineOf(i) <= k
<1>0. Len(text) \in Nat
  BY DEF Typed
<1>1. ASSUME LineFirst(k) <= i PROVE LineOf(i) >= k
  BY <1>1, LineBounds, LineGrows
<1>2. ASSUME i <= LineLast(k) + 1 PROVE LineOf(i) <= k
  BY <1>2, LineBounds, LineGrows
<1>3. ASSUME LineOf(i) >= k PROVE LineFirst(k) <= i
  <2>1. CASE k = 1
    BY <2>1 DEF LineFirst
  <2>2. CASE k # 1
    <3>1. k - 1 \in Nat /\ 1 <= k - 1 /\ k - 1 < LineCount /\ k - 1 + 1 = k
      BY <2>2, LineType
    <3>2. LineFirst(k) = LineLast(k - 1) + 2 /\ LineLast(k - 1) \in Nat /\ LineOf(LineLast(k - 1) + 1) = k - 1
      <4>1. k - 1 <= LineCount
        BY <3>1, LineType
      <4>2. /\ LineLast(k - 1) \in Nat /\ LineOf(LineLast(k - 1) + 1) = k - 1
            /\ LineFirst(k - 1 + 1) = LineLast(k - 1) + 2
        BY <3>1, <4>1, LineBounds
      <4>3. QED
        BY <3>1, <4>2
    <3>3. SUFFICES ASSUME i <= LineLast(k - 1) + 1 PROVE FALSE
      BY <3>2
    <3>4. LineOf(i) <= k - 1
      BY <3>2, <3>3, LineGrows
    <3>5. QED
      BY <1>3, <3>4, LineType
  <2>3. QED
    BY <2>1, <2>2
<1>4. ASSUME LineOf(i) <= k, i <= Len(text) + 1 PROVE i <= LineLast(k) + 1
  <2>1. CASE k = LineCount
    BY <1>4, <2>1, LineBounds
  <2>2. CASE k < LineCount
    <3>1. /\ LineFirst(k + 1) = LineLast(k) + 2 /\ LineLast(k) \in Nat
          /\ LineOf(LineFirst(k + 1)) = k + 1 /\ LineFirst(k + 1) \in Nat /\ 1 <= LineFirst(k + 1)
      <4>1. k + 1 \in Nat /\ 1 <= k + 1 /\ k + 1 <= LineCount
        BY <2>2, LineType
      <4>2. LineOf(LineFirst(k + 1)) = k + 1 /\ LineFirst(k + 1) \in Nat /\ 1 <= LineFirst(k + 1)
        BY <4>1, LineBounds
      <4>3. LineFirst(k + 1) = LineLast(k) + 2 /\ LineLast(k) \in Nat
        BY <2>2, LineBounds
      <4>4. QED
        BY <4>2, <4>3
    <3>2. SUFFICES ASSUME LineFirst(k + 1) <= i PROVE FALSE
      BY <3>1
    <3>3. k + 1 <= LineOf(i)
      BY <3>1, <3>2, LineGrows
    <3>4. QED
      BY <1>4, <3>3, LineType
  <2>3. QED
    BY <2>1, <2>2, LineType
<1>5. ASSUME LineOf(i) <= k, i <= Len(text), i \notin Newlines PROVE i <= LineLast(k)
  <2>1. i <= LineLast(k) + 1
    BY <1>0, <1>4, <1>5
  <2>2. LineLast(k) + 1 # i
    <3>1. CASE k = LineCount
      BY <1>0, <1>5, <3>1, LineBounds
    <3>2. CASE k < LineCount
      BY <1>5, <3>2, LineBounds
    <3>3. QED
      BY <3>1, <3>2, LineType
  <2>3. QED
    BY <2>1, <2>2, LineBounds
<1>6. QED
  BY <1>1, <1>2, <1>3, <1>4, <1>5

RuneEnds(b) == b = Len(text) \/ RuneStart(b + 1)

------------------------------------------------------------------------------
(* Runes. *)

LEMMA RuneAfter ==
  ASSUME Sane, NEW i \in Nat, i < Len(text), i = 0 \/ text[i] \notin Wide
  PROVE  RuneStart(i + 1)
<1>1. SUFFICES ASSUME text[i + 1] = "v" PROVE FALSE
  BY DEF RuneStart
<1>2. Len(text) \in Nat /\ DOMAIN text = 1 .. Len(text)
  BY DEF Sane
<1>3. i + 1 \in DOMAIN text
  BY <1>2
<1>4. PICK s \in DOMAIN text : s < i + 1 /\ i + 1 <= s + 3 /\ text[s] = "u" /\ \A m \in (s + 1) .. (i + 1) : text[m] = "v"
  BY <1>1, <1>3, Zenon DEF Sane, Valid
<1>5. s \in Nat /\ 1 <= s /\ s <= i
  BY <1>2, <1>4
<1>6. CASE s = i
  BY <1>4, <1>5, <1>6 DEF Wide
<1>7. CASE s # i
  <2>1. i \in (s + 1) .. (i + 1)
    BY <1>5, <1>7
  <2>2. QED
    BY <1>4, <1>5, <2>1 DEF Wide
<1>8. QED
  BY <1>6, <1>7

\* A rune begins in any four bytes.
LEMMA RuneWithin ==
  ASSUME Sane, NEW a \in Nat, a + 4 <= Len(text)
  PROVE  \E e \in (a + 1) .. (a + 4) : RuneStart(e)
<1>1. SUFFICES ASSUME \A e \in (a + 1) .. (a + 4) : text[e] = "v" PROVE FALSE
  BY DEF RuneStart
<1>2. Len(text) \in Nat /\ DOMAIN text = 1 .. Len(text)
  BY DEF Sane
<1>3. a + 4 \in DOMAIN text /\ text[a + 4] = "v"
  BY <1>1, <1>2
<1>4. PICK s \in DOMAIN text : s < a + 4 /\ a + 4 <= s + 3 /\ text[s] = "u"
  BY <1>3, Zenon DEF Sane, Valid
<1>5. s \in (a + 1) .. (a + 4)
  BY <1>2, <1>4
<1>6. QED
  BY <1>1, <1>4, <1>5

LEMMA LineRune ==
  ASSUME Sane, NEW k \in Nat, 1 <= k, k <= LineCount
  PROVE  /\ LineFirst(k) <= Len(text) => RuneStart(LineFirst(k))
         /\ RuneEnds(LineLast(k))
<1>0. Typed /\ Len(text) \in Nat
  BY DEF Typed, Sane
<1>1. ASSUME NEW i \in Newlines PROVE text[i] = "n" /\ i \in Nat /\ 1 <= i /\ i <= Len(text)
  BY <1>0, NewlinesFinite DEF Newlines
<1>2. ASSUME LineFirst(k) <= Len(text) PROVE RuneStart(LineFirst(k))
  <2>1. CASE k = 1
    <3>1. LineFirst(k) = 0 + 1
      BY <2>1 DEF LineFirst
    <3>2. 0 < Len(text)
      BY <1>0, <1>2, <3>1
    <3>3. RuneStart(0 + 1)
      BY <3>2, RuneAfter
    <3>4. QED
      BY <3>1, <3>3
  <2>2. CASE k # 1
    <3>1. k - 1 \in Nat /\ 1 <= k - 1 /\ k - 1 < LineCount /\ k - 1 <= LineCount
      BY <1>0, <2>2, LineType
    <3>2. LineLast(k - 1) + 1 \in Newlines /\ LineFirst((k - 1) + 1) = LineLast(k - 1) + 2 /\ LineLast(k - 1) \in Nat
      BY <1>0, <3>1, LineBounds
    <3>3. (k - 1) + 1 = k
      OBVIOUS
    <3> DEFINE e == LineLast(k - 1) + 1
    <3>4. e \in Nat /\ text[e] = "n" /\ LineFirst(k) = e + 1
      BY <1>1, <3>2, <3>3
    <3> HIDE DEF e
    <3>5. text[e] \notin Wide /\ e < Len(text)
      BY <1>0, <1>2, <3>4 DEF Wide
    <3>6. QED
      BY <3>4, <3>5, RuneAfter
  <2>3. QED
    BY <2>1, <2>2
<1>3. RuneEnds(LineLast(k))
  <2>1. CASE k = LineCount
    BY <1>0, <2>1, LineBounds DEF RuneEnds
  <2>2. CASE k < LineCount
    <3>1. LineLast(k) + 1 \in Newlines
      BY <1>0, <2>2, LineBounds
    <3>2. text[LineLast(k) + 1] # "v"
      BY <1>1, <3>1
    <3>3. QED
      BY <3>2 DEF RuneEnds, RuneStart
  <2>3. QED
    BY <1>0, <2>1, <2>2, LineType
<1>4. QED
  BY <1>2, <1>3

------------------------------------------------------------------------------
(* Trimmed chunks. *)

LEMMA Trims ==
  ASSUME Sane, NEW a \in Nat, NEW b \in Nat, 1 <= a, a <= b + 1, b <= Len(text),
         a <= b => RuneStart(a) /\ RuneEnds(b)
  PROVE  \E f \in Nat, l \in Nat :
           /\ Trimmed(a, b)[1] = f /\ Trimmed(a, b)[2] = l
           /\ a <= f /\ f <= l + 1 /\ l <= b
           /\ f <= l => RuneStart(f) /\ RuneEnds(l)
           /\ \A i \in NonBlank(a, b) : f <= i /\ i <= l
<1>0. Len(text) \in Nat
  BY DEF Sane
<1>1. CASE NonBlank(a, b) = {}
  <2>1. Trimmed(a, b) = <<a, a - 1>>
    BY <1>1 DEF Trimmed
  <2>2. a - 1 \in Nat /\ a - 1 <= b /\ ~ (a <= a - 1) /\ a <= (a - 1) + 1
    OBVIOUS
  <2>3. Trimmed(a, b)[1] = a /\ Trimmed(a, b)[2] = a - 1
    BY <2>1
  <2>4. QED
    BY <1>1, <2>2, <2>3
<1>2. CASE NonBlank(a, b) # {}
  <2> DEFINE f == Least(NonBlank(a, b))
  <2> DEFINE l == Greatest(NonBlank(a, b))
  <2>1. NonBlank(a, b) \in SUBSET Nat /\ NonBlank(a, b) \in SUBSET (0 .. b)
    BY DEF NonBlank
  <2>2. f \in NonBlank(a, b) /\ \A j \in NonBlank(a, b) : f <= j
    BY <1>2, <2>1, LeastIs, Zenon
  <2>3. l \in NonBlank(a, b) /\ \A j \in NonBlank(a, b) : j <= l
    BY <1>2, <2>1, GreatestIs, Zenon
  <2>4. Trimmed(a, b) = <<f, l>>
    BY <1>2 DEF Trimmed
  <2> HIDE DEF f, l
  <2>5. Trimmed(a, b)[1] = f /\ Trimmed(a, b)[2] = l
    BY <2>4
  <2>6. f \in a .. b /\ l \in a .. b /\ f <= l /\ text[f] \notin Blanks /\ text[l] \notin Blanks
    BY <2>2, <2>3 DEF NonBlank
  <2>7. RuneStart(f)
    <3>1. CASE f = a
      BY <2>6, <3>1
    <3>2. CASE f # a
      <4>1. f - 1 \in a .. b /\ f - 1 \notin NonBlank(a, b)
        BY <2>2, <2>6, <3>2
      <4>2. text[f - 1] \in Blanks
        BY <4>1 DEF NonBlank
      <4>3. text[f - 1] \notin Wide /\ f - 1 \in Nat /\ f - 1 < Len(text) /\ (f - 1) + 1 = f
        BY <1>0, <2>6, <4>1, <4>2 DEF Wide, Blanks
      <4>4. RuneStart((f - 1) + 1)
        BY <4>3, RuneAfter
      <4>5. QED
        BY <4>3, <4>4
    <3>3. QED
      BY <3>1, <3>2
  <2>8. RuneEnds(l)
    <3>1. CASE l = b
      BY <2>6, <3>1
    <3>2. CASE l # b
      <4>1. l + 1 \in a .. b /\ l + 1 \notin NonBlank(a, b)
        BY <2>3, <2>6, <3>2
      <4>2. text[l + 1] \in Blanks
        BY <4>1 DEF NonBlank
      <4>3. QED
        BY <4>2 DEF Blanks, RuneEnds, RuneStart
    <3>3. QED
      BY <3>1, <3>2
  <2>9. QED
    BY <2>2, <2>3, <2>5, <2>6, <2>7, <2>8
<1>3. QED
  BY <1>1, <1>2

LEMMA TrimmedFine ==
  ASSUME Sane, NEW a \in Nat, NEW b \in Nat, 1 <= a, a <= b + 1, b <= Len(text),
         a <= b => RuneStart(a) /\ RuneEnds(b),
         NEW d \in BOOLEAN, NEW f \in Nat, NEW l \in Nat, NEW kind \in {"run", "cut", "window"},
         (b + 1 - a) + (IF d THEN LineEnds(a, b) ELSE 0) <= MaxChars,
         f <= LineOf(a), a <= b => LineOf(b) <= l
  PROVE  /\ TrimmedChunk(a, b, d, f, l, kind) \in Chunks
         /\ FineCut(TrimmedChunk(a, b, d, f, l, kind))
         /\ LinesTrue(TrimmedChunk(a, b, d, f, l, kind))
         /\ \A i \in NonBlank(a, b) : Covers(TrimmedChunk(a, b, d, f, l, kind), i)
<1>0. Typed /\ MaxChars \in Nat
  BY SizesAssumption DEF Typed, Sane
<1>1. PICK x \in Nat, y \in Nat :
           /\ Trimmed(a, b)[1] = x /\ Trimmed(a, b)[2] = y
           /\ a <= x /\ x <= y + 1 /\ y <= b
           /\ x <= y => RuneStart(x) /\ RuneEnds(y)
           /\ \A i \in NonBlank(a, b) : x <= i /\ i <= y
  BY Trims
<1>2. PICK n : n = IF d THEN LineEnds(x, y) ELSE 0
  OBVIOUS
<1>3. PICK c : c = [from |-> x, to |-> y, size |-> y + 1 - x + n, first |-> f, last |-> l, kind |-> kind]
  OBVIOUS
<1>4. TrimmedChunk(a, b, d, f, l, kind) = c
  BY <1>1, <1>2, <1>3 DEF TrimmedChunk, Chunk
<1>5. n \in Nat /\ n <= IF d THEN LineEnds(a, b) ELSE 0
  BY <1>0, <1>1, <1>2, LineEndsNat, LineEndsGrow
<1>6. y + 1 - x + n \in Nat /\ y + 1 - x + n <= MaxChars
  <2>1. LineEnds(a, b) \in Nat
    BY <1>0, LineEndsNat
  <2>2. y + 1 - x \in Nat /\ y + 1 - x <= b + 1 - a
    BY <1>1
  <2>3. QED
    BY <1>0, <1>5, <2>1, <2>2
<1>7. c \in Chunks
  BY <1>3, <1>6 DEF Chunks, Kinds
<1>8. c.from = x /\ c.to = y /\ c.size = y + 1 - x + n /\ c.first = f /\ c.last = l /\ c.kind = kind
  BY <1>3
<1>9. FineCut(c)
  BY <1>1, <1>6, <1>8 DEF FineCut, RuneEnds
<1>10. LinesTrue(c)
  <2>1. SUFFICES ASSUME x <= y PROVE f <= LineOf(x) /\ LineOf(y) <= l
    BY <1>8 DEF LinesTrue
  <2>2. 1 <= x /\ 1 <= y /\ a <= b
    BY <1>1, <2>1
  <2>3. LineOf(a) <= LineOf(x) /\ LineOf(y) <= LineOf(b)
    BY <1>0, <1>1, <2>2, LineGrows
  <2>4. LineOf(b) \in Nat /\ LineOf(a) \in Nat /\ LineOf(x) \in Nat /\ LineOf(y) \in Nat
    BY <1>0, LineType
  <2>5. QED
    BY <2>2, <2>3, <2>4
<1>11. \A i \in NonBlank(a, b) : Covers(c, i)
  BY <1>1, <1>8 DEF Covers
<1>12. QED
  BY <1>4, <1>7, <1>9, <1>10, <1>11

------------------------------------------------------------------------------
(* Where texts are cut. *)

LEMMA CutHolds ==
  ASSUME Sane, NEW a \in Nat, NEW b \in Nat, 1 <= a, a <= b, b <= Len(text), RuneEnds(b)
  PROVE  /\ RuneCut(a, b) \in Nat /\ a <= RuneCut(a, b) /\ RuneCut(a, b) <= b
         /\ RuneCut(a, b) + 1 - a <= MaxChars
         /\ RuneCut(a, b) = b \/ RuneStart(RuneCut(a, b) + 1)
<1>0. MaxChars \in Nat /\ MaxChars >= 4 /\ Len(text) \in Nat
  BY SizesAssumption DEF Sane
<1>1. CASE b + 1 - a <= MaxChars
  BY <1>1 DEF RuneCut
<1>2. CASE ~ (b + 1 - a <= MaxChars)
  <2> DEFINE S == {e \in (a + 1) .. (a + MaxChars) : RuneStart(e)}
  <2> DEFINE g == Greatest(S)
  <2>1. S # {}
    <3>1. a + 4 <= Len(text)
      BY <1>0, <1>2
    <3>2. PICK e \in (a + 1) .. (a + 4) : RuneStart(e)
      BY <3>1, RuneWithin
    <3>3. e \in (a + 1) .. (a + MaxChars)
      BY <1>0
    <3>4. QED
      BY <3>2, <3>3
  <2>2. S \in SUBSET (0 .. (a + MaxChars)) /\ a + MaxChars \in Nat
    BY <1>0
  <2>3. g \in S
    BY <2>1, <2>2, GreatestIs, Zenon
  <2>4. RuneCut(a, b) = g - 1
    BY <1>2, <2>1 DEF RuneCut
  <2> HIDE DEF g
  <2>5. g \in (a + 1) .. (a + MaxChars) /\ RuneStart(g)
    BY <2>3
  <2>6. g - 1 \in Nat /\ (g - 1) + 1 = g /\ a <= g - 1 /\ g - 1 <= b /\ g - 1 + 1 - a <= MaxChars
    BY <1>0, <1>2, <2>5
  <2>7. QED
    BY <2>4, <2>5, <2>6
<1>3. QED
  BY <1>1, <1>2

LEMMA WindowHolds ==
  ASSUME Sane, NEW a \in Nat, 1 <= a, a <= Len(text), Len(text) > MaxChars
  PROVE  /\ WindowEnd(a) \in Nat /\ a <= WindowEnd(a) /\ WindowEnd(a) <= Len(text)
         /\ WindowEnd(a) + 1 - a <= MaxChars
         /\ RuneEnds(WindowEnd(a))
<1>0. MaxChars \in Nat /\ MaxChars >= 4 /\ Len(text) \in Nat
  BY SizesAssumption DEF Sane
<1>1. CASE a + MaxChars > Len(text)
  BY <1>0, <1>1 DEF WindowEnd, RuneEnds
<1>2. CASE ~ (a + MaxChars > Len(text))
  <2> DEFINE S == {i \in Newlines : i >= a /\ i < a + MaxChars}
  <2> DEFINE g == Greatest(S)
  <2> DEFINE late == S # {} /\ (g - a) > (MaxChars \div 2)
  <2> DEFINE T == {e \in (a - 1) .. (a + MaxChars - 1) : e = a - 1 \/ RuneStart(e + 1)}
  <2> DEFINE h == Greatest(T)
  <2>1. WindowEnd(a) = IF late THEN g ELSE h
    BY <1>2 DEF WindowEnd
  <2>2. CASE late
    <3>1. S \in SUBSET (0 .. (a + MaxChars)) /\ a + MaxChars \in Nat /\ S # {}
      BY <1>0, <2>2, NewlinesFinite DEF Sane, Typed
    <3>2. g \in S
      BY <3>1, GreatestIs, Zenon
    <3>3. WindowEnd(a) = g
      BY <2>1, <2>2, Zenon
    <3> HIDE DEF g, late
    <3>4. g \in Newlines /\ g >= a /\ g < a + MaxChars
      BY <3>2
    <3>5. g \in Nat /\ text[g] = "n"
      BY <3>4, NewlinesFinite, <1>0 DEF Newlines, Sane, Typed
    <3>6. text[g] \notin Wide /\ g < Len(text)
      BY <1>0, <1>2, <3>4, <3>5 DEF Wide
    <3>7. RuneStart(g + 1)
      BY <3>5, <3>6, RuneAfter
    <3>8. QED
      BY <1>0, <3>3, <3>4, <3>5, <3>6, <3>7 DEF RuneEnds
  <2>3. CASE ~late
    <3>1. T \in SUBSET (0 .. (a + MaxChars)) /\ a + MaxChars \in Nat /\ T # {}
      <4>1. a - 1 \in T
        BY <1>0
      <4>2. (a - 1) .. (a + MaxChars - 1) \subseteq 0 .. (a + MaxChars)
        BY <1>0
      <4>3. T \subseteq (a - 1) .. (a + MaxChars - 1)
        BY Zenon
      <4> HIDE DEF T
      <4>4. QED
        BY <1>0, <4>1, <4>2, <4>3
    <3>2. h \in T /\ \A j \in T : j <= h
      BY <3>1, GreatestIs, Zenon
    <3>3. WindowEnd(a) = h
      BY <2>1, <2>3, Zenon
    <3> HIDE DEF h
    <3>4. h \in (a - 1) .. (a + MaxChars - 1) /\ (h = a - 1 \/ RuneStart(h + 1))
      BY <3>2
    <3>5. a + 4 <= Len(text)
      BY <1>0, <1>2
    <3>6. PICK e \in (a + 1) .. (a + 4) : RuneStart(e)
      BY <3>5, RuneWithin
    <3>7. e - 1 \in (a - 1) .. (a + MaxChars - 1) /\ (e - 1) + 1 = e /\ e - 1 >= a
      BY <1>0, <3>6
    <3>8. e - 1 \in T
      BY <3>6, <3>7
    <3>9. h >= a
      BY <3>2, <3>4, <3>7, <3>8
    <3>10. QED
      BY <1>0, <1>2, <3>3, <3>4, <3>9 DEF RuneEnds
  <2>4. QED
    BY <2>2, <2>3
<1>3. QED
  BY <1>1, <1>2

LEMMA NextWindow ==
  ASSUME Sane, NEW a \in Nat, 1 <= a, NEW e \in Nat, a <= e, e < Len(text), RuneStart(e + 1)
  PROVE  /\ WindowStart(a, e) \in Nat /\ 1 <= WindowStart(a, e) /\ WindowStart(a, e) <= e + 1
         /\ RuneStart(WindowStart(a, e))
<1>0. Overlap \in Nat /\ Len(text) \in Nat
  BY SizesAssumption DEF Sane
<1> DEFINE S == {i \in (a + 1) .. (e + 1 - Overlap) : i > Len(text) \/ RuneStart(i)}
<1>1. CASE S = {}
  BY <1>1 DEF WindowStart
<1>2. CASE S # {}
  <2> DEFINE g == Greatest(S)
  <2>1. S \in SUBSET (0 .. (e + 1)) /\ e + 1 \in Nat
    BY <1>0
  <2>2. g \in S
    BY <1>2, <2>1, GreatestIs, Zenon
  <2>3. WindowStart(a, e) = g
    BY <1>2 DEF WindowStart
  <2> HIDE DEF g
  <2>4. g \in (a + 1) .. (e + 1 - Overlap) /\ (g > Len(text) \/ RuneStart(g))
    BY <2>2
  <2>5. QED
    BY <1>0, <2>3, <2>4
<1>3. QED
  BY <1>1, <1>2

\* A piece of a symbol is never too long, and either cut between runes or from
\* a first half of nothing but longer runes.
LEMMA PieceHolds ==
  ASSUME Sane, NEW a \in Nat, 1 <= a, NEW b \in Nat, a <= b, b <= Len(text), RuneEnds(b)
  PROVE  /\ PieceEnd(a, b) \in Nat /\ a <= PieceEnd(a, b) /\ PieceEnd(a, b) <= b
         /\ \/ PieceEnd(a, b) + 1 - a + Prefix <= MaxChars /\ RuneEnds(PieceEnd(a, b))
            \/ /\ a + (Space \div 2) <= PieceEnd(a, b)
               /\ \A i \in a .. (a + (Space \div 2)) : text[i] \in Wide
<1>0. /\ MaxChars \in Nat /\ MaxChars >= 4 /\ Len(text) \in Nat
      /\ Prefix \in Nat /\ Space \in Nat /\ Space >= 1 /\ Space + Prefix = MaxChars
  BY SizesAssumption DEF Sane, Space
<1>1. PICK hf \in Nat : hf = Space \div 2
  BY <1>0
<1>2. hf <= Space - 1 /\ hf <= MaxChars - 1
  BY <1>0, <1>1
<1>3. CASE b + 1 - a <= Space
  <2>1. PieceEnd(a, b) = b
    BY <1>3 DEF PieceEnd
  <2>2. QED
    BY <1>0, <1>3, <2>1
<1>4. CASE ~ (b + 1 - a <= Space)
  <2> DEFINE S == {i \in Newlines : i >= a /\ i < a + Space}
  <2> DEFINE g == Greatest(S)
  <2> DEFINE late == S # {} /\ (g - a) > (Space \div 2)
  <2>1. RoughEnd(a) \in Nat /\ a + hf <= RoughEnd(a) /\ RoughEnd(a) <= a + Space - 1
    <3>0. RoughEnd(a) = IF late THEN g - 1 ELSE a + Space - 1
      BY DEF RoughEnd
    <3>1. CASE late
      <4>0. Newlines \subseteq Nat
        BY NewlinesFinite DEF Sane, Typed
      <4>1. S \in SUBSET (0 .. (a + Space)) /\ a + Space \in Nat /\ S # {}
        <5>1. ASSUME NEW i \in S PROVE i \in 0 .. (a + Space)
          <6>1. i \in Nat /\ i < a + Space
            BY <4>0, <5>1
          <6>2. QED
            BY <1>0, <6>1
        <5>2. S # {}
          BY <3>1, Zenon
        <5>3. QED
          BY <1>0, <5>1, <5>2
      <4>2. g \in S
        BY <4>1, GreatestIs, Zenon
      <4>3. RoughEnd(a) = g - 1 /\ (g - a) > (Space \div 2)
        BY <3>0, <3>1, Zenon
      <4> HIDE DEF g, late
      <4>4. g \in Newlines /\ g >= a /\ g < a + Space
        BY <4>2
      <4>5. g \in Nat
        BY <4>4, NewlinesFinite DEF Sane, Typed
      <4>6. QED
        BY <1>0, <1>1, <4>3, <4>4, <4>5
    <3>2. CASE ~late
      <4>1. RoughEnd(a) = a + Space - 1
        BY <3>0, <3>2, Zenon
      <4>2. QED
        BY <1>0, <1>2, <4>1
    <3>3. QED
      BY <3>1, <3>2
  <2> HIDE DEF late, g
  <2>2. CASE Plain(a) # {}
    <3> DEFINE p == Greatest(Plain(a))
    <3>1. Plain(a) \in SUBSET (0 .. RoughEnd(a))
      BY <2>1 DEF Plain
    <3>2. p \in Plain(a)
      BY <2>1, <2>2, <3>1, GreatestIs, Zenon
    <3>3. PieceEnd(a, b) = p
      BY <1>4, <2>2 DEF PieceEnd
    <3> HIDE DEF p
    <3>4. p \in a .. RoughEnd(a) /\ text[p] \notin Wide
      BY <3>2 DEF Plain
    <3>5. p \in Nat /\ a <= p /\ p < b /\ p < Len(text) /\ p + 1 - a + Prefix <= MaxChars
      BY <1>0, <1>4, <2>1, <3>4
    <3>6. RuneStart(p + 1)
      BY <3>4, <3>5, RuneAfter
    <3>7. QED
      BY <3>3, <3>5, <3>6 DEF RuneEnds
  <2>3. CASE Plain(a) = {}
    <3>1. PieceEnd(a, b) = Lesser(a + MaxChars - 1, b)
      BY <1>4, <2>3 DEF PieceEnd
    <3>2. /\ PieceEnd(a, b) \in Nat /\ a <= PieceEnd(a, b) /\ PieceEnd(a, b) <= b
          /\ a + hf <= PieceEnd(a, b)
      BY <1>0, <1>1, <1>2, <1>4, <3>1 DEF Lesser
    <3>3. ASSUME NEW i \in a .. (a + hf) PROVE text[i] \in Wide
      <4>1. i \in a .. RoughEnd(a)
        BY <2>1
      <4>2. QED
        BY <2>3, <4>1 DEF Plain
    <3>4. QED
      BY <1>1, <3>2, <3>3
  <2>4. QED
    BY <2>2, <2>3
<1>5. QED
  BY <1>3, <1>4

------------------------------------------------------------------------------
(* Lists of chunks. *)

LEMMA OneAppended ==
  ASSUME NEW cs \in Seq(Chunks), FineList(cs), NEW c \in Chunks, LinesTrue(c),
         FineCut(c) \/ Unsplittable(c) \/ (cs # <<>> /\ Unsplittable(cs[Len(cs)]))
  PROVE  /\ Append(cs, c) \in Seq(Chunks) /\ FineList(Append(cs, c))
         /\ \A i : Covered(cs, i) => Covered(Append(cs, c), i)
         /\ \A i : Covers(c, i) => Covered(Append(cs, c), i)
         /\ Append(cs, c) # <<>> /\ Append(cs, c)[Len(Append(cs, c))] = c
<1>1. PICK ds : ds = Append(cs, c)
  OBVIOUS
<1>2. /\ ds \in Seq(Chunks) /\ Len(ds) = Len(cs) + 1 /\ Len(cs) \in Nat
      /\ \A k \in 1 .. Len(cs) : ds[k] = cs[k]
      /\ ds[Len(cs) + 1] = c /\ DOMAIN ds = 1 .. (Len(cs) + 1) /\ DOMAIN cs = 1 .. Len(cs)
  BY <1>1
<1>3. ASSUME NEW k \in DOMAIN ds
      PROVE  (FineCut(ds[k]) \/ Unsplittable(ds[k]) \/ Before(ds, k)) /\ LinesTrue(ds[k])
  <2>1. CASE k \in 1 .. Len(cs)
    <3>1. ds[k] = cs[k] /\ k \in DOMAIN cs
      BY <1>2, <2>1
    <3>2. (FineCut(cs[k]) \/ Unsplittable(cs[k]) \/ Before(cs, k)) /\ LinesTrue(cs[k])
      BY <3>1 DEF FineList
    <3>3. k > 1 => ds[k - 1] = cs[k - 1]
      BY <1>2, <2>1
    <3>4. Before(cs, k) => Before(ds, k)
      BY <3>3 DEF Before
    <3>5. QED
      BY <3>1, <3>2, <3>4
  <2>2. CASE k = Len(cs) + 1
    <3>1. ds[k] = c
      BY <1>2, <2>2
    <3>2. ASSUME cs # <<>>, Unsplittable(cs[Len(cs)]) PROVE Before(ds, k)
      <4>1. Len(cs) \in 1 .. Len(cs) /\ k - 1 = Len(cs) /\ k > 1
        BY <1>2, <2>2, <3>2
      <4>2. ds[k - 1] = cs[Len(cs)]
        BY <1>2, <4>1
      <4>3. QED
        BY <3>2, <4>1, <4>2 DEF Before
    <3>3. QED
      BY <3>1, <3>2
  <2>3. QED
    BY <1>2, <2>1, <2>2
<1>4. FineList(ds)
  BY <1>3 DEF FineList
<1>5. ASSUME NEW i, Covered(cs, i) PROVE Covered(ds, i)
  <2>1. PICK k \in DOMAIN cs : Covers(cs[k], i)
    BY <1>5 DEF Covered
  <2>2. k \in DOMAIN ds /\ ds[k] = cs[k]
    BY <1>2
  <2>3. QED
    BY <2>1, <2>2 DEF Covered
<1>6. ASSUME NEW i, Covers(c, i) PROVE Covered(ds, i)
  <2>1. Len(cs) + 1 \in DOMAIN ds
    BY <1>2
  <2>2. QED
    BY <1>2, <1>6, <2>1 DEF Covered
<1>7. ds # <<>> /\ ds[Len(ds)] = c
  BY <1>2
<1>8. QED
  BY <1>1, <1>2, <1>4, <1>5, <1>6, <1>7

LEMMA FirstOnes ==
  ASSUME NEW cs \in Seq(Chunks), FineList(cs), NEW n \in Nat, n <= Len(cs)
  PROVE  SubSeq(cs, 1, n) \in Seq(Chunks) /\ FineList(SubSeq(cs, 1, n))
<1>1. PICK ds : ds = SubSeq(cs, 1, n)
  OBVIOUS
<1>2. /\ ds \in Seq(Chunks) /\ Len(ds) = n /\ DOMAIN ds = 1 .. n /\ DOMAIN cs = 1 .. Len(cs)
      /\ \A k \in 1 .. n : ds[k] = cs[k]
  BY <1>1
<1>3. ASSUME NEW k \in DOMAIN ds
      PROVE  (FineCut(ds[k]) \/ Unsplittable(ds[k]) \/ Before(ds, k)) /\ LinesTrue(ds[k])
  <2>1. ds[k] = cs[k] /\ k \in DOMAIN cs
    BY <1>2
  <2>2. (FineCut(cs[k]) \/ Unsplittable(cs[k]) \/ Before(cs, k)) /\ LinesTrue(cs[k])
    BY <2>1 DEF FineList
  <2>3. k > 1 => ds[k - 1] = cs[k - 1]
    BY <1>2
  <2>4. QED
    BY <2>1, <2>2, <2>3 DEF Before
<1>4. QED
  BY <1>1, <1>2, <1>3 DEF FineList

Here == Sane /\ Sound(stage, next, last, source, pend, left, lastLine, pos, line, chunks, First, End)

\* What the variables of the chunker become.
Become(st, nx, la, so, pe, le, ll, po, li, cs) ==
  /\ st = stage' /\ nx = next' /\ la = last' /\ so = source' /\ pe = pend' /\ le = left'
  /\ ll = lastLine' /\ po = pos' /\ li = line' /\ cs = chunks'

LEMMA HereIs ==
  ASSUME Here
  PROVE  /\ text \in Seq(Bytes) /\ Len(text) \in Nat /\ Typed /\ Valid(text) /\ Sane
         /\ TypesSound(stage, next, last, pend, pos, line)
         /\ BaseSound(source, left, lastLine, chunks)
         /\ StageSound(stage, next, last, source, pend, left, lastLine, pos, line, chunks, First, End)
         /\ chunks \in Seq(Chunks) /\ FineList(chunks)
         /\ LineCount \in Nat /\ LineCount >= 1
<1>1. Sane /\ text \in Seq(Bytes) /\ Valid(text) /\ Typed
  BY DEF Here, Sane, Typed
<1>2. /\ TypesSound(stage, next, last, pend, pos, line)
      /\ BaseSound(source, left, lastLine, chunks)
      /\ StageSound(stage, next, last, source, pend, left, lastLine, pos, line, chunks, First, End)
  BY Zenon DEF Here, Sound
<1>3. chunks \in Seq(Chunks) /\ FineList(chunks)
  BY <1>2, Zenon DEF BaseSound
<1>4. QED
  BY <1>1, <1>2, <1>3, LineType

LEMMA Shows ==
  ASSUME Sane, NEW i \in NonBlank(1, Len(text))
  PROVE  /\ i \in Nat /\ 1 <= i /\ i <= Len(text) /\ i \notin Newlines
         /\ LineOf(i) \in Nat /\ 1 <= LineOf(i) /\ LineOf(i) <= LineCount
         /\ LineFirst(LineOf(i)) <= i /\ i <= LineLast(LineOf(i))
         /\ \A a, b \in Nat : a <= i /\ i <= b => i \in NonBlank(a, b)
         /\ \A k \in Nat : 1 <= k /\ k <= LineOf(i) => LineFirst(k) <= i
         /\ \A k \in Nat : k <= LineCount /\ LineOf(i) <= k => i <= LineLast(k)
<1>0. Typed /\ Len(text) \in Nat
  BY DEF Typed, Sane
<1>1. i \in Nat /\ 1 <= i /\ i <= Len(text) /\ text[i] \notin Blanks
  BY <1>0 DEF NonBlank
<1>2. i \notin Newlines
  BY <1>1 DEF Newlines, Blanks
<1>3. LineOf(i) \in Nat /\ 1 <= LineOf(i) /\ LineOf(i) <= LineCount /\ LineCount \in Nat
  BY <1>0, LineType
<1>4. ASSUME NEW a \in Nat, NEW b \in Nat, a <= i, i <= b PROVE i \in NonBlank(a, b)
  BY <1>1, <1>4 DEF NonBlank
<1>5. ASSUME NEW k \in Nat, 1 <= k, k <= LineOf(i) PROVE LineFirst(k) <= i
  BY <1>0, <1>1, <1>3, <1>5, InItsLine
<1>6. ASSUME NEW k \in Nat, k <= LineCount, LineOf(i) <= k PROVE i <= LineLast(k)
  BY <1>0, <1>1, <1>2, <1>3, <1>6, InItsLine
<1>7. LineFirst(LineOf(i)) <= i /\ i <= LineLast(LineOf(i))
  BY <1>3, <1>5, <1>6
<1>8. QED
  BY <1>1, <1>2, <1>3, <1>4, <1>5, <1>6, <1>7

LEMMA LineOrder ==
  ASSUME Typed, NEW j \in Nat, NEW k \in Nat, 1 <= j, j <= k, k <= LineCount
  PROVE  LineFirst(j) <= LineFirst(k) /\ LineLast(j) <= LineLast(k) /\ LineFirst(j) <= LineLast(k) + 1
<1>0. j <= LineCount /\ Len(text) \in Nat
  BY LineType DEF Typed
<1>1. LineFirst(k) \in Nat /\ 1 <= LineFirst(k) /\ LineOf(LineFirst(k)) = k /\ LineFirst(k) <= LineLast(k) + 1 /\ LineLast(k) \in Nat
  BY LineBounds
<1>2. LineFirst(j) <= LineFirst(k)
  BY <1>0, <1>1, InItsLine
<1>3. LineLast(j) \in Nat /\ LineOf(LineLast(j) + 1) = j /\ LineLast(j) <= Len(text)
  BY <1>0, LineBounds
<1>4. LineLast(j) + 1 <= LineLast(k) + 1
  <2>1. LineLast(j) + 1 \in Nat /\ 1 <= LineLast(j) + 1 /\ LineLast(j) + 1 <= Len(text) + 1 /\ 1 <= k
    BY <1>0, <1>3
  <2>2. QED
    BY <1>3, <2>1, InItsLine
<1>5. LineFirst(j) \in Nat
  BY <1>0, LineBounds
<1>6. QED
  BY <1>1, <1>2, <1>3, <1>4, <1>5

\* The chunk made of the pending lines shows them and is fine.
LEMMA FlushFine ==
  ASSUME Here, PendSound(pend, next, source)
  PROVE  /\ Flushed(pend) \in Seq(Chunks) /\ FineList(Flushed(pend))
         /\ \A i : Covered(chunks, i) => Covered(Flushed(pend), i)
         /\ \A i \in NonBlank(1, Len(text)) : InPend(pend, i) => Covered(Flushed(pend), i)
<1>0. Sane /\ Typed /\ chunks \in Seq(Chunks) /\ FineList(chunks) /\ Len(text) \in Nat /\ LineCount \in Nat
  BY HereIs
<1>1. CASE pend.size = 0
  <2>1. Flushed(pend) = chunks
    BY <1>1 DEF Flushed
  <2>2. \A i : ~InPend(pend, i)
    BY <1>1 DEF InPend
  <2>3. QED
    BY <1>0, <2>1, <2>2, Zenon
<1>2. CASE pend.size # 0
  <2>0. /\ pend.size \in Nat /\ pend.first \in Nat /\ pend.last \in Nat /\ pend.from \in Nat /\ pend.to \in Nat
        /\ source \in {"file", "gap"} /\ MaxChars \in Nat
    BY HereIs, SizesAssumption DEF TypesSound, BaseSound
  <2>1. /\ 1 <= pend.first /\ pend.first <= pend.last /\ pend.last <= LineCount
        /\ pend.from = LineFirst(pend.first) /\ pend.to = LineLast(pend.last)
        /\ pend.size = (pend.to + 1 - pend.from) + 1 + PendExtra(pend, source)
        /\ pend.size <= MaxChars + 1
    BY <1>2, <2>0 DEF PendSound
  <2>2. PICK a \in Nat, b \in Nat, f \in Nat, l \in Nat :
             a = pend.from /\ b = pend.to /\ f = pend.first /\ l = pend.last
    BY <2>0
  <2>3. 1 <= f /\ f <= l /\ l <= LineCount /\ a = LineFirst(f) /\ b = LineLast(l)
    BY <2>1, <2>2
  <2>4. 1 <= l /\ f <= LineCount
    BY <1>0, <2>3
  <2>5. 1 <= a /\ LineOf(a) = f
    BY <1>0, <2>3, <2>4, LineBounds
  <2>6. b <= Len(text) /\ LineOf(b + 1) = l
    BY <1>0, <2>3, <2>4, LineBounds
  <2>7. a <= b + 1
    BY <1>0, <2>3, LineOrder
  <2>8. a <= b => RuneStart(a) /\ RuneEnds(b)
    <3>1. a <= Len(text) => RuneStart(a)
      BY <1>0, <2>3, <2>4, LineRune
    <3>2. RuneEnds(b)
      BY <1>0, <2>3, <2>4, LineRune
    <3>3. QED
      BY <1>0, <2>6, <3>1, <3>2
  <2>9. a <= b => LineOf(b) <= l
    <3>1. LineOf(b) \in Nat /\ LineOf(b + 1) \in Nat
      BY <1>0, LineType
    <3>2. a <= b => LineOf(b) <= LineOf(b + 1)
      BY <1>0, <2>5, LineGrows
    <3>3. QED
      BY <2>6, <3>1, <3>2
  <2>10. LineEnds(a, b) = l - f
    BY <1>0, <2>5, <2>6, <2>7, LineEndsBetween
  <2>11. (b + 1 - a) + (IF Doubled THEN LineEnds(a, b) ELSE 0) <= MaxChars
    <3>1. CASE source = "file"
      <4>1. Doubled /\ PendExtra(pend, source) >= l - f
        BY <2>0, <2>2, <2>3, <3>1 DEF Doubled, PendExtra
      <4>2. QED
        BY <2>0, <2>1, <2>2, <2>10, <4>1 DEF PendExtra
    <3>2. CASE source # "file"
      <4>1. ~Doubled /\ PendExtra(pend, source) = 0
        BY <3>2 DEF Doubled, PendExtra
      <4>2. QED
        BY <2>0, <2>1, <2>2, <4>1
    <3>3. QED
      BY <3>1, <3>2
  <2>12. PICK c : c = TrimmedChunk(a, b, Doubled, f, l, "run")
    OBVIOUS
  <2>13. Doubled \in BOOLEAN /\ f <= LineOf(a) /\ "run" \in {"run", "cut", "window"}
    BY <2>3, <2>5 DEF Doubled
  <2>14. c \in Chunks /\ FineCut(c) /\ LinesTrue(c) /\ \A i \in NonBlank(a, b) : Covers(c, i)
    BY <1>0, <2>5, <2>6, <2>7, <2>8, <2>9, <2>11, <2>12, <2>13, TrimmedFine, Zenon
  <2>15. Flushed(pend) = Append(chunks, c)
    BY <1>2, <2>2, <2>12, Zenon DEF Flushed
  <2>16. /\ Append(chunks, c) \in Seq(Chunks) /\ FineList(Append(chunks, c))
         /\ \A i : Covered(chunks, i) => Covered(Append(chunks, c), i)
         /\ \A i : Covers(c, i) => Covered(Append(chunks, c), i)
    BY <1>0, <2>14, OneAppended, Zenon
  <2>17. ASSUME NEW i \in NonBlank(1, Len(text)), InPend(pend, i) PROVE Covers(c, i)
    <3>1. a <= i /\ i <= b
      BY <2>2, <2>17 DEF InPend
    <3>2. i \in NonBlank(a, b)
      BY <1>0, <3>1, Shows
    <3>3. QED
      BY <2>14, <3>2
  <2>18. QED
    BY <2>15, <2>16, <2>17, Zenon
<1>3. QED
  BY <1>1, <1>2

LEMMA BaseKept ==
  ASSUME Here, NEW so, so = source, NEW le, le = left, NEW ll, ll = lastLine,
         NEW cs \in Seq(Chunks), FineList(cs)
  PROVE  BaseSound(so, le, ll, cs)
  BY HereIs, Zenon DEF BaseSound

------------------------------------------------------------------------------
(* Lines. *)

LEMMA TakesALine ==
  ASSUME Here, Taking
  PROVE  /\ next \in Nat /\ 1 <= next /\ next <= last /\ last \in Nat /\ last <= LineCount
         /\ stage = "lines" /\ PendSound(pend, next, source)
         /\ FeedSound(next, last, source, left, lastLine, First)
         /\ \A i \in NonBlank(1, Len(text)) : LineOf(i) < next => Covered(chunks, i) \/ InPend(pend, i)
<1>1. stage = "lines" /\ next <= last
  <2>1. next \in Nat /\ last \in Nat
    BY HereIs DEF TypesSound
  <2>2. QED
    BY <2>1 DEF Taking, Ended
<1>2. /\ FeedSound(next, last, source, left, lastLine, First)
      /\ PendSound(pend, next, source)
      /\ \A i \in NonBlank(1, Len(text)) : LineOf(i) < next => Covered(chunks, i) \/ InPend(pend, i)
  BY <1>1, HereIs, Zenon DEF StageSound
<1>3. next \in Nat /\ last \in Nat
  BY HereIs DEF TypesSound
<1>4. 1 <= next /\ last <= LineCount
  BY <1>2, <1>3 DEF FeedSound
<1>5. QED
  BY <1>1, <1>2, <1>3, <1>4

LEMMA NextLine ==
  ASSUME Here, Taking, NEW nx, nx = next + 1
  PROVE  FeedSound(nx, last, source, left, lastLine, First)
  BY TakesALine DEF FeedSound

LEMMA TakeBlankStep ==
  ASSUME Here, TakeBlank, NEW st, NEW nx, NEW la, NEW so, NEW pe, NEW le, NEW ll, NEW po, NEW li, NEW cs,
         Become(st, nx, la, so, pe, le, ll, po, li, cs)
  PROVE  Sound(st, nx, la, so, pe, le, ll, po, li, cs, First, End)
<1>0. Sane /\ LineCount \in Nat
  BY HereIs
<1>1. Taking /\ IsBlank(next)
  BY DEF TakeBlank
<1>2. /\ cs = Flushed(pend) /\ pe = NonePending /\ nx = next + 1 /\ st = stage /\ la = last /\ so = source
      /\ le = left /\ ll = lastLine /\ po = pos /\ li = line
  BY DEF TakeBlank, Become
<1>3. /\ next \in Nat /\ 1 <= next /\ next <= last /\ last \in Nat /\ last <= LineCount
      /\ stage = "lines" /\ PendSound(pend, next, source)
      /\ \A i \in NonBlank(1, Len(text)) : LineOf(i) < next => Covered(chunks, i) \/ InPend(pend, i)
  BY <1>1, TakesALine
<1>4. /\ cs \in Seq(Chunks) /\ FineList(cs)
      /\ \A i : Covered(chunks, i) => Covered(cs, i)
      /\ \A i \in NonBlank(1, Len(text)) : InPend(pend, i) => Covered(cs, i)
  BY <1>2, <1>3, FlushFine, Zenon
<1>5. BaseSound(so, le, ll, cs)
  BY <1>2, <1>4, BaseKept
<1>6. pe \in [from : Nat, to : Nat, size : Nat, first : Nat, last : Nat] /\ pe.size = 0
  BY <1>2 DEF NonePending
<1>7. TypesSound(st, nx, la, pe, po, li)
  BY <1>2, <1>3, <1>6, HereIs DEF TypesSound
<1>8. FeedSound(nx, la, so, le, ll, First)
  BY <1>1, <1>2, NextLine
<1>9. PendSound(pe, nx, so)
  BY <1>6 DEF PendSound
<1>10. ASSUME NEW i \in NonBlank(1, Len(text)), LineOf(i) < nx PROVE Covered(cs, i)
  <2>1. LineOf(i) \in Nat /\ LineOf(i) <= next
    BY <1>0, <1>2, <1>3, <1>10, Shows
  <2>2. LineOf(i) # next
    <3>1. SUFFICES ASSUME LineOf(i) = next PROVE FALSE
      OBVIOUS
    <3>2. LineFirst(next) \in Nat /\ LineLast(next) \in Nat
      BY <1>0, <1>3, LineBounds DEF Sane, Typed
    <3>3. LineFirst(next) <= i /\ i <= LineLast(next)
      BY <1>0, <3>1, Shows
    <3>4. i \in NonBlank(LineFirst(next), LineLast(next))
      BY <1>0, <3>2, <3>3, Shows
    <3>5. QED
      BY <1>1, <3>4 DEF IsBlank
  <2>3. LineOf(i) < next
    BY <1>3, <2>1, <2>2
  <2>4. QED
    BY <1>3, <1>4, <2>3
<1>11. StageSound(st, nx, la, so, pe, le, ll, po, li, cs, First, End)
  BY <1>2, <1>3, <1>8, <1>9, <1>10 DEF StageSound
<1>12. QED
  BY <1>5, <1>7, <1>11 DEF Sound

LEMMA TakeOversizedStep ==
  ASSUME Here, TakeOversized, NEW st, NEW nx, NEW la, NEW so, NEW pe, NEW le, NEW ll, NEW po, NEW li, NEW cs,
         Become(st, nx, la, so, pe, le, ll, po, li, cs)
  PROVE  Sound(st, nx, la, so, pe, le, ll, po, li, cs, First, End)
<1>0. Sane /\ Typed /\ LineCount \in Nat /\ Len(text) \in Nat /\ MaxChars \in Nat
  BY HereIs, SizesAssumption
<1>1. Taking /\ TokenLen(next) > MaxChars
  BY DEF TakeOversized, Oversized
<1>2. /\ cs = Flushed(pend) /\ pe = NonePending /\ nx = next /\ st = "cuts" /\ la = last /\ so = source
      /\ le = left /\ ll = lastLine /\ po = LineFirst(next) /\ li = line
  BY DEF TakeOversized, Become
<1>3. /\ next \in Nat /\ 1 <= next /\ next <= last /\ last \in Nat /\ last <= LineCount
      /\ stage = "lines" /\ PendSound(pend, next, source)
      /\ FeedSound(next, last, source, left, lastLine, First)
      /\ \A i \in NonBlank(1, Len(text)) : LineOf(i) < next => Covered(chunks, i) \/ InPend(pend, i)
  BY <1>1, TakesALine
<1>4. /\ cs \in Seq(Chunks) /\ FineList(cs)
      /\ \A i : Covered(chunks, i) => Covered(cs, i)
      /\ \A i \in NonBlank(1, Len(text)) : InPend(pend, i) => Covered(cs, i)
  BY <1>2, <1>3, FlushFine, Zenon
<1>5. BaseSound(so, le, ll, cs)
  BY <1>2, <1>4, BaseKept
<1>6. next <= LineCount
  BY <1>0, <1>3
<1>7. /\ LineFirst(next) \in Nat /\ 1 <= LineFirst(next) /\ LineLast(next) \in Nat /\ LineLast(next) <= Len(text)
      /\ LineLen(next) \in Nat /\ LineLen(next) = LineLast(next) + 1 - LineFirst(next)
  BY <1>0, <1>3, <1>6, LineBounds
<1>8. LineFirst(next) <= LineLast(next)
  <2>1. MaxChars >= 4
    BY SizesAssumption
  <2>2. TokenLen(next) <= LineLen(next) + 1
    BY <1>7 DEF TokenLen
  <2>3. TokenLen(next) \in Nat
    BY <1>7 DEF TokenLen
  <2>4. QED
    BY <1>0, <1>1, <1>7, <2>1, <2>2, <2>3
<1>9. RuneStart(LineFirst(next))
  BY <1>0, <1>3, <1>6, <1>7, <1>8, LineRune
<1>10. TypesSound(st, nx, la, pe, po, li)
  BY <1>2, <1>3, <1>7, HereIs DEF TypesSound, NonePending
<1>11. ShownLines(cs, nx)
  BY <1>2, <1>3, <1>4 DEF ShownLines
<1>12. ShownBytes(cs, LineFirst(nx), po)
  <2>1. ASSUME NEW i \in NonBlank(1, Len(text)) PROVE ~ (LineFirst(nx) <= i /\ i < po)
    BY <1>0, <1>2, <1>7, Shows
  <2>2. QED
    BY <2>1 DEF ShownBytes
<1>13. StageSound(st, nx, la, so, pe, le, ll, po, li, cs, First, End)
  <2>1. FeedSound(nx, la, so, le, ll, First) /\ nx <= la
    BY <1>2, <1>3
  <2>2. st = "cuts" /\ pe = NonePending /\ LineFirst(nx) <= po /\ po <= LineLast(nx) /\ RuneStart(po)
    BY <1>2, <1>7, <1>8, <1>9
  <2>3. QED
    BY <1>11, <1>12, <2>1, <2>2 DEF StageSound
<1>14. QED
  BY <1>5, <1>10, <1>13 DEF Sound

LEMMA TakeCutStep ==
  ASSUME Here, TakeCut, NEW st, NEW nx, NEW la, NEW so, NEW pe, NEW le, NEW ll, NEW po, NEW li, NEW cs,
         Become(st, nx, la, so, pe, le, ll, po, li, cs)
  PROVE  Sound(st, nx, la, so, pe, le, ll, po, li, cs, First, End)
<1>0. Sane /\ Typed /\ LineCount \in Nat /\ Len(text) \in Nat /\ MaxChars \in Nat
  BY HereIs, SizesAssumption
<1>1. PICK e : e = RuneCut(pos, LineLast(next))
  OBVIOUS
<1>2. /\ stage = "cuts"
      /\ cs = IF NonBlank(pos, e) = {} THEN chunks
              ELSE Append(chunks, TrimmedChunk(pos, e, FALSE, next, next, "cut"))
      /\ po = e + 1
      /\ IF e = LineLast(next) THEN st = "lines" /\ nx = next + 1 ELSE st = stage /\ nx = next
      /\ la = last /\ so = source /\ pe = pend /\ le = left /\ ll = lastLine /\ li = line
  BY <1>1 DEF TakeCut, Become
<1>3. /\ next \in Nat /\ last \in Nat /\ pos \in Nat /\ line \in Nat
      /\ pend \in [from : Nat, to : Nat, size : Nat, first : Nat, last : Nat]
  BY HereIs DEF TypesSound
<1>4. /\ FeedSound(next, last, source, left, lastLine, First) /\ next <= last
      /\ pend = NonePending
      /\ LineFirst(next) <= pos /\ pos <= LineLast(next) /\ RuneStart(pos)
      /\ ShownLines(chunks, next) /\ ShownBytes(chunks, LineFirst(next), pos)
  BY <1>2, HereIs DEF StageSound
<1>5. 1 <= next /\ next <= LineCount
  BY <1>0, <1>3, <1>4 DEF FeedSound
<1>6. /\ LineFirst(next) \in Nat /\ 1 <= LineFirst(next) /\ LineLast(next) \in Nat /\ LineLast(next) <= Len(text)
  BY <1>0, <1>3, <1>5, LineBounds
<1>7. RuneEnds(LineLast(next))
  BY <1>0, <1>3, <1>5, LineRune
<1>8. 1 <= pos
  BY <1>3, <1>4, <1>6
<1>9. /\ e \in Nat /\ pos <= e /\ e <= LineLast(next) /\ e + 1 - pos <= MaxChars
      /\ e = LineLast(next) \/ RuneStart(e + 1)
  BY <1>0, <1>1, <1>3, <1>4, <1>6, <1>7, <1>8, CutHolds
<1>10. RuneEnds(e)
  BY <1>7, <1>9 DEF RuneEnds
<1>11. next <= LineOf(pos) /\ LineOf(e) <= next
  BY <1>0, <1>3, <1>4, <1>5, <1>6, <1>8, <1>9, InItsLine
<1>12. PICK c : c = TrimmedChunk(pos, e, FALSE, next, next, "cut")
  OBVIOUS
<1>13. c \in Chunks /\ FineCut(c) /\ LinesTrue(c) /\ \A i \in NonBlank(pos, e) : Covers(c, i)
  <2>1. pos <= e + 1 /\ e <= Len(text) /\ (e + 1 - pos) + (IF FALSE THEN LineEnds(pos, e) ELSE 0) <= MaxChars
    BY <1>0, <1>3, <1>6, <1>9
  <2>2. FALSE \in BOOLEAN /\ "cut" \in {"run", "cut", "window"}
    OBVIOUS
  <2>3. QED
    BY <1>0, <1>3, <1>4, <1>8, <1>9, <1>10, <1>11, <1>12, <2>1, <2>2, TrimmedFine, Zenon
<1>14. /\ cs \in Seq(Chunks) /\ FineList(cs)
       /\ \A i : Covered(chunks, i) => Covered(cs, i)
       /\ \A i \in NonBlank(pos, e) : Covered(cs, i)
  <2>1. chunks \in Seq(Chunks) /\ FineList(chunks)
    BY HereIs
  <2>2. CASE NonBlank(pos, e) = {}
    BY <1>2, <2>1, <2>2
  <2>3. CASE NonBlank(pos, e) # {}
    <3>1. cs = Append(chunks, c)
      BY <1>2, <1>12, <2>3
    <3>2. /\ Append(chunks, c) \in Seq(Chunks) /\ FineList(Append(chunks, c))
          /\ \A i : Covered(chunks, i) => Covered(Append(chunks, c), i)
          /\ \A i : Covers(c, i) => Covered(Append(chunks, c), i)
      BY <1>13, <2>1, OneAppended, Zenon
    <3>3. QED
      BY <1>13, <3>1, <3>2, Zenon
  <2>4. QED
    BY <2>2, <2>3
<1>15. BaseSound(so, le, ll, cs)
  BY <1>2, <1>14, BaseKept
<1>16. TypesSound(st, nx, la, pe, po, li)
  BY <1>2, <1>3, <1>9 DEF TypesSound
<1>17. ASSUME NEW i \in NonBlank(1, Len(text)), LineOf(i) < next \/ (LineFirst(next) <= i /\ i <= e)
       PROVE  Covered(cs, i)
  <2>1. i \in Nat
    BY <1>0, Shows
  <2>2. CASE LineOf(i) < next
    BY <1>4, <1>14, <2>2 DEF ShownLines
  <2>3. CASE LineFirst(next) <= i /\ i < pos
    BY <1>4, <1>14, <2>3 DEF ShownBytes
  <2>4. CASE pos <= i /\ i <= e
    <3>1. i \in NonBlank(pos, e)
      BY <1>0, <1>3, <1>9, <2>4, Shows
    <3>2. QED
      BY <1>14, <3>1
  <2>5. QED
    BY <1>3, <1>17, <2>1, <2>2, <2>3, <2>4
<1>18. StageSound(st, nx, la, so, pe, le, ll, po, li, cs, First, End)
  <2>1. CASE e = LineLast(next)
    <3>1. st = "lines" /\ nx = next + 1
      BY <1>2, <2>1
    <3>2. FeedSound(nx, la, so, le, ll, First)
      BY <1>2, <1>3, <1>4, <3>1 DEF FeedSound
    <3>3. PendSound(pe, nx, so)
      BY <1>2, <1>4 DEF PendSound, NonePending
    <3>4. ASSUME NEW i \in NonBlank(1, Len(text)), LineOf(i) < nx PROVE Covered(cs, i)
      <4>1. LineOf(i) \in Nat
        BY <1>0, Shows
      <4>2. CASE LineOf(i) < next
        BY <1>17, <4>2
      <4>3. CASE LineOf(i) = next
        <5>1. LineFirst(next) <= i /\ i <= LineLast(next)
          BY <1>0, <4>3, Shows
        <5>2. QED
          BY <1>17, <2>1, <5>1
      <4>4. QED
        BY <1>3, <3>1, <3>4, <4>1, <4>2, <4>3
    <3>5. QED
      BY <3>1, <3>2, <3>3, <3>4 DEF StageSound
  <2>2. CASE e # LineLast(next)
    <3>1. st = "cuts" /\ nx = next
      BY <1>2, <2>2
    <3>2. LineFirst(nx) <= po /\ po <= LineLast(nx) /\ RuneStart(po)
      BY <1>2, <1>3, <1>4, <1>6, <1>9, <2>2, <3>1
    <3>3. ShownLines(cs, nx)
      BY <1>17, <3>1 DEF ShownLines
    <3>4. ShownBytes(cs, LineFirst(nx), po)
      <4>1. ASSUME NEW i \in NonBlank(1, Len(text)), LineFirst(nx) <= i, i < po PROVE Covered(cs, i)
        <5>1. i \in Nat
          BY <1>0, Shows
        <5>2. i <= e
          BY <1>2, <1>9, <4>1, <5>1
        <5>3. QED
          BY <1>17, <3>1, <4>1, <5>2
      <4>2. QED
        BY <4>1 DEF ShownBytes
    <3>5. QED
      BY <1>2, <1>4, <3>1, <3>2, <3>3, <3>4 DEF StageSound
  <2>3. QED
    BY <2>1, <2>2
<1>19. QED
  BY <1>15, <1>16, <1>18 DEF Sound

LEMMA TakeLineStep ==
  ASSUME Here, TakeLine, NEW st, NEW nx, NEW la, NEW so, NEW pe, NEW le, NEW ll, NEW po, NEW li, NEW cs,
         Become(st, nx, la, so, pe, le, ll, po, li, cs)
  PROVE  Sound(st, nx, la, so, pe, le, ll, po, li, cs, First, End)
<1>0. Sane /\ Typed /\ LineCount \in Nat /\ Len(text) \in Nat /\ MaxChars \in Nat
  BY HereIs, SizesAssumption
<1>1. Taking /\ TokenLen(next) <= MaxChars
  BY DEF TakeLine
<1>2. /\ cs = IF Overflows(next) THEN Flushed(pend) ELSE chunks
      /\ pe = Appended(next) /\ nx = next + 1 /\ st = stage /\ la = last /\ so = source
      /\ le = left /\ ll = lastLine /\ po = pos /\ li = line
  BY DEF TakeLine, Become
<1>3. /\ next \in Nat /\ 1 <= next /\ next <= last /\ last \in Nat /\ last <= LineCount
      /\ stage = "lines" /\ PendSound(pend, next, source)
      /\ \A i \in NonBlank(1, Len(text)) : LineOf(i) < next => Covered(chunks, i) \/ InPend(pend, i)
  BY <1>1, TakesALine
<1>4. next <= LineCount
  BY <1>0, <1>3
<1>5. /\ pend \in [from : Nat, to : Nat, size : Nat, first : Nat, last : Nat]
      /\ source \in {"file", "gap"}
  BY HereIs DEF TypesSound, BaseSound
<1>6. /\ LineFirst(next) \in Nat /\ 1 <= LineFirst(next) /\ LineLast(next) \in Nat /\ LineLast(next) <= Len(text)
      /\ LineLen(next) \in Nat /\ LineLen(next) = LineLast(next) + 1 - LineFirst(next)
  BY <1>0, <1>3, <1>4, LineBounds
<1>7. PICK n \in {0, 1} : n = IF source = "file" /\ next < LineCount THEN 1 ELSE 0
  OBVIOUS
<1>8. TokenLen(next) = LineLen(next) + n /\ TokenLen(next) \in Nat
  BY <1>6, <1>7 DEF TokenLen, Doubled
<1>9. BaseSound(so, le, ll, cs)
  <2>1. cs \in Seq(Chunks) /\ FineList(cs)
    BY <1>2, <1>3, HereIs, FlushFine
  <2>2. QED
    BY <1>2, <2>1, BaseKept
<1>10. FeedSound(nx, la, so, le, ll, First)
  BY <1>1, <1>2, NextLine
<1>11. CASE pend.size = 0 \/ Overflows(next)
  <2>1. pe = [from |-> LineFirst(next), to |-> LineLast(next), size |-> TokenLen(next) + 1,
              first |-> next, last |-> next]
    BY <1>2, <1>11 DEF Appended
  <2>2. TypesSound(st, nx, la, pe, po, li)
    <3>1. PICK z \in Nat : z = TokenLen(next) + 1
      BY <1>8
    <3>2. pe \in [from : Nat, to : Nat, size : Nat, first : Nat, last : Nat]
      BY <1>3, <1>6, <2>1, <3>1
    <3>3. QED
      BY <1>2, <1>3, <3>2, HereIs DEF TypesSound
  <2>3. pe.from = LineFirst(next) /\ pe.to = LineLast(next) /\ pe.size = TokenLen(next) + 1 /\ pe.first = next /\ pe.last = next
    BY <2>1
  <2>4. PendExtra(pe, so) = n
    BY <1>2, <1>3, <1>7, <2>3 DEF PendExtra
  <2>5. PendSound(pe, nx, so)
    BY <1>0, <1>1, <1>2, <1>3, <1>4, <1>6, <1>8, <2>3, <2>4, SMTT(60) DEF PendSound
  <2>6. ASSUME NEW i \in NonBlank(1, Len(text)), LineOf(i) < next PROVE Covered(cs, i)
    <3>1. Covered(chunks, i) \/ InPend(pend, i)
      BY <1>3, <2>6
    <3>2. CASE Overflows(next)
      BY <1>2, <1>3, <3>1, <3>2, FlushFine
    <3>3. CASE ~Overflows(next)
      BY <1>2, <1>11, <3>1, <3>3 DEF InPend
    <3>4. QED
      BY <3>2, <3>3
  <2>7. ASSUME NEW i \in NonBlank(1, Len(text)), LineOf(i) < nx PROVE Covered(cs, i) \/ InPend(pe, i)
    <3>1. LineOf(i) \in Nat
      BY <1>0, Shows
    <3>2. CASE LineOf(i) = next
      <4>1. LineFirst(next) <= i /\ i <= LineLast(next)
        BY <1>0, <3>2, Shows
      <4>2. QED
        BY <1>8, <2>3, <4>1 DEF InPend
    <3>3. CASE LineOf(i) < next
      BY <2>6, <3>3
    <3>4. QED
      BY <1>2, <1>3, <2>7, <3>1, <3>2, <3>3
  <2>8. StageSound(st, nx, la, so, pe, le, ll, po, li, cs, First, End)
    BY <1>2, <1>3, <1>10, <2>5, <2>7 DEF StageSound
  <2>9. QED
    BY <1>9, <2>2, <2>8 DEF Sound
<1>12. CASE ~ (pend.size = 0 \/ Overflows(next))
  <2>1. pe = [pend EXCEPT !.to = LineLast(next), !.size = @ + TokenLen(next) + 1, !.last = next]
    BY <1>2, <1>12 DEF Appended
  <2>2. /\ pe.from = pend.from /\ pe.to = LineLast(next) /\ pe.size = pend.size + TokenLen(next) + 1
        /\ pe.first = pend.first /\ pe.last = next
    BY <1>5, <2>1
  <2>3. pend.size > 0 /\ pend.size \in Nat /\ cs = chunks /\ pend.size + TokenLen(next) + 1 <= MaxChars
    BY <1>0, <1>2, <1>5, <1>8, <1>12 DEF Overflows
  <2>4. pe \in [from : Nat, to : Nat, size : Nat, first : Nat, last : Nat]
    <3>1. PICK z \in Nat : z = pend.size + TokenLen(next) + 1
      BY <1>5, <1>8
    <3>2. pe = [pend EXCEPT !.to = LineLast(next), !.size = z, !.last = next]
      BY <2>1, <3>1, <1>5
    <3>3. QED
      BY <1>3, <1>5, <1>6, <3>1, <3>2
  <2>5. TypesSound(st, nx, la, pe, po, li)
    BY <1>2, <1>3, <2>4, HereIs DEF TypesSound
  <2>6. /\ 1 <= pend.first /\ pend.first <= pend.last /\ pend.last + 1 = next /\ pend.last <= LineCount
        /\ pend.from = LineFirst(pend.first) /\ pend.to = LineLast(pend.last)
        /\ pend.size = (pend.to + 1 - pend.from) + 1 + PendExtra(pend, source)
    BY <1>3, <2>3 DEF PendSound
  <2>7. pend.last \in Nat /\ pend.first \in Nat /\ pend.from \in Nat /\ pend.to \in Nat /\ 1 <= pend.last /\ pend.last < LineCount
    BY <1>0, <1>4, <1>5, <2>6
  <2>8. LineFirst(next) = pend.to + 2
    BY <1>0, <2>6, <2>7, LineBounds
  <2>9. /\ source = "file" => PendExtra(pend, source) = (pend.last - pend.first) + 1
        /\ source # "file" => PendExtra(pend, source) = 0
    BY <2>7 DEF PendExtra
  <2>10. /\ source = "file" => PendExtra(pe, so) = (next - pend.first) + n
         /\ source # "file" => PendExtra(pe, so) = 0
    BY <1>2, <1>7, <2>2 DEF PendExtra
  <2>11. n = 0 \/ source = "file"
    BY <1>7
  <2>12. pe.size = (pe.to + 1 - pe.from) + 1 + PendExtra(pe, so)
    <3>1. CASE source = "file"
      <4>1. PICK f \in Nat, t \in Nat, x \in Nat, y \in Nat, z \in Nat, w \in Nat :
                 /\ f = pend.from /\ t = pend.to /\ x = pend.first /\ y = pend.last
                 /\ z = LineLast(next) /\ w = LineLen(next)
        BY <1>6, <2>7
      <4>2. pe.size = (t + 1 - f) + 1 + ((y - x) + 1) + (w + n) + 1
        BY <1>8, <2>2, <2>6, <2>9, <3>1, <4>1
      <4>3. w = z + 1 - (t + 2) /\ y + 1 = next
        BY <1>6, <2>6, <2>8, <4>1
      <4>4. PendExtra(pe, so) = (next - x) + n /\ pe.to = z /\ pe.from = f
        BY <2>2, <2>10, <3>1, <4>1
      <4>5. n \in Int /\ next \in Int
        BY <1>3, <1>7
      <4>6. (t + 1 - f) + 1 + ((y - x) + 1) + (w + n) + 1 = (z + 1 - f) + 1 + ((next - x) + n)
        BY <4>3, <4>5
      <4>7. QED
        BY <4>2, <4>4, <4>6, Zenon
    <3>2. CASE source # "file"
      <4>1. PICK f \in Nat, t \in Nat, z \in Nat, w \in Nat :
                 f = pend.from /\ t = pend.to /\ z = LineLast(next) /\ w = LineLen(next)
        BY <1>6, <2>7
      <4>2. /\ pend.size = (t + 1 - f) + 1 + 0
            /\ pe.size = pend.size + (w + n) + 1
        BY <1>8, <2>2, <2>6, <2>9, <3>2, <4>1
      <4>3. w = z + 1 - (t + 2) /\ n = 0
        BY <1>6, <2>8, <2>11, <3>2, <4>1
      <4>4. PendExtra(pe, so) = 0 /\ pe.to = z /\ pe.from = f
        BY <2>2, <2>10, <3>2, <4>1
      <4>5. (t + 1 - f) + 1 + 0 + (w + 0) + 1 = (z + 1 - f) + 1 + 0
        BY <4>3
      <4>6. QED
        BY <4>2, <4>3, <4>4, <4>5, Zenon
    <3>3. QED
      BY <3>1, <3>2
  <2>13. PendSound(pe, nx, so)
    <3>1. 1 <= pe.first /\ pe.first <= pe.last /\ pe.last + 1 = nx /\ pe.last <= LineCount
      BY <1>2, <1>3, <1>4, <2>2, <2>6, <2>7
    <3>2. pe.from = LineFirst(pe.first) /\ pe.to = LineLast(pe.last)
      BY <2>2, <2>6
    <3>3. pe.size <= MaxChars + 1
      BY <1>0, <1>8, <2>2, <2>3
    <3>4. QED
      BY <2>12, <3>1, <3>2, <3>3 DEF PendSound
  <2>14. pend.to <= pe.to /\ pend.from <= LineFirst(next)
    <3>1. pend.from <= pend.to + 1
      BY <1>0, <2>6, <2>7, LineOrder
    <3>2. LineFirst(next) <= LineLast(next) + 1
      BY <1>0, <1>3, <1>4, LineBounds
    <3>3. QED
      BY <1>6, <2>2, <2>7, <2>8, <3>1, <3>2, SMTT(60)
  <2>15. pe.size > 0
    BY <1>8, <2>2, <2>3
  <2>16. ASSUME NEW i \in NonBlank(1, Len(text)), LineOf(i) < nx PROVE Covered(cs, i) \/ InPend(pe, i)
    <3>1. LineOf(i) \in Nat /\ i \in Nat
      BY <1>0, Shows
    <3>2. CASE LineOf(i) = next
      <4>1. LineFirst(next) <= i /\ i <= LineLast(next)
        BY <1>0, <3>2, Shows
      <4>2. pe.from <= i /\ i <= pe.to
        BY <1>6, <2>2, <2>7, <2>14, <3>1, <4>1
      <4>3. QED
        BY <2>15, <4>2 DEF InPend
    <3>3. CASE LineOf(i) < next
      <4>1. Covered(chunks, i) \/ InPend(pend, i)
        BY <1>3, <3>3
      <4>2. ASSUME InPend(pend, i) PROVE InPend(pe, i)
        <5>1. pend.from <= i /\ i <= pend.to
          BY <4>2 DEF InPend
        <5>2. pe.from <= i /\ i <= pe.to
          BY <1>6, <2>2, <2>7, <2>14, <3>1, <5>1
        <5>3. QED
          BY <2>15, <5>2 DEF InPend
      <4>3. QED
        BY <2>3, <4>1, <4>2
    <3>4. QED
      BY <1>2, <1>3, <2>16, <3>1, <3>2, <3>3
  <2>17. StageSound(st, nx, la, so, pe, le, ll, po, li, cs, First, End)
    BY <1>2, <1>3, <1>10, <2>13, <2>16 DEF StageSound
  <2>18. QED
    BY <1>9, <2>5, <2>17 DEF Sound
<1>13. QED
  BY <1>11, <1>12

LEMMA EndLinesStep ==
  ASSUME Here, EndLines, NEW st, NEW nx, NEW la, NEW so, NEW pe, NEW le, NEW ll, NEW po, NEW li, NEW cs,
         Become(st, nx, la, so, pe, le, ll, po, li, cs)
  PROVE  Sound(st, nx, la, so, pe, le, ll, po, li, cs, First, End)
<1>0. Sane /\ Typed /\ LineCount \in Nat /\ LineCount >= 1 /\ Len(text) \in Nat /\ MaxChars \in Nat
  BY HereIs, SizesAssumption
<1>1. stage = "lines" /\ Ended
  BY DEF EndLines
<1>2. /\ cs = Flushed(pend) /\ pe = NonePending /\ po = 1
      /\ st = IF source = "file" THEN (IF cs = <<>> THEN "prose" ELSE "cap")
              ELSE (IF left = <<>> THEN "cap" ELSE "emit")
      /\ nx = next /\ la = last /\ so = source /\ le = left /\ ll = lastLine /\ li = line
  BY DEF EndLines, Become, Doubled
<1>3. next \in Nat /\ last \in Nat /\ line \in Nat /\ source \in {"file", "gap"}
  BY HereIs DEF TypesSound, BaseSound
<1>4. /\ FeedSound(next, last, source, left, lastLine, First)
      /\ PendSound(pend, next, source)
      /\ \A i \in NonBlank(1, Len(text)) : LineOf(i) < next => Covered(chunks, i) \/ InPend(pend, i)
  BY <1>1, HereIs, Zenon DEF StageSound
<1>5. /\ cs \in Seq(Chunks) /\ FineList(cs)
      /\ \A i : Covered(chunks, i) => Covered(cs, i)
      /\ \A i \in NonBlank(1, Len(text)) : InPend(pend, i) => Covered(cs, i)
  BY <1>2, <1>4, FlushFine, Zenon
<1>6. BaseSound(so, le, ll, cs)
  BY <1>2, <1>5, BaseKept
<1>7. TypesSound(st, nx, la, pe, po, li)
  BY <1>2, <1>3 DEF TypesSound, NonePending
<1>8. ASSUME NEW i \in NonBlank(1, Len(text)), LineOf(i) < next PROVE Covered(cs, i)
  BY <1>4, <1>5, <1>8
<1>9. next > last \/ (source = "file" /\ LineLen(next) >= MaxToken /\ next >= 1)
  BY <1>1, <1>3, <1>4 DEF Ended, TooLong, Doubled, FeedSound
<1>10. CASE st = "prose"
  <2>1. ASSUME Len(text) > MaxChars PROVE 1 <= Len(text) /\ RuneStart(1)
    <3>1. 0 < Len(text)
      BY <1>0, <2>1
    <3>2. RuneStart(0 + 1)
      BY <1>0, <3>1, RuneAfter
    <3>3. QED
      BY <1>0, <3>1, <3>2
  <2>2. ShownBytes(cs, 1, po)
    <3>1. ASSUME NEW i \in NonBlank(1, Len(text)) PROVE ~ (1 <= i /\ i < po)
      BY <1>0, <1>2, Shows
    <3>2. QED
      BY <3>1 DEF ShownBytes
  <2>3. StageSound(st, nx, la, so, pe, le, ll, po, li, cs, First, End)
    BY <1>2, <1>10, <2>1, <2>2 DEF StageSound
  <2>4. QED
    BY <1>6, <1>7, <2>3 DEF Sound
<1>11. CASE st = "cap"
  <2>1. ASSUME NEW i \in NonBlank(1, Len(text))
        PROVE  Covered(cs, i) \/ (le = <<>> /\ ll = 0 /\ Beyond(i))
    <3>1. LineOf(i) \in Nat /\ 1 <= LineOf(i) /\ LineOf(i) <= LineCount
      BY <1>0, Shows
    <3>2. CASE LineOf(i) < next
      BY <1>8, <3>2
    <3>3. CASE ~ (LineOf(i) < next) /\ next > last
      <4>1. ~ (last = LineCount)
        BY <1>0, <1>3, <3>1, <3>3
      <4>2. source = "file" /\ last + 1 = LineCount /\ LineLen(LineCount) = 0
        BY <1>2, <1>3, <1>4, <1>11, <4>1 DEF FeedSound
      <4>3. LineOf(i) = LineCount
        BY <1>0, <1>3, <3>1, <3>3, <4>2
      <4>4. LineFirst(LineCount) <= i /\ i <= LineLast(LineCount)
        BY <1>0, <4>3, Shows
      <4>5. /\ LineLen(LineCount) = LineLast(LineCount) + 1 - LineFirst(LineCount)
            /\ LineFirst(LineCount) \in Nat /\ LineLast(LineCount) \in Nat
        BY <1>0, LineBounds
      <4>6. i \in Nat
        BY <1>0, Shows
      <4>7. QED
        BY <4>2, <4>4, <4>5, <4>6
    <3>4. CASE ~ (LineOf(i) < next) /\ ~ (next > last)
      <4>1. source = "file" /\ LineLen(next) >= MaxToken /\ next \in 1 .. LineOf(i)
        BY <1>3, <1>9, <3>1, <3>4
      <4>2. Beyond(i)
        BY <4>1 DEF Beyond
      <4>3. le = <<>> /\ ll = 0
        BY <1>2, <1>4, <4>1 DEF FeedSound
      <4>4. QED
        BY <4>2, <4>3
    <3>5. QED
      BY <3>2, <3>3, <3>4
  <2>2. StageSound(st, nx, la, so, pe, le, ll, po, li, cs, First, End)
    BY <1>11, <2>1 DEF StageSound
  <2>3. QED
    BY <1>6, <1>7, <2>2 DEF Sound
<1>12. CASE st = "emit"
  <2>1. source = "gap" /\ le # <<>>
    BY <1>2, <1>3, <1>12
  <2>2. last + 1 = First /\ next > last
    BY <1>2, <1>4, <1>9, <2>1 DEF FeedSound
  <2>3. ASSUME NEW i \in NonBlank(1, Len(text)), LineOf(i) < First PROVE Covered(cs, i)
    <3>1. LineOf(i) \in Nat
      BY <1>0, Shows
    <3>2. LineOf(i) < next
      BY <1>3, <2>2, <2>3, <3>1
    <3>3. QED
      BY <1>8, <3>2
  <2>4. ShownLines(cs, First)
    BY <2>3 DEF ShownLines
  <2>5. StageSound(st, nx, la, so, pe, le, ll, po, li, cs, First, End)
    BY <1>12, <2>1, <2>4 DEF StageSound
  <2>6. QED
    BY <1>6, <1>7, <2>5 DEF Sound
<1>13. st \in {"prose", "cap", "emit"}
  BY <1>2
<1>14. QED
  BY <1>10, <1>11, <1>12, <1>13

------------------------------------------------------------------------------
(* Prose. *)

LEMMA TakeWholeStep ==
  ASSUME Here, TakeWhole, NEW st, NEW nx, NEW la, NEW so, NEW pe, NEW le, NEW ll, NEW po, NEW li, NEW cs,
         Become(st, nx, la, so, pe, le, ll, po, li, cs)
  PROVE  Sound(st, nx, la, so, pe, le, ll, po, li, cs, First, End)
<1>0. Sane /\ Typed /\ LineCount \in Nat /\ LineCount >= 1 /\ Len(text) \in Nat /\ MaxChars \in Nat
  BY HereIs, SizesAssumption
<1>1. PICK b \in Nat, l \in Nat : b = Len(text) /\ l = LineOf(Len(text) + 1)
  BY <1>0, LineType
<1>2. PICK c : c = TrimmedChunk(1, b, FALSE, 1, l, "window")
  OBVIOUS
<1>3. /\ b <= MaxChars /\ cs = <<c>> /\ st = "cap"
      /\ nx = next /\ la = last /\ so = source /\ pe = pend /\ le = left /\ ll = lastLine /\ po = pos /\ li = line
  BY <1>1, <1>2 DEF TakeWhole, Become
<1>4. c \in Chunks /\ FineCut(c) /\ LinesTrue(c) /\ \A i \in NonBlank(1, b) : Covers(c, i)
  <2>1. 1 <= b => RuneStart(1) /\ RuneEnds(b)
    <3>1. ASSUME 1 <= b PROVE RuneStart(0 + 1)
      BY <1>0, <1>1, <3>1, RuneAfter
    <3>2. QED
      BY <1>1, <3>1 DEF RuneEnds
  <2>2. 1 <= LineOf(1) /\ (1 <= b => LineOf(b) <= l)
    <3>1. LineOf(1) = 1
      BY <1>0, LineType
    <3>2. 1 <= b => LineOf(b) <= LineOf(b + 1)
      BY <1>0, LineGrows
    <3>3. QED
      BY <1>1, <3>1, <3>2
  <2>3. 1 \in Nat /\ 1 <= 1 /\ 1 <= b + 1 /\ b <= Len(text) /\ (b + 1 - 1) + (IF FALSE THEN LineEnds(1, b) ELSE 0) <= MaxChars
    BY <1>0, <1>1, <1>3
  <2>4. FALSE \in BOOLEAN /\ "window" \in {"run", "cut", "window"}
    OBVIOUS
  <2>5. QED
    BY <1>0, <1>2, <2>1, <2>2, <2>3, <2>4, TrimmedFine, Zenon
<1>5. cs \in Seq(Chunks) /\ FineList(cs) /\ \A i : Covers(c, i) => Covered(cs, i)
  <2>1. cs = Append(<<>>, c) /\ <<>> \in Seq(Chunks) /\ FineList(<<>>)
    BY <1>3 DEF FineList
  <2>2. QED
    BY <1>4, <2>1, OneAppended, Zenon
<1>6. BaseSound(so, le, ll, cs)
  BY <1>3, <1>5, BaseKept
<1>7. TypesSound(st, nx, la, pe, po, li)
  BY <1>3, HereIs DEF TypesSound
<1>8. StageSound(st, nx, la, so, pe, le, ll, po, li, cs, First, End)
  <2>1. \A i \in NonBlank(1, Len(text)) : Covered(cs, i)
    BY <1>1, <1>4, <1>5
  <2>2. QED
    BY <1>3, <2>1 DEF StageSound
<1>9. QED
  BY <1>6, <1>7, <1>8 DEF Sound

LEMMA TakeWindowStep ==
  ASSUME Here, TakeWindow, NEW st, NEW nx, NEW la, NEW so, NEW pe, NEW le, NEW ll, NEW po, NEW li, NEW cs,
         Become(st, nx, la, so, pe, le, ll, po, li, cs)
  PROVE  Sound(st, nx, la, so, pe, le, ll, po, li, cs, First, End)
<1>0. Sane /\ Typed /\ LineCount \in Nat /\ LineCount >= 1 /\ Len(text) \in Nat /\ MaxChars \in Nat
  BY HereIs, SizesAssumption
<1>1. PICK e : e = WindowEnd(pos)
  OBVIOUS
<1>2. PICK c : c = TrimmedChunk(pos, e, FALSE, LineOf(pos), LineOf(e), "window")
  OBVIOUS
<1>3. /\ stage = "prose" /\ Len(text) > MaxChars
      /\ cs = Append(chunks, c)
      /\ IF e >= Len(text) THEN st = "cap" /\ po = pos ELSE st = "prose" /\ po = WindowStart(pos, e)
      /\ nx = next /\ la = last /\ so = source /\ pe = pend /\ le = left /\ ll = lastLine /\ li = line
  BY <1>1, <1>2 DEF TakeWindow, Become
<1>4. pos \in Nat /\ chunks \in Seq(Chunks) /\ FineList(chunks)
  BY HereIs DEF TypesSound
<1>5. 1 <= pos /\ pos <= Len(text) /\ RuneStart(pos) /\ ShownBytes(chunks, 1, pos)
  BY <1>3, HereIs DEF StageSound
<1>6. e \in Nat /\ pos <= e /\ e <= Len(text) /\ e + 1 - pos <= MaxChars /\ RuneEnds(e)
  BY <1>0, <1>1, <1>3, <1>4, <1>5, WindowHolds
<1>7. LineOf(pos) \in Nat /\ LineOf(e) \in Nat
  BY <1>0, LineType
<1>8. c \in Chunks /\ FineCut(c) /\ LinesTrue(c) /\ \A i \in NonBlank(pos, e) : Covers(c, i)
  <2>1. /\ pos <= e + 1 /\ (e + 1 - pos) + (IF FALSE THEN LineEnds(pos, e) ELSE 0) <= MaxChars
        /\ LineOf(pos) <= LineOf(pos) /\ LineOf(e) <= LineOf(e)
    BY <1>4, <1>6, <1>7
  <2>2. FALSE \in BOOLEAN /\ "window" \in {"run", "cut", "window"}
    OBVIOUS
  <2>3. QED
    BY <1>0, <1>2, <1>4, <1>5, <1>6, <1>7, <2>1, <2>2, TrimmedFine, Zenon
<1>9. /\ cs \in Seq(Chunks) /\ FineList(cs)
      /\ \A i : Covered(chunks, i) => Covered(cs, i)
      /\ \A i : Covers(c, i) => Covered(cs, i)
  BY <1>3, <1>4, <1>8, OneAppended, Zenon
<1>10. BaseSound(so, le, ll, cs)
  BY <1>3, <1>9, BaseKept
<1>11. ASSUME NEW i \in NonBlank(1, Len(text)), i <= e PROVE Covered(cs, i)
  <2>1. i \in Nat /\ 1 <= i
    BY <1>0, Shows
  <2>2. CASE i < pos
    BY <1>5, <1>9, <2>1, <2>2 DEF ShownBytes
  <2>3. CASE pos <= i
    <3>1. i \in NonBlank(pos, e)
      BY <1>0, <1>4, <1>6, <1>11, <2>3, Shows
    <3>2. QED
      BY <1>8, <1>9, <3>1
  <2>4. QED
    BY <1>4, <2>1, <2>2, <2>3
<1>12. CASE e >= Len(text)
  <2>1. st = "cap" /\ po = pos
    BY <1>3, <1>12
  <2>2. TypesSound(st, nx, la, pe, po, li)
    BY <1>3, <2>1, HereIs DEF TypesSound
  <2>3. ASSUME NEW i \in NonBlank(1, Len(text)) PROVE Covered(cs, i)
    <3>1. i \in Nat /\ i <= Len(text)
      BY <1>0, Shows
    <3>2. i <= e
      BY <1>0, <1>6, <1>12, <3>1
    <3>3. QED
      BY <1>11, <3>2
  <2>4. StageSound(st, nx, la, so, pe, le, ll, po, li, cs, First, End)
    BY <2>1, <2>3 DEF StageSound
  <2>5. QED
    BY <1>10, <2>2, <2>4 DEF Sound
<1>13. CASE ~ (e >= Len(text))
  <2>1. st = "prose" /\ po = WindowStart(pos, e)
    BY <1>3, <1>13
  <2>2. e < Len(text) /\ RuneStart(e + 1)
    BY <1>0, <1>6, <1>13 DEF RuneEnds
  <2>3. po \in Nat /\ 1 <= po /\ po <= e + 1 /\ RuneStart(po)
    BY <1>0, <1>4, <1>5, <1>6, <2>1, <2>2, NextWindow
  <2>4. TypesSound(st, nx, la, pe, po, li)
    BY <1>3, <2>1, <2>3, HereIs DEF TypesSound
  <2>5. po <= Len(text)
    BY <1>0, <1>6, <2>2, <2>3
  <2>6. ShownBytes(cs, 1, po)
    <3>1. ASSUME NEW i \in NonBlank(1, Len(text)), i < po PROVE Covered(cs, i)
      <4>1. i \in Nat
        BY <1>0, Shows
      <4>2. i <= e
        BY <1>6, <2>3, <3>1, <4>1
      <4>3. QED
        BY <1>11, <4>2
    <3>2. QED
      BY <3>1 DEF ShownBytes
  <2>7. StageSound(st, nx, la, so, pe, le, ll, po, li, cs, First, End)
    BY <2>1, <2>3, <2>5, <2>6 DEF StageSound
  <2>8. QED
    BY <1>10, <2>4, <2>7 DEF Sound
<1>14. QED
  BY <1>12, <1>13

(* Symbols. *)

LEMMA FirstIs ==
  ASSUME Here, left # <<>>
  PROVE  /\ First \in Nat /\ 1 <= First /\ First <= End /\ End \in Nat /\ End <= LineCount
         /\ From = LineFirst(First) /\ To = LineLast(End)
         /\ From \in Nat /\ 1 <= From /\ From <= To /\ To \in Nat /\ To <= Len(text)
         /\ LineOf(From) = First /\ LineOf(To) <= End
         /\ RuneStart(From) /\ RuneEnds(To)
         /\ Tail(left) \in Seq(Nat \X Nat) /\ SymbolsSound(Tail(left))
<1>0. Sane /\ Typed /\ LineCount \in Nat /\ Len(text) \in Nat
  BY HereIs
<1>1. left \in Seq(Nat \X Nat) /\ SymbolsSound(left)
  BY HereIs DEF BaseSound
<1>2. 1 \in DOMAIN left /\ Head(left) = left[1] /\ left[1] \in Nat \X Nat
  BY <1>1
<1>3. PICK f \in Nat, l \in Nat : f = Head(left)[1] /\ l = Head(left)[2]
  BY <1>2
<1>4. 1 <= f /\ f <= l /\ f <= LineCount /\ ~IsBlank(f)
  BY <1>1, <1>2, <1>3 DEF SymbolsSound
<1>5. First \in Nat /\ 1 <= First /\ First <= f
  <2> DEFINE S == {k \in 1 .. f : k = f \/ (k > lastLine /\ \A j \in k .. (f - 1) : IsComment(j))}
  <2>1. S \in SUBSET Nat
    OBVIOUS
  <2>2. f \in S
    BY <1>4
  <2>3. Least(S) \in S
    BY <2>1, <2>2, LeastIs, Zenon
  <2>4. First = Least(S)
    BY <1>3 DEF First, DocStart
  <2> HIDE DEF S
  <2>5. First \in S
    BY <2>3, <2>4
  <2>6. QED
    BY <2>5 DEF S
<1>6. End \in Nat /\ f <= End /\ End <= LineCount
  BY <1>0, <1>3, <1>4 DEF End, Lesser
<1>7. 1 <= End /\ First <= LineCount /\ First <= End
  BY <1>0, <1>4, <1>5, <1>6
<1>8. From = LineFirst(First) /\ To = LineLast(End)
  BY DEF From, To
<1>9. From \in Nat /\ 1 <= From /\ LineOf(From) = First
  BY <1>0, <1>5, <1>7, <1>8, LineBounds
<1>10. To \in Nat /\ To <= Len(text) /\ LineOf(To + 1) = End
  BY <1>0, <1>6, <1>7, <1>8, LineBounds
<1>11. From <= To
  <2>1. PICK i \in LineFirst(f) .. LineLast(f) : TRUE
    BY <1>4 DEF IsBlank, NonBlank
  <2>2. LineFirst(First) <= LineFirst(f) /\ LineLast(f) <= LineLast(End)
    BY <1>0, <1>4, <1>5, <1>6, LineOrder
  <2>3. LineFirst(f) \in Nat /\ LineLast(f) \in Nat
    BY <1>0, <1>4, LineBounds
  <2>4. QED
    BY <1>8, <1>9, <1>10, <2>1, <2>2, <2>3
<1>12. LineOf(To) <= End
  BY <1>0, <1>9, <1>10, <1>11, LineGrows
<1>13. RuneStart(From)
  BY <1>0, <1>5, <1>7, <1>8, <1>9, <1>10, <1>11, LineRune
<1>14. RuneEnds(To)
  BY <1>0, <1>6, <1>7, <1>8, LineRune
<1>15. Tail(left) \in Seq(Nat \X Nat) /\ SymbolsSound(Tail(left))
  <2>1. PICK t : t = Tail(left)
    OBVIOUS
  <2>2. t \in Seq(Nat \X Nat) /\ \A k \in DOMAIN t : k + 1 \in DOMAIN left /\ t[k] = left[k + 1]
    BY <1>1, <2>1
  <2>3. SymbolsSound(t)
    BY <1>1, <2>2 DEF SymbolsSound
  <2>4. QED
    BY <2>1, <2>2, <2>3
<1>16. QED
  BY <1>5, <1>6, <1>7, <1>8, <1>9, <1>10, <1>11, <1>12, <1>13, <1>14, <1>15

LEMMA BlankGap ==
  ASSUME Sane, NEW a \in Nat, NEW b \in Nat, 1 <= a, b <= LineCount, GapIsBlank(a, b),
         NEW i \in NonBlank(1, Len(text)), a <= LineOf(i), LineOf(i) <= b
  PROVE  FALSE
<1>0. Typed /\ LineCount \in Nat
  BY LineType DEF Sane, Typed
<1>1. LineOf(i) \in Nat /\ LineOf(i) <= LineCount
  BY Shows
<1>2. a <= b /\ a <= LineCount /\ 1 <= b
  BY <1>0, <1>1
<1>3. NonBlank(LineFirst(a), LineLast(b)) = {}
  BY <1>2 DEF GapIsBlank
<1>4. LineFirst(a) <= i /\ i <= LineLast(b)
  BY Shows
<1>5. LineFirst(a) \in Nat /\ LineLast(b) \in Nat
  BY <1>0, <1>2, LineBounds
<1>6. i \in NonBlank(LineFirst(a), LineLast(b))
  BY <1>4, <1>5, Shows
<1>7. QED
  BY <1>3, <1>6

LEMMA TakeGapStep ==
  ASSUME Here, TakeGap, NEW st, NEW nx, NEW la, NEW so, NEW pe, NEW le, NEW ll, NEW po, NEW li, NEW cs,
         Become(st, nx, la, so, pe, le, ll, po, li, cs)
  PROVE  Sound(st, nx, la, so, pe, le, ll, po, li, cs, First, End)
<1>0. Sane /\ Typed /\ LineCount \in Nat /\ Len(text) \in Nat /\ chunks \in Seq(Chunks) /\ FineList(chunks)
  BY HereIs
<1>1. stage = "symbols" /\ left # <<>>
  BY DEF TakeGap
<1>2. First \in Nat /\ 1 <= First /\ First <= LineCount /\ lastLine \in Nat
  BY <1>0, <1>1, FirstIs, HereIs DEF BaseSound
<1>3. cs = chunks /\ le = left /\ ll = lastLine /\ po = pos /\ li = line
  BY DEF TakeGap, Become
<1>4. ShownLines(chunks, lastLine + 1)
  BY <1>1, HereIs DEF StageSound
<1>5. CASE GapIsBlank(lastLine + 1, First - 1)
  <2>1. st = "emit" /\ nx = next /\ la = last /\ so = source /\ pe = pend
    BY <1>5 DEF TakeGap, Become
  <2>2. BaseSound(so, le, ll, cs)
    BY <1>0, <1>3, <2>1, BaseKept
  <2>3. TypesSound(st, nx, la, pe, po, li)
    BY <1>3, <2>1, HereIs DEF TypesSound
  <2>4. ASSUME NEW i \in NonBlank(1, Len(text)), LineOf(i) < First PROVE Covered(chunks, i)
    <3>1. LineOf(i) \in Nat
      BY <1>0, Shows
    <3>2. CASE LineOf(i) < lastLine + 1
      BY <1>4, <3>2 DEF ShownLines
    <3>3. CASE ~ (LineOf(i) < lastLine + 1)
      <4>1. /\ lastLine + 1 \in Nat /\ First - 1 \in Nat /\ 1 <= lastLine + 1 /\ First - 1 <= LineCount
            /\ lastLine + 1 <= LineOf(i) /\ LineOf(i) <= First - 1
        BY <1>0, <1>2, <2>4, <3>1, <3>3
      <4>2. QED
        BY <1>0, <1>5, <4>1, BlankGap
    <3>4. QED
      BY <3>2, <3>3
  <2>5. ShownLines(chunks, First)
    BY <2>4 DEF ShownLines
  <2>6. StageSound(st, nx, la, so, pe, le, ll, po, li, cs, First, End)
    BY <1>1, <1>3, <2>1, <2>5 DEF StageSound
  <2>7. QED
    BY <2>2, <2>3, <2>6 DEF Sound
<1>6. CASE ~GapIsBlank(lastLine + 1, First - 1)
  <2>1. st = "lines" /\ nx = lastLine + 1 /\ la = First - 1 /\ so = "gap" /\ pe = NonePending
    BY <1>6 DEF TakeGap, Feed, Become
  <2>2. BaseSound(so, le, ll, cs)
    BY <1>3, <2>1, HereIs DEF BaseSound
  <2>3. TypesSound(st, nx, la, pe, po, li)
    BY <1>2, <1>3, <2>1, HereIs DEF TypesSound, NonePending
  <2>4. FeedSound(nx, la, so, le, ll, First)
    BY <1>0, <1>1, <1>2, <1>3, <2>1 DEF FeedSound
  <2>5. PendSound(pe, nx, so)
    BY <2>1 DEF PendSound, NonePending
  <2>6. StageSound(st, nx, la, so, pe, le, ll, po, li, cs, First, End)
    BY <1>3, <1>4, <2>1, <2>4, <2>5 DEF StageSound, ShownLines
  <2>7. QED
    BY <2>2, <2>3, <2>6 DEF Sound
<1>7. QED
  BY <1>5, <1>6

LEMMA TakeTailStep ==
  ASSUME Here, TakeTail, NEW st, NEW nx, NEW la, NEW so, NEW pe, NEW le, NEW ll, NEW po, NEW li, NEW cs,
         Become(st, nx, la, so, pe, le, ll, po, li, cs)
  PROVE  Sound(st, nx, la, so, pe, le, ll, po, li, cs, First, End)
<1>0. Sane /\ Typed /\ LineCount \in Nat /\ Len(text) \in Nat /\ chunks \in Seq(Chunks) /\ FineList(chunks)
  BY HereIs
<1>1. stage = "symbols" /\ left = <<>> /\ lastLine \in Nat
  BY HereIs DEF TakeTail, BaseSound
<1>2. cs = chunks /\ le = left /\ ll = lastLine /\ po = pos /\ li = line
  BY DEF TakeTail, Become
<1>3. ShownLines(chunks, lastLine + 1)
  BY <1>1, HereIs DEF StageSound
<1>4. CASE GapIsBlank(lastLine + 1, LineCount)
  <2>1. st = "cap" /\ nx = next /\ la = last /\ so = source /\ pe = pend
    BY <1>4 DEF TakeTail, Become
  <2>2. BaseSound(so, le, ll, cs)
    BY <1>0, <1>2, <2>1, BaseKept
  <2>3. TypesSound(st, nx, la, pe, po, li)
    BY <1>2, <2>1, HereIs DEF TypesSound
  <2>4. ASSUME NEW i \in NonBlank(1, Len(text)) PROVE Covered(chunks, i)
    <3>1. LineOf(i) \in Nat /\ LineOf(i) <= LineCount
      BY <1>0, Shows
    <3>2. CASE LineOf(i) < lastLine + 1
      BY <1>3, <3>2 DEF ShownLines
    <3>3. CASE ~ (LineOf(i) < lastLine + 1)
      <4>1. lastLine + 1 \in Nat /\ 1 <= lastLine + 1 /\ LineCount <= LineCount /\ lastLine + 1 <= LineOf(i)
        BY <1>0, <1>1, <3>1, <3>3
      <4>2. QED
        BY <1>0, <1>4, <3>1, <4>1, BlankGap
    <3>4. QED
      BY <3>2, <3>3
  <2>5. StageSound(st, nx, la, so, pe, le, ll, po, li, cs, First, End)
    BY <1>2, <2>1, <2>4 DEF StageSound
  <2>6. QED
    BY <2>2, <2>3, <2>5 DEF Sound
<1>5. CASE ~GapIsBlank(lastLine + 1, LineCount)
  <2>1. st = "lines" /\ nx = lastLine + 1 /\ la = LineCount /\ so = "gap" /\ pe = NonePending
    BY <1>5 DEF TakeTail, Feed, Become
  <2>2. BaseSound(so, le, ll, cs)
    BY <1>2, <2>1, HereIs DEF BaseSound
  <2>3. TypesSound(st, nx, la, pe, po, li)
    BY <1>0, <1>1, <1>2, <2>1, HereIs DEF TypesSound, NonePending
  <2>4. FeedSound(nx, la, so, le, ll, First)
    BY <1>0, <1>1, <1>2, <2>1 DEF FeedSound
  <2>5. PendSound(pe, nx, so)
    BY <2>1 DEF PendSound, NonePending
  <2>6. StageSound(st, nx, la, so, pe, le, ll, po, li, cs, First, End)
    BY <1>2, <1>3, <2>1, <2>4, <2>5 DEF StageSound, ShownLines
  <2>7. QED
    BY <2>2, <2>3, <2>6 DEF Sound
<1>6. QED
  BY <1>4, <1>5

\* A symbol is left behind once all of it is shown.
LEMMA SymbolLeft ==
  ASSUME Here, left # <<>>, ShownLines(chunks, First), NEW cs \in Seq(Chunks), FineList(cs),
         \A i : Covered(chunks, i) => Covered(cs, i),
         \A i \in NonBlank(1, Len(text)) : From <= i /\ i <= To => Covered(cs, i),
         NEW st, st = "symbols", NEW nx, nx = next, NEW la, la = last, NEW so, so = source,
         NEW pe, pe = pend, NEW le, le = Tail(left), NEW ll, ll = End, NEW po \in Nat, NEW li \in Nat,
         NEW fi, NEW en
  PROVE  Sound(st, nx, la, so, pe, le, ll, po, li, cs, fi, en)
<1>0. Sane /\ Typed /\ LineCount \in Nat /\ Len(text) \in Nat
  BY HereIs
<1>1. /\ First \in Nat /\ 1 <= First /\ End \in Nat /\ End <= LineCount
      /\ From = LineFirst(First) /\ To = LineLast(End)
      /\ Tail(left) \in Seq(Nat \X Nat) /\ SymbolsSound(Tail(left))
  BY FirstIs
<1>2. BaseSound(so, le, ll, cs)
  BY <1>1, HereIs DEF BaseSound
<1>3. TypesSound(st, nx, la, pe, po, li)
  BY HereIs DEF TypesSound
<1>4. ASSUME NEW i \in NonBlank(1, Len(text)), LineOf(i) < End + 1 PROVE Covered(cs, i)
  <2>1. LineOf(i) \in Nat
    BY <1>0, Shows
  <2>2. CASE LineOf(i) < First
    BY <2>2 DEF ShownLines
  <2>3. CASE ~ (LineOf(i) < First)
    <3>1. First <= LineOf(i) /\ LineOf(i) <= End
      BY <1>1, <1>4, <2>1, <2>3
    <3>2. LineFirst(First) <= i /\ i <= LineLast(End)
      BY <1>0, <1>1, <3>1, Shows
    <3>3. QED
      BY <1>1, <3>2
  <2>4. QED
    BY <2>2, <2>3
<1>5. ShownLines(cs, ll + 1)
  BY <1>4 DEF ShownLines
<1>6. StageSound(st, nx, la, so, pe, le, ll, po, li, cs, fi, en)
  BY <1>5 DEF StageSound
<1>7. QED
  BY <1>2, <1>3, <1>6 DEF Sound

LEMMA EmitSymbolStep ==
  ASSUME Here, EmitSymbol, NEW st, NEW nx, NEW la, NEW so, NEW pe, NEW le, NEW ll, NEW po, NEW li, NEW cs,
         Become(st, nx, la, so, pe, le, ll, po, li, cs), NEW fi, NEW en
  PROVE  Sound(st, nx, la, so, pe, le, ll, po, li, cs, fi, en)
<1>0. /\ Sane /\ Typed /\ LineCount \in Nat /\ Len(text) \in Nat /\ chunks \in Seq(Chunks) /\ FineList(chunks)
      /\ MaxChars \in Nat /\ Prefix \in Nat /\ pos \in Nat /\ line \in Nat
  BY HereIs, SizesAssumption DEF TypesSound
<1>1. stage = "emit" /\ Prefix + (To + 1 - From) <= MaxChars
  BY DEF EmitSymbol
<1>2. left # <<>> /\ ShownLines(chunks, First)
  BY <1>1, HereIs DEF StageSound
<1>3. /\ First \in Nat /\ 1 <= First /\ First <= End /\ End \in Nat
      /\ From \in Nat /\ 1 <= From /\ From <= To /\ To \in Nat /\ To <= Len(text)
      /\ LineOf(From) = First /\ LineOf(To) <= End
      /\ RuneStart(From) /\ RuneEnds(To)
  BY <1>2, FirstIs
<1>4. PICK c : c = Chunk(From, To, Prefix, First, End, "symbol")
  OBVIOUS
<1>5. /\ cs = Append(chunks, c) /\ st = "symbols" /\ le = Tail(left) /\ ll = End
      /\ nx = next /\ la = last /\ so = source /\ pe = pend /\ po = pos /\ li = line
  BY <1>4 DEF EmitSymbol, SymbolTaken, Become
<1>6. PICK z \in Nat : z = To + 1 - From + Prefix
  BY <1>0, <1>3
<1>7. c = [from |-> From, to |-> To, size |-> z, first |-> First, last |-> End, kind |-> "symbol"]
  BY <1>4, <1>6 DEF Chunk
<1>8. c \in Chunks
  BY <1>3, <1>6, <1>7 DEF Chunks, Kinds
<1>9. c.from = From /\ c.to = To /\ c.size = z /\ c.first = First /\ c.last = End /\ c.kind = "symbol"
  BY <1>7
<1>10. z <= MaxChars
  BY <1>0, <1>1, <1>3, <1>6
<1>11. FineCut(c)
  BY <1>3, <1>9, <1>10 DEF FineCut, RuneEnds
<1>12. LinesTrue(c)
  BY <1>3, <1>9 DEF LinesTrue
<1>13. /\ cs \in Seq(Chunks) /\ FineList(cs)
       /\ \A i : Covered(chunks, i) => Covered(cs, i)
       /\ \A i : Covers(c, i) => Covered(cs, i)
  BY <1>0, <1>5, <1>8, <1>11, <1>12, OneAppended, Zenon
<1>14. ASSUME NEW i, From <= i, i <= To PROVE Covered(cs, i)
  BY <1>9, <1>13, <1>14 DEF Covers
<1>15. QED
  BY <1>0, <1>2, <1>5, <1>13, <1>14, SymbolLeft

LEMMA SplitSymbolStep ==
  ASSUME Here, SplitSymbol, NEW st, NEW nx, NEW la, NEW so, NEW pe, NEW le, NEW ll, NEW po, NEW li, NEW cs,
         Become(st, nx, la, so, pe, le, ll, po, li, cs)
  PROVE  Sound(st, nx, la, so, pe, le, ll, po, li, cs, First, End)
<1>0. Sane /\ chunks \in Seq(Chunks) /\ FineList(chunks)
  BY HereIs
<1>1. stage = "emit"
  BY DEF SplitSymbol
<1>2. left # <<>> /\ ShownLines(chunks, First)
  BY <1>1, HereIs DEF StageSound
<1>3. /\ First \in Nat /\ From \in Nat /\ From <= To /\ To \in Nat /\ LineOf(From) = First /\ RuneStart(From)
      /\ From = LineFirst(First) /\ To = LineLast(End)
  BY <1>2, FirstIs
<1>4. /\ st = "pieces" /\ po = From /\ li = First /\ cs = chunks
      /\ nx = next /\ la = last /\ so = source /\ pe = pend /\ le = left /\ ll = lastLine
  BY DEF SplitSymbol, Become
<1>5. BaseSound(so, le, ll, cs)
  BY <1>0, <1>4, BaseKept
<1>6. TypesSound(st, nx, la, pe, po, li)
  BY <1>3, <1>4, HereIs DEF TypesSound
<1>7. ShownBytes(cs, LineFirst(First), po)
  <2>1. ASSUME NEW i \in NonBlank(1, Len(text)) PROVE ~ (LineFirst(First) <= i /\ i < po)
    BY <1>0, <1>3, <1>4, Shows
  <2>2. QED
    BY <2>1 DEF ShownBytes
<1>8. LineFirst(First) <= po /\ po <= LineLast(End) + 1 /\ LineOf(po) <= li /\ RuneStart(po)
  BY <1>3, <1>4
<1>9. StageSound(st, nx, la, so, pe, le, ll, po, li, cs, First, End)
  BY <1>2, <1>4, <1>7, <1>8 DEF StageSound
<1>10. QED
  BY <1>5, <1>6, <1>9 DEF Sound

LEMMA InPieces ==
  ASSUME Here, stage = "pieces"
  PROVE  /\ left # <<>> /\ ShownLines(chunks, First)
         /\ From <= pos /\ pos <= To + 1 /\ pos \in Nat /\ line \in Nat
         /\ ShownBytes(chunks, From, pos)
         /\ LineOf(pos) <= line
         /\ pos = To + 1 \/ RuneStart(pos) \/ (chunks # <<>> /\ Unsplittable(chunks[Len(chunks)]))
<1>1. /\ left # <<>> /\ ShownLines(chunks, First)
      /\ LineFirst(First) <= pos /\ pos <= LineLast(End) + 1
      /\ ShownBytes(chunks, LineFirst(First), pos)
      /\ LineOf(pos) <= line
      /\ pos = LineLast(End) + 1 \/ RuneStart(pos) \/ (chunks # <<>> /\ Unsplittable(chunks[Len(chunks)]))
  BY HereIs, Zenon DEF StageSound
<1>2. From = LineFirst(First) /\ To = LineLast(End)
  BY <1>1, FirstIs
<1>3. QED
  BY <1>1, <1>2, HereIs DEF TypesSound

LEMMA TakePieceStep ==
  ASSUME Here, TakePiece, NEW st, NEW nx, NEW la, NEW so, NEW pe, NEW le, NEW ll, NEW po, NEW li, NEW cs,
         Become(st, nx, la, so, pe, le, ll, po, li, cs)
  PROVE  Sound(st, nx, la, so, pe, le, ll, po, li, cs, First, End)
<1>0. /\ Sane /\ Typed /\ LineCount \in Nat /\ Len(text) \in Nat /\ chunks \in Seq(Chunks) /\ FineList(chunks)
      /\ MaxChars \in Nat /\ Prefix \in Nat
  BY HereIs, SizesAssumption
<1>1. stage = "pieces" /\ pos <= To
  BY DEF TakePiece
<1>2. /\ left # <<>> /\ ShownLines(chunks, First)
      /\ From <= pos /\ pos \in Nat /\ line \in Nat
      /\ ShownBytes(chunks, From, pos)
      /\ LineOf(pos) <= line
      /\ pos = To + 1 \/ RuneStart(pos) \/ (chunks # <<>> /\ Unsplittable(chunks[Len(chunks)]))
  BY <1>1, InPieces
<1>3. /\ First \in Nat /\ 1 <= First /\ First <= End /\ End \in Nat
      /\ From \in Nat /\ 1 <= From /\ From <= To /\ To \in Nat /\ To <= Len(text) /\ RuneEnds(To)
      /\ From = LineFirst(First) /\ To = LineLast(End)
  BY <1>2, FirstIs
<1>4. PICK e : e = PieceEnd(pos, To)
  OBVIOUS
<1>5. 1 <= pos
  BY <1>2, <1>3
<1>6. /\ e \in Nat /\ pos <= e /\ e <= To
      /\ \/ e + 1 - pos + Prefix <= MaxChars /\ RuneEnds(e)
         \/ /\ pos + (Space \div 2) <= e
            /\ \A i \in pos .. (pos + (Space \div 2)) : text[i] \in Wide
  BY <1>0, <1>1, <1>2, <1>3, <1>4, <1>5, PieceHolds
<1>7. PICK n \in Nat : n = LineEnds(pos, e)
  BY <1>0, LineEndsNat
<1>8. LineOf(e + 1) = LineOf(pos) + n /\ LineOf(pos) \in Nat
  <2>1. LineOf(pos) \in Nat /\ LineOf(e + 1) \in Nat
    BY <1>0, LineType
  <2>2. n = LineOf(e + 1) - LineOf(pos)
    BY <1>0, <1>2, <1>5, <1>6, <1>7, LineEndsBetween
  <2>3. QED
    BY <2>1, <2>2
<1>9. PICK c : c = Chunk(pos, e, Prefix, line, line + (n + 1) - 1, "piece")
  OBVIOUS
<1>10. /\ cs = Append(chunks, c) /\ po = e + 1 /\ li = line + (n + 1)
       /\ st = "pieces" /\ nx = next /\ la = last /\ so = source /\ pe = pend /\ le = left /\ ll = lastLine
  BY <1>1, <1>4, <1>7, <1>9 DEF TakePiece, Become
<1>11. PICK z \in Nat, x \in Nat : z = e + 1 - pos + Prefix /\ x = line + (n + 1) - 1
  BY <1>0, <1>2, <1>6
<1>12. c = [from |-> pos, to |-> e, size |-> z, first |-> line, last |-> x, kind |-> "piece"]
  BY <1>9, <1>11 DEF Chunk
<1>13. c \in Chunks
  BY <1>2, <1>6, <1>11, <1>12 DEF Chunks, Kinds
<1>14. c.from = pos /\ c.to = e /\ c.size = z /\ c.first = line /\ c.kind = "piece"
  BY <1>12
<1>15. LinesTrue(c)
  BY <1>2, <1>14 DEF LinesTrue
<1>16. Unsplittable(c) \/ (z <= MaxChars /\ RuneEnds(e))
  BY <1>6, <1>11, <1>14 DEF Unsplittable
<1>17. FineCut(c) \/ Unsplittable(c) \/ (chunks # <<>> /\ Unsplittable(chunks[Len(chunks)]))
  <2>1. pos # To + 1
    BY <1>1, <1>2, <1>3
  <2>2. CASE RuneStart(pos) /\ z <= MaxChars /\ RuneEnds(e)
    BY <1>14, <2>2 DEF FineCut, RuneEnds
  <2>3. QED
    BY <1>2, <1>16, <2>1, <2>2
<1>18. /\ cs \in Seq(Chunks) /\ FineList(cs)
       /\ \A i : Covered(chunks, i) => Covered(cs, i)
       /\ \A i : Covers(c, i) => Covered(cs, i)
       /\ cs # <<>> /\ cs[Len(cs)] = c
  BY <1>0, <1>10, <1>13, <1>15, <1>17, OneAppended, Zenon
<1>19. BaseSound(so, le, ll, cs)
  BY <1>10, <1>18, BaseKept
<1>20. TypesSound(st, nx, la, pe, po, li)
  BY <1>2, <1>6, <1>10, HereIs DEF TypesSound
<1>21. ShownLines(cs, First)
  BY <1>2, <1>18 DEF ShownLines
<1>22. ShownBytes(cs, LineFirst(First), po)
  <2>1. ASSUME NEW i \in NonBlank(1, Len(text)), From <= i, i < po PROVE Covered(cs, i)
    <3>1. i \in Nat
      BY <1>0, Shows
    <3>2. CASE i < pos
      BY <1>2, <1>18, <2>1, <3>2 DEF ShownBytes
    <3>3. CASE pos <= i
      <4>1. Covers(c, i)
        BY <1>6, <1>10, <1>14, <2>1, <3>1, <3>3 DEF Covers
      <4>2. QED
        BY <1>18, <4>1
    <3>4. QED
      BY <1>2, <3>1, <3>2, <3>3
  <2>2. QED
    BY <1>3, <2>1 DEF ShownBytes
<1>23. LineFirst(First) <= po /\ po <= LineLast(End) + 1 /\ LineOf(po) <= li
  <2>1. LineOf(po) <= li
    BY <1>2, <1>8, <1>10
  <2>2. From <= po /\ po <= To + 1
    BY <1>2, <1>3, <1>6, <1>10
  <2>3. QED
    BY <1>3, <2>1, <2>2
<1>24. po = LineLast(End) + 1 \/ RuneStart(po) \/ (cs # <<>> /\ Unsplittable(cs[Len(cs)]))
  <2>1. CASE Unsplittable(c)
    BY <1>18, <2>1
  <2>2. CASE RuneEnds(e)
    <3>1. CASE e = Len(text)
      <4>1. e = To
        BY <1>0, <1>3, <1>6, <3>1
      <4>2. QED
        BY <1>3, <1>10, <4>1
    <3>2. CASE RuneStart(e + 1)
      BY <1>10, <3>2
    <3>3. QED
      BY <2>2, <3>1, <3>2 DEF RuneEnds
  <2>3. QED
    BY <1>16, <2>1, <2>2
<1>25. st = "pieces" /\ le # <<>>
  BY <1>2, <1>10
<1>26. StageSound(st, nx, la, so, pe, le, ll, po, li, cs, First, End)
  BY <1>21, <1>22, <1>23, <1>24, <1>25 DEF StageSound
<1>27. QED
  BY <1>19, <1>20, <1>26 DEF Sound

LEMMA SymbolDoneStep ==
  ASSUME Here, SymbolDone, NEW st, NEW nx, NEW la, NEW so, NEW pe, NEW le, NEW ll, NEW po, NEW li, NEW cs,
         Become(st, nx, la, so, pe, le, ll, po, li, cs), NEW fi, NEW en
  PROVE  Sound(st, nx, la, so, pe, le, ll, po, li, cs, fi, en)
<1>0. Sane /\ chunks \in Seq(Chunks) /\ FineList(chunks)
  BY HereIs
<1>1. stage = "pieces" /\ pos > To
  BY DEF SymbolDone
<1>2. /\ left # <<>> /\ ShownLines(chunks, First) /\ pos \in Nat /\ line \in Nat
      /\ ShownBytes(chunks, From, pos)
  BY <1>1, InPieces
<1>3. To \in Nat
  BY <1>2, FirstIs
<1>4. /\ cs = chunks /\ st = "symbols" /\ le = Tail(left) /\ ll = End
      /\ nx = next /\ la = last /\ so = source /\ pe = pend /\ po = pos /\ li = line
  BY DEF SymbolDone, SymbolTaken, Become
<1>5. ASSUME NEW i \in NonBlank(1, Len(text)), From <= i, i <= To PROVE Covered(cs, i)
  <2>1. i \in Nat
    BY <1>0, Shows
  <2>2. i < pos
    BY <1>1, <1>2, <1>3, <1>5, <2>1
  <2>3. QED
    BY <1>2, <1>4, <1>5, <2>2 DEF ShownBytes
<1>6. QED
  BY <1>0, <1>2, <1>4, <1>5, SymbolLeft

------------------------------------------------------------------------------
(* The beginning and the end. *)

LEMMA CapStep ==
  ASSUME Here, Cap, NEW st, NEW nx, NEW la, NEW so, NEW pe, NEW le, NEW ll, NEW po, NEW li, NEW cs,
         Become(st, nx, la, so, pe, le, ll, po, li, cs)
  PROVE  Sound(st, nx, la, so, pe, le, ll, po, li, cs, First, End)
<1>1. /\ st = "kept" /\ cs = SubSeq(chunks, 1, Lesser(Len(chunks), MaxPerFile))
      /\ nx = next /\ la = last /\ so = source /\ pe = pend /\ le = left /\ ll = lastLine /\ po = pos /\ li = line
  BY DEF Cap, Become
<1>2. PICK n \in Nat : n = Lesser(Len(chunks), MaxPerFile) /\ n <= Len(chunks)
  BY HereIs, SizesAssumption DEF Lesser
<1>3. cs \in Seq(Chunks) /\ FineList(cs)
  BY <1>1, <1>2, HereIs, FirstOnes
<1>4. BaseSound(so, le, ll, cs)
  BY <1>1, <1>3, BaseKept
<1>5. TypesSound(st, nx, la, pe, po, li)
  BY <1>1, HereIs DEF TypesSound
<1>6. StageSound(st, nx, la, so, pe, le, ll, po, li, cs, First, End)
  BY <1>1 DEF StageSound
<1>7. QED
  BY <1>4, <1>5, <1>6 DEF Sound

LEMMA ChunkFileStep ==
  ASSUME Here, ChunkFile, NEW st, NEW nx, NEW la, NEW so, NEW pe, NEW le, NEW ll, NEW po, NEW li, NEW cs,
         Become(st, nx, la, so, pe, le, ll, po, li, cs), NEW fi, NEW en
  PROVE  Sound(st, nx, la, so, pe, le, ll, po, li, cs, fi, en)
<1>0. /\ Sane /\ Typed /\ LineCount \in Nat /\ LineCount >= 1 /\ Len(text) \in Nat /\ MaxChars \in Nat
      /\ chunks \in Seq(Chunks) /\ FineList(chunks)
  BY HereIs, SizesAssumption
<1>1. stage = "begin" /\ cs = chunks /\ ll = lastLine /\ li = line
  BY DEF ChunkFile, Become
<1>2. chunks = <<>> /\ left = <<>> /\ lastLine = 0
  BY <1>1, HereIs DEF StageSound
<1>3. ASSUME NEW i \in NonBlank(1, Len(text)) PROVE 1 <= i /\ LineOf(i) \in Nat /\ 1 <= LineOf(i) /\ i \in Nat
  BY <1>0, Shows
<1>4. CASE stage' = "prose" /\ pos' = 1 /\ UNCHANGED <<next, last, source, pend, left>>
  <2>1. st = "prose" /\ po = 1 /\ nx = next /\ la = last /\ so = source /\ pe = pend /\ le = left
    BY <1>4 DEF Become
  <2>2. BaseSound(so, le, ll, cs)
    BY <1>0, <1>1, <2>1, BaseKept
  <2>3. TypesSound(st, nx, la, pe, po, li)
    BY <1>1, <2>1, HereIs DEF TypesSound
  <2>4. ASSUME Len(text) > MaxChars PROVE 1 <= Len(text) /\ RuneStart(1)
    <3>1. 0 < Len(text)
      BY <1>0, <2>4
    <3>2. RuneStart(0 + 1)
      BY <1>0, <3>1, RuneAfter
    <3>3. QED
      BY <1>0, <3>1, <3>2
  <2>5. ShownBytes(cs, 1, po)
    <3>1. ASSUME NEW i \in NonBlank(1, Len(text)) PROVE ~ (1 <= i /\ i < po)
      BY <1>3, <2>1
    <3>2. QED
      BY <3>1 DEF ShownBytes
  <2>6. StageSound(st, nx, la, so, pe, le, ll, po, li, cs, fi, en)
    BY <2>1, <2>4, <2>5 DEF StageSound
  <2>7. QED
    BY <2>2, <2>3, <2>6 DEF Sound
<1>5. CASE /\ Feed(1, IF LineLen(LineCount) = 0 THEN LineCount - 1 ELSE LineCount, "file")
           /\ UNCHANGED <<pos, left>>
  <2>1. /\ st = "lines" /\ nx = 1 /\ la = (IF LineLen(LineCount) = 0 THEN LineCount - 1 ELSE LineCount)
        /\ so = "file" /\ pe = NonePending /\ po = pos /\ le = left
    BY <1>5 DEF Feed, Become
  <2>2. BaseSound(so, le, ll, cs)
    BY <1>1, <2>1, HereIs DEF BaseSound
  <2>3. la \in Nat /\ la <= LineCount /\ (la = LineCount \/ (la + 1 = LineCount /\ LineLen(LineCount) = 0))
    BY <1>0, <2>1
  <2>4. TypesSound(st, nx, la, pe, po, li)
    BY <1>1, <2>1, <2>3, HereIs DEF TypesSound, NonePending
  <2>5. FeedSound(nx, la, so, le, ll, fi)
    BY <1>1, <1>2, <2>1, <2>3 DEF FeedSound
  <2>6. PendSound(pe, nx, so)
    BY <2>1 DEF PendSound, NonePending
  <2>7. \A i \in NonBlank(1, Len(text)) : ~ (LineOf(i) < nx)
    BY <1>3, <2>1
  <2>8. StageSound(st, nx, la, so, pe, le, ll, po, li, cs, fi, en)
    BY <2>1, <2>5, <2>6, <2>7 DEF StageSound
  <2>9. QED
    BY <2>2, <2>4, <2>8 DEF Sound
<1>6. CASE /\ \E S \in Outlines : S # {} /\ Describes(S) /\ left' \in Orders(S)
           /\ stage' = "symbols"
           /\ UNCHANGED <<next, last, source, pend, pos>>
  <2>1. PICK S \in Outlines : Describes(S) /\ left' \in Orders(S)
    BY <1>6
  <2>2. st = "symbols" /\ nx = next /\ la = last /\ so = source /\ pe = pend /\ po = pos /\ le \in Orders(S)
    BY <1>6, <2>1 DEF Become
  <2>3. S \subseteq Nat \X Nat /\ IsFiniteSet(S)
    BY OutlinesAssumption
  <2>4. PICK n \in Nat : n = Cardinality(S)
    BY <2>3, FS_CardinalityType
  <2>5. le \in [1 .. n -> S]
    BY <2>2, <2>4 DEF Orders
  <2>6. le \in Seq(Nat \X Nat) /\ \A k \in DOMAIN le : le[k] \in S
    BY <2>3, <2>5
  <2>7. SymbolsSound(le)
    BY <2>1, <2>6 DEF SymbolsSound, Describes
  <2>8. BaseSound(so, le, ll, cs)
    BY <1>0, <1>1, <1>2, <2>2, <2>6, <2>7, HereIs DEF BaseSound
  <2>9. TypesSound(st, nx, la, pe, po, li)
    BY <1>1, <2>2, HereIs DEF TypesSound
  <2>10. ShownLines(cs, ll + 1)
    <3>1. \A i \in NonBlank(1, Len(text)) : ~ (LineOf(i) < ll + 1)
      BY <1>1, <1>2, <1>3
    <3>2. QED
      BY <3>1 DEF ShownLines
  <2>11. StageSound(st, nx, la, so, pe, le, ll, po, li, cs, fi, en)
    BY <2>2, <2>10 DEF StageSound
  <2>12. QED
    BY <2>8, <2>9, <2>11 DEF Sound
<1>7. QED
  BY <1>4, <1>5, <1>6 DEF ChunkFile

(* The text stays. *)

LEMMA SameLines ==
  ASSUME text' = text
  PROVE  /\ Newlines' = Newlines /\ LineCount' = LineCount
         /\ \A i : LineOf(i)' = LineOf(i)
         /\ \A k : LineFirst(k)' = LineFirst(k)
         /\ \A k : LineLast(k)' = LineLast(k)
         /\ \A k : LineLen(k)' = LineLen(k)
         /\ \A a, b : NonBlank(a, b)' = NonBlank(a, b)
<1>1. Newlines' = Newlines
  BY DEF Newlines
<1>2. LineCount' = LineCount
  BY <1>1 DEF LineCount
<1>3. \A i : LineOf(i)' = LineOf(i)
  BY <1>1 DEF LineOf, LineEnds
<1>4. ASSUME NEW k PROVE {i \in Newlines' : LineOf(i)' = k} = {i \in Newlines : LineOf(i) = k}
  BY <1>1, <1>3
<1>5. ASSUME NEW k PROVE LineFirst(k)' = LineFirst(k)
  BY <1>4 DEF LineFirst
<1>6. ASSUME NEW k PROVE LineLast(k)' = LineLast(k)
  BY <1>2, <1>4 DEF LineLast
<1>7. ASSUME NEW k PROVE LineLen(k)' = LineLen(k)
  BY <1>5, <1>6 DEF LineLen
<1>8. ASSUME NEW a, NEW b PROVE NonBlank(a, b)' = NonBlank(a, b)
  BY DEF NonBlank
<1>9. QED
  BY <1>1, <1>2, <1>3, <1>5, <1>6, <1>7, <1>8

LEMMA SameCuts ==
  ASSUME text' = text
  PROVE  /\ \A i : RuneStart(i)' <=> RuneStart(i)
         /\ \A c : FineCut(c)' <=> FineCut(c)
         /\ \A c : Unsplittable(c)' <=> Unsplittable(c)
         /\ \A c : LinesTrue(c)' <=> LinesTrue(c)
<1>1. \A i : RuneStart(i)' <=> RuneStart(i)
  BY DEF RuneStart
<1>2. ASSUME NEW c PROVE FineCut(c)' <=> FineCut(c)
  BY DEF FineCut, RuneStart
<1>3. ASSUME NEW c PROVE Unsplittable(c)' <=> Unsplittable(c)
  BY DEF Unsplittable
<1>4. ASSUME NEW c PROVE LinesTrue(c)' <=> LinesTrue(c)
  <2>1. \A i : LineOf(i)' = LineOf(i)
    BY SameLines
  <2>2. LineOf(c.from)' = LineOf(c.from) /\ LineOf(c.to)' = LineOf(c.to)
    BY <2>1
  <2>3. QED
    BY <2>2 DEF LinesTrue
<1>5. QED
  BY <1>1, <1>2, <1>3, <1>4

LEMMA SameShown ==
  ASSUME text' = text
  PROVE  /\ \A cs, n : ShownLines(cs, n)' <=> ShownLines(cs, n)
         /\ \A cs, a, n : ShownBytes(cs, a, n)' <=> ShownBytes(cs, a, n)
         /\ \A cs : FineList(cs)' <=> FineList(cs)
         /\ \A i : Beyond(i)' <=> Beyond(i)
         /\ \A le : SymbolsSound(le)' <=> SymbolsSound(le)
<1>1. PICK nb : nb = NonBlank(1, Len(text)) /\ nb = NonBlank(1, Len(text))'
  BY DEF NonBlank
<1>2. \A i : LineOf(i)' = LineOf(i)
  BY SameLines
<1>3. ASSUME NEW cs, NEW n PROVE ShownLines(cs, n)' <=> ShownLines(cs, n)
  BY <1>1, <1>2, Zenon DEF ShownLines
<1>4. ASSUME NEW cs, NEW a, NEW n PROVE ShownBytes(cs, a, n)' <=> ShownBytes(cs, a, n)
  BY <1>1, Zenon DEF ShownBytes
<1>5. ASSUME NEW cs PROVE FineList(cs)' <=> FineList(cs)
  <2>1. ASSUME NEW k
        PROVE  /\ FineCut(cs[k])' <=> FineCut(cs[k])
               /\ Unsplittable(cs[k])' <=> Unsplittable(cs[k])
               /\ LinesTrue(cs[k])' <=> LinesTrue(cs[k])
               /\ Before(cs, k)' <=> Before(cs, k)
    <3>1. PICK c, d : c = cs[k] /\ d = cs[k - 1]
      OBVIOUS
    <3>2. (FineCut(c)' <=> FineCut(c)) /\ (Unsplittable(c)' <=> Unsplittable(c)) /\ (LinesTrue(c)' <=> LinesTrue(c))
          /\ (Unsplittable(d)' <=> Unsplittable(d))
      BY SameCuts
    <3>3. QED
      BY <3>1, <3>2 DEF Before
  <2>2. QED
    BY <2>1, Zenon DEF FineList
<1>6. ASSUME NEW i PROVE Beyond(i)' <=> Beyond(i)
  <2>1. LineOf(i)' = LineOf(i) /\ \A k : LineLen(k)' = LineLen(k)
    BY SameLines
  <2>2. QED
    BY <2>1, Zenon DEF Beyond
<1>7. ASSUME NEW le PROVE SymbolsSound(le)' <=> SymbolsSound(le)
  <2>1. LineCount' = LineCount
    BY SameLines
  <2>2. ASSUME NEW k PROVE IsBlank(k)' <=> IsBlank(k)
    <3>1. PICK x, y : x = LineFirst(k) /\ y = LineLast(k) /\ x = LineFirst(k)' /\ y = LineLast(k)'
      BY SameLines
    <3>2. NonBlank(x, y)' = NonBlank(x, y)
      BY SameLines
    <3>3. QED
      BY <3>1, <3>2 DEF IsBlank
  <2>3. ASSUME NEW k PROVE IsBlank(le[k][1])' <=> IsBlank(le[k][1])
    <3>1. PICK x : x = le[k][1]
      OBVIOUS
    <3>2. IsBlank(x)' <=> IsBlank(x)
      BY <2>2
    <3>3. QED
      BY <3>1, <3>2
  <2>4. QED
    BY <2>1, <2>3, Zenon DEF SymbolsSound
<1>8. QED
  BY <1>3, <1>4, <1>5, <1>6, <1>7

LEMMA SoundKept ==
  ASSUME text' = text, NEW st, NEW nx, NEW la, NEW so, NEW pe, NEW le, NEW ll, NEW po, NEW li, NEW cs,
         NEW fi, NEW en, Sound(st, nx, la, so, pe, le, ll, po, li, cs, fi, en)
  PROVE  Sound(st, nx, la, so, pe, le, ll, po, li, cs, fi, en)'
<1>1. BaseSound(so, le, ll, cs)'
  <2>1. (FineList(cs)' <=> FineList(cs)) /\ (SymbolsSound(le)' <=> SymbolsSound(le)) /\ LineCount' = LineCount
    BY SameLines, SameShown
  <2>2. BaseSound(so, le, ll, cs)
    BY DEF Sound
  <2>3. QED
    BY <2>1, <2>2 DEF BaseSound
<1>2. PendSound(pe, nx, so)' <=> PendSound(pe, nx, so)
  <2>1. PICK x, y : x = pe.first /\ y = pe.last
    OBVIOUS
  <2>2. LineCount' = LineCount /\ LineFirst(x)' = LineFirst(x) /\ LineLast(y)' = LineLast(y)
    BY SameLines
  <2>3. PendExtra(pe, so)' = PendExtra(pe, so)
    BY <2>2 DEF PendExtra
  <2>4. QED
    BY <2>1, <2>2, <2>3 DEF PendSound
<1>3. FeedSound(nx, la, so, le, ll, fi)' <=> FeedSound(nx, la, so, le, ll, fi)
  <2>1. PICK n : n = LineCount /\ n = LineCount'
    BY SameLines
  <2>2. LineLen(n)' = LineLen(n)
    BY SameLines
  <2>3. QED
    BY <2>1, <2>2 DEF FeedSound
<1>4. PICK nb : nb = NonBlank(1, Len(text)) /\ nb = NonBlank(1, Len(text))'
  BY DEF NonBlank
<1>5. (\A i : LineOf(i)' = LineOf(i)) /\ (\A i : Beyond(i)' <=> Beyond(i)) /\ LineOf(po)' = LineOf(po)
  BY SameLines, SameShown
<1>6. (RuneStart(po)' <=> RuneStart(po)) /\ (Unsplittable(cs[Len(cs)])' <=> Unsplittable(cs[Len(cs)]))
  <2>1. PICK c : c = cs[Len(cs)]
    OBVIOUS
  <2>2. (RuneStart(po)' <=> RuneStart(po)) /\ (Unsplittable(c)' <=> Unsplittable(c))
    BY SameCuts
  <2>3. QED
    BY <2>1, <2>2
<1>7. /\ LineFirst(nx)' = LineFirst(nx) /\ LineLast(nx)' = LineLast(nx)
      /\ LineFirst(fi)' = LineFirst(fi) /\ LineLast(en)' = LineLast(en)
  BY SameLines
<1>8. /\ ShownLines(cs, nx)' <=> ShownLines(cs, nx)
      /\ ShownLines(cs, fi)' <=> ShownLines(cs, fi)
      /\ ShownLines(cs, ll + 1)' <=> ShownLines(cs, ll + 1)
      /\ ShownBytes(cs, 1, po)' <=> ShownBytes(cs, 1, po)
      /\ ShownBytes(cs, LineFirst(nx), po)' <=> ShownBytes(cs, LineFirst(nx), po)
      /\ ShownBytes(cs, LineFirst(fi), po)' <=> ShownBytes(cs, LineFirst(fi), po)
  <2>1. PICK x, y, z : /\ x = LineFirst(nx) /\ x = LineFirst(nx)' /\ y = LineFirst(fi) /\ y = LineFirst(fi)'
                       /\ z = ll + 1
    BY <1>7
  <2>2. /\ ShownLines(cs, nx)' <=> ShownLines(cs, nx)
        /\ ShownLines(cs, fi)' <=> ShownLines(cs, fi)
        /\ ShownLines(cs, z)' <=> ShownLines(cs, z)
        /\ ShownBytes(cs, 1, po)' <=> ShownBytes(cs, 1, po)
        /\ ShownBytes(cs, x, po)' <=> ShownBytes(cs, x, po)
        /\ ShownBytes(cs, y, po)' <=> ShownBytes(cs, y, po)
    BY SameShown
  <2>3. QED
    BY <2>1, <2>2
<1>9. StageSound(st, nx, la, so, pe, le, ll, po, li, cs, fi, en)
  BY DEF Sound
<1>10. StageSound(st, nx, la, so, pe, le, ll, po, li, cs, fi, en)'
  <2>1. (st = "begin" => cs = <<>> /\ le = <<>> /\ ll = 0)
    BY <1>9, Zenon DEF StageSound
  <2>2. (st = "lines" =>
           /\ FeedSound(nx, la, so, le, ll, fi)
           /\ PendSound(pe, nx, so)
           /\ \A i \in NonBlank(1, Len(text)) : LineOf(i) < nx => Covered(cs, i) \/ InPend(pe, i))'
    <3>1. SUFFICES ASSUME st = "lines"
                   PROVE  /\ FeedSound(nx, la, so, le, ll, fi)'
                          /\ PendSound(pe, nx, so)'
                          /\ \A i \in nb : LineOf(i)' < nx => Covered(cs, i) \/ InPend(pe, i)
      BY <1>4 DEF Covered, InPend, Covers
    <3>2. /\ FeedSound(nx, la, so, le, ll, fi) /\ PendSound(pe, nx, so)
          /\ \A i \in nb : LineOf(i) < nx => Covered(cs, i) \/ InPend(pe, i)
      BY <1>4, <1>9, <3>1, Zenon DEF StageSound
    <3>3. ASSUME NEW i \in nb, LineOf(i)' < nx PROVE Covered(cs, i) \/ InPend(pe, i)
      <4>1. LineOf(i) < nx
        BY <1>5, <3>3
      <4>2. QED
        BY <3>2, <4>1, Zenon
    <3>4. QED
      BY <1>2, <1>3, <3>2, <3>3, Zenon
  <2>3. (st = "cuts" =>
           /\ FeedSound(nx, la, so, le, ll, fi) /\ nx <= la
           /\ pe = NonePending
           /\ LineFirst(nx) <= po /\ po <= LineLast(nx) /\ RuneStart(po)
           /\ ShownLines(cs, nx) /\ ShownBytes(cs, LineFirst(nx), po))'
    <3>1. st = "cuts" => /\ FeedSound(nx, la, so, le, ll, fi) /\ nx <= la
                         /\ pe = NonePending
                         /\ LineFirst(nx) <= po /\ po <= LineLast(nx) /\ RuneStart(po)
                         /\ ShownLines(cs, nx) /\ ShownBytes(cs, LineFirst(nx), po)
      BY <1>9, Zenon DEF StageSound
    <3>2. QED
      BY <1>3, <1>6, <1>7, <1>8, <3>1 DEF NonePending
  <2>4. (st = "symbols" => ShownLines(cs, ll + 1))'
    BY <1>8, <1>9 DEF StageSound
  <2>5. (st \in {"emit", "pieces"} => le # <<>> /\ ShownLines(cs, fi))'
    BY <1>8, <1>9 DEF StageSound
  <2>6. (st = "pieces" =>
           /\ LineFirst(fi) <= po /\ po <= LineLast(en) + 1
           /\ ShownBytes(cs, LineFirst(fi), po)
           /\ LineOf(po) <= li
           /\ \/ po = LineLast(en) + 1
              \/ RuneStart(po)
              \/ cs # <<>> /\ Unsplittable(cs[Len(cs)]))'
    <3>1. st = "pieces" => /\ LineFirst(fi) <= po /\ po <= LineLast(en) + 1
                           /\ ShownBytes(cs, LineFirst(fi), po)
                           /\ LineOf(po) <= li
                           /\ \/ po = LineLast(en) + 1
                              \/ RuneStart(po)
                              \/ cs # <<>> /\ Unsplittable(cs[Len(cs)])
      BY <1>9, Zenon DEF StageSound
    <3>2. QED
      BY <1>5, <1>6, <1>7, <1>8, <3>1
  <2>7. (st = "prose" =>
           /\ 1 <= po
           /\ Len(text) > MaxChars => po <= Len(text) /\ RuneStart(po)
           /\ ShownBytes(cs, 1, po))'
    <3>1. st = "prose" => /\ 1 <= po
                          /\ Len(text) > MaxChars => po <= Len(text) /\ RuneStart(po)
                          /\ ShownBytes(cs, 1, po)
      BY <1>9, Zenon DEF StageSound
    <3>2. QED
      BY <1>6, <1>8, <3>1
  <2>8. (st = "cap" =>
           \A i \in NonBlank(1, Len(text)) : Covered(cs, i) \/ (le = <<>> /\ ll = 0 /\ Beyond(i)))'
    <3>1. SUFFICES ASSUME st = "cap"
                   PROVE  \A i \in nb : Covered(cs, i) \/ (le = <<>> /\ ll = 0 /\ Beyond(i)')
      BY <1>4 DEF Covered, Covers
    <3>2. \A i \in nb : Covered(cs, i) \/ (le = <<>> /\ ll = 0 /\ Beyond(i))
      BY <1>4, <1>9, <3>1, Zenon DEF StageSound
    <3>3. QED
      BY <1>5, <3>2, Zenon
  <2>9. QED
    BY <2>1, <2>2, <2>3, <2>4, <2>5, <2>6, <2>7, <2>8, Zenon DEF StageSound
<1>11. TypesSound(st, nx, la, pe, po, li)'
  BY DEF Sound, TypesSound
<1>12. QED
  BY <1>1, <1>10, <1>11, Zenon DEF Sound

------------------------------------------------------------------------------
LEMMA ChunkInvInit == ChunkInit => ChunkInv
<1> SUFFICES ASSUME NEW t \in Texts, Start(t) PROVE ChunkInv
  BY DEF ChunkInit
<1>1. Sane
  BY TextsAssumption DEF Start, Sane, Valid
<1>2. Typed /\ LineCount \in Nat
  BY <1>1, LineType DEF Sane, Typed
<1>3. ASSUME NEW st, NEW nx, NEW la, NEW so, NEW pe, NEW le, NEW ll, NEW po, NEW li, NEW cs, NEW fi, NEW en,
             st = stage, nx = next, la = last, so = source, pe = pend, le = left,
             ll = lastLine, po = pos, li = line, cs = chunks
      PROVE  Sound(st, nx, la, so, pe, le, ll, po, li, cs, fi, en)
  <2>1. /\ st = "begin" /\ nx = 0 /\ la = 0 /\ so = "file" /\ pe = NonePending /\ le = <<>> /\ ll = 0
        /\ po = 0 /\ li = 0 /\ cs = <<>>
    BY <1>3 DEF Start
  <2>2. TypesSound(st, nx, la, pe, po, li)
    BY <2>1 DEF TypesSound, NonePending
  <2>3. BaseSound(so, le, ll, cs)
    BY <1>2, <2>1 DEF BaseSound, FineList, SymbolsSound
  <2>4. StageSound(st, nx, la, so, pe, le, ll, po, li, cs, fi, en)
    BY <2>1 DEF StageSound
  <2>5. QED
    BY <2>2, <2>3, <2>4 DEF Sound
<1>4. QED
  BY <1>1, <1>3 DEF ChunkInv

LEMMA ChunkInvNext == ChunkInv /\ [ChunkStep]_chunkerVars => ChunkInv'
<1> SUFFICES ASSUME ChunkInv, [ChunkStep]_chunkerVars PROVE ChunkInv'
  OBVIOUS
<1>1. Here
  BY Zenon DEF ChunkInv, Here
<1>2. text' = text
  BY DEF ChunkStep, chunkerVars, ChunkFile, TakeBlank, TakeOversized, TakeCut, TakeLine, EndLines, TakeWhole,
         TakeWindow, TakeGap, TakeTail, EmitSymbol, SplitSymbol, TakePiece, SymbolDone, Cap
<1>3. Sane'
  BY <1>1, <1>2 DEF Here, Sane, Valid
<1>4. ASSUME NEW st, NEW nx, NEW la, NEW so, NEW pe, NEW le, NEW ll, NEW po, NEW li, NEW cs, NEW fi, NEW en,
             Become(st, nx, la, so, pe, le, ll, po, li, cs), fi = First', en = End'
      PROVE  Sound(st, nx, la, so, pe, le, ll, po, li, cs, fi, en)
  <2>0. ASSUME left' = left, lastLine' = lastLine PROVE fi = First /\ en = End
    <3>1. LineCount' = LineCount
      BY <1>2, SameLines
    <3>2. End' = End
      BY <2>0, <3>1 DEF End, Lesser
    <3>3. ASSUME NEW k PROVE IsComment(k)' <=> IsComment(k)
      <4>1. PICK x, y : x = LineFirst(k) /\ y = LineLast(k) /\ x = LineFirst(k)' /\ y = LineLast(k)'
        BY <1>2, SameLines
      <4>2. NonBlank(x, y)' = NonBlank(x, y)
        BY <1>2, SameLines
      <4>3. QED
        BY <1>2, <4>1, <4>2 DEF IsComment, IsBlank
    <3>4. PICK f : f = Head(left)[1] /\ f = Head(left')[1]
      BY <2>0
    <3>5. DocStart(f)' = DocStart(f)
      <4>1. {k \in 1 .. f : k = f \/ (k > lastLine' /\ \A j \in k .. (f - 1) : IsComment(j)')}
              = {k \in 1 .. f : k = f \/ (k > lastLine /\ \A j \in k .. (f - 1) : IsComment(j))}
        BY <2>0, <3>3
      <4>2. QED
        BY <4>1, Zenon DEF DocStart
    <3>6. First' = First
      BY <3>4, <3>5 DEF First
    <3>7. QED
      BY <1>4, <3>2, <3>6
  <2>1. CASE UNCHANGED chunkerVars
    <3>1. /\ st = stage /\ nx = next /\ la = last /\ so = source /\ pe = pend /\ le = left
          /\ ll = lastLine /\ po = pos /\ li = line /\ cs = chunks
      BY <1>4, <2>1 DEF chunkerVars, Become
    <3>2. fi = First /\ en = End
      BY <2>0, <2>1 DEF chunkerVars
    <3>3. QED
      BY <1>1, <3>1, <3>2, Zenon DEF Here
  <2>2. CASE ChunkFile
    BY <1>1, <1>4, <2>2, ChunkFileStep, Zenon
  <2>3. CASE TakeBlank
    <3>1. fi = First /\ en = End
      BY <2>0, <2>3 DEF TakeBlank
    <3>2. QED
      BY <1>1, <1>4, <2>3, <3>1, TakeBlankStep, Zenon
  <2>4. CASE TakeOversized
    <3>1. fi = First /\ en = End
      BY <2>0, <2>4 DEF TakeOversized
    <3>2. QED
      BY <1>1, <1>4, <2>4, <3>1, TakeOversizedStep, Zenon
  <2>5. CASE TakeCut
    <3>1. fi = First /\ en = End
      BY <2>0, <2>5 DEF TakeCut
    <3>2. QED
      BY <1>1, <1>4, <2>5, <3>1, TakeCutStep, Zenon
  <2>6. CASE TakeLine
    <3>1. fi = First /\ en = End
      BY <2>0, <2>6 DEF TakeLine
    <3>2. QED
      BY <1>1, <1>4, <2>6, <3>1, TakeLineStep, Zenon
  <2>7. CASE EndLines
    <3>1. fi = First /\ en = End
      BY <2>0, <2>7 DEF EndLines
    <3>2. QED
      BY <1>1, <1>4, <2>7, <3>1, EndLinesStep, Zenon
  <2>8. CASE TakeWhole
    <3>1. fi = First /\ en = End
      BY <2>0, <2>8 DEF TakeWhole
    <3>2. QED
      BY <1>1, <1>4, <2>8, <3>1, TakeWholeStep, Zenon
  <2>9. CASE TakeWindow
    <3>1. fi = First /\ en = End
      BY <2>0, <2>9 DEF TakeWindow
    <3>2. QED
      BY <1>1, <1>4, <2>9, <3>1, TakeWindowStep, Zenon
  <2>10. CASE TakeGap
    <3>1. fi = First /\ en = End
      BY <2>0, <2>10 DEF TakeGap
    <3>2. QED
      BY <1>1, <1>4, <2>10, <3>1, TakeGapStep, Zenon
  <2>11. CASE TakeTail
    <3>1. fi = First /\ en = End
      BY <2>0, <2>11 DEF TakeTail
    <3>2. QED
      BY <1>1, <1>4, <2>11, <3>1, TakeTailStep, Zenon
  <2>12. CASE EmitSymbol
    BY <1>1, <1>4, <2>12, EmitSymbolStep, Zenon
  <2>13. CASE SplitSymbol
    <3>1. fi = First /\ en = End
      BY <2>0, <2>13 DEF SplitSymbol
    <3>2. QED
      BY <1>1, <1>4, <2>13, <3>1, SplitSymbolStep, Zenon
  <2>14. CASE TakePiece
    <3>1. fi = First /\ en = End
      BY <2>0, <2>14 DEF TakePiece
    <3>2. QED
      BY <1>1, <1>4, <2>14, <3>1, TakePieceStep, Zenon
  <2>15. CASE SymbolDone
    BY <1>1, <1>4, <2>15, SymbolDoneStep, Zenon
  <2>16. CASE Cap
    <3>1. fi = First /\ en = End
      BY <2>0, <2>16 DEF Cap
    <3>2. QED
      BY <1>1, <1>4, <2>16, <3>1, CapStep, Zenon
  <2>17. QED
    BY <2>1, <2>2, <2>3, <2>4, <2>5, <2>6, <2>7, <2>8, <2>9, <2>10, <2>11, <2>12, <2>13, <2>14, <2>15, <2>16
       DEF ChunkStep
<1>5. ASSUME NEW st, NEW nx, NEW la, NEW so, NEW pe, NEW le, NEW ll, NEW po, NEW li, NEW cs, NEW fi, NEW en,
             Become(st, nx, la, so, pe, le, ll, po, li, cs), fi = First', en = End'
      PROVE  Sound(st, nx, la, so, pe, le, ll, po, li, cs, fi, en)'
  BY <1>2, <1>4, <1>5, SoundKept, Zenon
<1>6. QED
  BY <1>3, <1>5 DEF ChunkInv, Become

LEMMA ChunkInvEnough == ChunkInv => ChunksFaithful
<1> SUFFICES ASSUME ChunkInv PROVE ChunksFaithful
  OBVIOUS
<1>1. Here
  BY Zenon DEF ChunkInv, Here
<1>2. NothingLost
  <2>1. SUFFICES ASSUME stage = "cap", NEW i \in NonBlank(1, Len(text))
                 PROVE  (\E k \in DOMAIN chunks : Covers(chunks[k], i)) \/ (left = <<>> /\ lastLine = 0 /\ Beyond(i))
    BY DEF NothingLost
  <2>2. Covered(chunks, i) \/ (left = <<>> /\ lastLine = 0 /\ Beyond(i))
    BY <1>1, <2>1, HereIs DEF StageSound
  <2>3. QED
    BY <2>2 DEF Covered
<1>3. ChunksFit
  <2>1. FineList(chunks)
    BY <1>1, HereIs
  <2>2. QED
    BY <2>1, Zenon DEF FineList, ChunksFit, WellCut, FineCut, Before
<1>4. QED
  BY <1>2, <1>3 DEF ChunksFaithful

\* The chunks of a file, of any text of whole runes and with any sizes, hold all of
\* it that is not blank unless a line is too long for the scanner (chunkCode), are
\* no larger than maxChars and cut between runes but for the pieces of a symbol
\* whose first half is all longer runes (cutSymbolPiece), and name lines that hold
\* their text.
THEOREM ChunksAreFaithful == ChunkSpec => []ChunksFaithful
<1>1. ChunkInit => ChunkInv
  BY ChunkInvInit
<1>2. ChunkInv /\ [ChunkStep]_chunkerVars => ChunkInv'
  BY ChunkInvNext
<1>3. ChunkInv => ChunksFaithful
  BY ChunkInvEnough
<1>4. QED
  BY <1>1, <1>2, <1>3, PTL DEF ChunkSpec

------------------------------------------------------------------------------
(* Recursive functions on 0 .. n and on 1 .. n. *)

\* A function defined step by step exists: the least length for which none
\* does is a length for which one more step makes one.
LEMMA StepByStep ==
  ASSUME NEW S, NEW start \in S, NEW n \in Nat, NEW step \in [1 .. n -> [S -> S]]
  PROVE  \E f \in [0 .. n -> S] : f[0] = start /\ \A i \in 1 .. n : f[i] = step[i][f[i - 1]]
  <1> DEFINE Good(m) == \E f \in [0 .. m -> S] : f[0] = start /\ \A i \in 1 .. m : f[i] = step[i][f[i - 1]]
             Bad == {m \in 0 .. n : ~Good(m)}
  <1>1. ASSUME Bad # {} PROVE FALSE
    <2>1. Bad \in SUBSET Nat
      OBVIOUS
    <2>2. PICK m \in Bad : \A j \in Bad : m <= j
      BY <1>1, <2>1, LeastIs
    <2>3. Good(0)
      <3> DEFINE f == [i \in 0 .. 0 |-> start]
      <3>1. f \in [0 .. 0 -> S] /\ f[0] = start /\ \A i \in 1 .. 0 : f[i] = step[i][f[i - 1]]
        OBVIOUS
      <3>2. QED
        BY <3>1, Zenon
    <2>4. m \in 1 .. n /\ m - 1 \in 0 .. n /\ ~(m <= m - 1)
      <3>1. m \in 0 .. n /\ m # 0
        BY <2>3
      <3>2. QED
        BY <3>1
    <2>5. Good(m - 1)
      BY <2>2, <2>4, Zenon
    <2>6. PICK f \in [0 .. (m - 1) -> S] : f[0] = start /\ \A i \in 1 .. (m - 1) : f[i] = step[i][f[i - 1]]
      BY <2>5, Zenon
    <2> DEFINE g == [i \in 0 .. m |-> IF i = m THEN step[m][f[m - 1]] ELSE f[i]]
    <2>7. m - 1 \in 0 .. (m - 1) /\ f[m - 1] \in S /\ step[m][f[m - 1]] \in S
      BY <2>4, <2>6
    <2>8. \A i \in 0 .. (m - 1) : g[i] = f[i] /\ f[i] \in S
      BY <2>4, <2>6
    <2>9. g \in [0 .. m -> S]
      <3>1. \A i \in 0 .. m : i # m => i \in 0 .. (m - 1)
        BY <2>4
      <3>2. QED
        BY <3>1, <2>7, <2>8
    <2>10. g[0] = start
      BY <2>4, <2>6
    <2>11. ASSUME NEW i \in 1 .. m PROVE g[i] = step[i][g[i - 1]]
      <3>1. i - 1 \in 0 .. (m - 1) /\ i \in 0 .. m
        BY <2>4
      <3>2. g[i - 1] = f[i - 1]
        BY <2>8, <3>1, Zenon
      <3>3. CASE i = m
        BY <3>1, <3>2, <3>3
      <3>4. CASE i # m
        <4>1. i \in 1 .. (m - 1)
          BY <2>4, <3>4
        <4>2. g[i] = f[i]
          BY <3>1, <3>4
        <4>3. QED
          BY <4>1, <4>2, <2>6, <3>2
      <3>5. QED
        BY <3>3, <3>4
    <2> HIDE DEF g
    <2>12. Good(m)
      BY <2>9, <2>10, <2>11, Zenon
    <2>13. QED
      BY <2>2, <2>12
  <1>2. n \in 0 .. n
    OBVIOUS
  <1>3. Good(n)
    BY <1>1, <1>2, Zenon
  <1>4. QED
    BY <1>3, Zenon
------------------------------------------------------------------------------
(* Documents. *)

\* What the parser of RTF does with one part.
RTFStep(part, s) ==
  CASE part = "begin" -> [s EXCEPT !.depth = @ + 1]
    [] part = "end" -> [depth |-> s.depth - 1, skip |-> IF s.skip = s.depth THEN -1 ELSE s.skip]
    [] part \in {"star", "dest"} -> [s EXCEPT !.skip = IF @ < 0 THEN s.depth ELSE @]
    [] OTHER -> s

RTFStates == [depth : Int, skip : Int]

LEMMA RTFStepType ==
  ASSUME NEW part, NEW s \in RTFStates
  PROVE  RTFStep(part, s) \in RTFStates
  <1>1. s.depth \in Int /\ s.skip \in Int
    BY DEF RTFStates
  <1>2. CASE part = "begin"
    <2>1. RTFStep(part, s) = [s EXCEPT !.depth = s.depth + 1]
      BY <1>2, Zenon DEF RTFStep
    <2>2. QED
      BY <1>1, <2>1 DEF RTFStates
  <1>3. CASE part = "end"
    <2> DEFINE k == IF s.skip = s.depth THEN -1 ELSE s.skip
    <2>1. RTFStep(part, s) = [depth |-> s.depth - 1, skip |-> k]
      BY <1>3 DEF RTFStep
    <2>2. k \in Int
      BY <1>1
    <2> HIDE DEF k
    <2>3. QED
      BY <1>1, <2>1, <2>2 DEF RTFStates
  <1>4. CASE part \in {"star", "dest"}
    BY <1>1, <1>4 DEF RTFStep, RTFStates
  <1>5. QED
    BY <1>2, <1>3, <1>4 DEF RTFStep

LEMMA RTFRuns ==
  ASSUME NEW parts, NEW n \in Nat, Len(parts) = n
  PROVE  /\ RTFState(parts) \in [0 .. n -> RTFStates]
         /\ RTFState(parts)[0] = [depth |-> 0, skip |-> -1]
         /\ \A i \in 1 .. n : RTFState(parts)[i] = RTFStep(parts[i], RTFState(parts)[i - 1])
  <1> DEFINE begin == [depth |-> 0, skip |-> -1]
             F(g) == [i \in 0 .. Len(parts) |->
                        IF i = 0 THEN [depth |-> 0, skip |-> -1]
                        ELSE CASE parts[i] = "begin" -> [g[i - 1] EXCEPT !.depth = @ + 1]
                               [] parts[i] = "end" -> [depth |-> g[i - 1].depth - 1,
                                     skip |-> IF g[i - 1].skip = g[i - 1].depth THEN -1 ELSE g[i - 1].skip]
                               [] parts[i] \in {"star", "dest"} -> [g[i - 1] EXCEPT !.skip = IF @ < 0 THEN g[i - 1].depth ELSE @]
                               [] OTHER -> g[i - 1]]
             step == [i \in 1 .. n |-> [s \in RTFStates |-> RTFStep(parts[i], s)]]
  <1>1. RTFState(parts) = CHOOSE g : g = F(g)
    BY DEF RTFState
  <1>2. \A g : F(g) = [i \in 0 .. n |-> IF i = 0 THEN begin ELSE RTFStep(parts[i], g[i - 1])]
    BY DEF RTFStep
  <1> HIDE DEF F
  <1>3. \E f \in [0 .. n -> RTFStates] : f[0] = begin /\ \A i \in 1 .. n : f[i] = step[i][f[i - 1]]
    <2>1. begin \in RTFStates
      BY DEF RTFStates
    <2>2. step \in [1 .. n -> [RTFStates -> RTFStates]]
      BY RTFStepType
    <2> HIDE DEF step, begin
    <2>3. QED
      BY <2>1, <2>2, StepByStep
  <1>4. PICK f \in [0 .. n -> RTFStates] : f[0] = begin /\ \A i \in 1 .. n : f[i] = step[i][f[i - 1]]
    BY <1>3
  <1>5. \A i \in 1 .. n : f[i] = RTFStep(parts[i], f[i - 1])
    <2> SUFFICES ASSUME NEW i \in 1 .. n PROVE f[i] = RTFStep(parts[i], f[i - 1])
      OBVIOUS
    <2>1. i - 1 \in 0 .. n
      OBVIOUS
    <2>2. QED
      BY <2>1, <1>4
  <1> HIDE DEF step, begin
  <1>6. f = F(f)
    <2>1. f = [i \in 0 .. n |-> f[i]]
      BY <1>4
    <2>2. ASSUME NEW i \in 0 .. n PROVE f[i] = IF i = 0 THEN begin ELSE RTFStep(parts[i], f[i - 1])
      <3>1. i # 0 => i \in 1 .. n
        OBVIOUS
      <3>2. QED
        BY <1>4, <1>5, <3>1, Zenon
    <2>3. QED
      BY <1>2, <2>1, <2>2, Zenon
  <1>7. RTFState(parts) = F(RTFState(parts))
    BY <1>1, <1>6, Zenon
  <1> DEFINE r == RTFState(parts)
  <1>8. r = [i \in 0 .. n |-> IF i = 0 THEN begin ELSE RTFStep(parts[i], r[i - 1])]
    BY <1>2, <1>7, Zenon
  <1> HIDE DEF r
  <1>9. r[0] = begin /\ \A i \in 1 .. n : r[i] = RTFStep(parts[i], r[i - 1])
    BY <1>8
  <1> DEFINE Wrong == {i \in 0 .. n : r[i] \notin RTFStates}
  <1>10. Wrong = {}
    <2> SUFFICES ASSUME Wrong # {} PROVE FALSE
      OBVIOUS
    <2>1. PICK m \in Wrong : \A j \in Wrong : m <= j
      <3>1. Wrong \in SUBSET Nat
        OBVIOUS
      <3>2. QED
        BY <3>1, LeastIs
    <2>2. m \in 0 .. n /\ r[m] \notin RTFStates
      OBVIOUS
    <2>3. m # 0
      BY <1>9, <2>2 DEF begin, RTFStates
    <2>4. m \in 1 .. n /\ m - 1 \in 0 .. n /\ ~(m <= m - 1)
      BY <2>2, <2>3
    <2>5. r[m - 1] \in RTFStates
      BY <2>1, <2>4
    <2>6. QED
      BY <1>9, <2>2, <2>4, <2>5, RTFStepType
  <1>11. r \in [0 .. n -> RTFStates]
    BY <1>8, <1>10, Zenon
  <1>12. QED
    BY <1>9, <1>11 DEF r, begin

\* How the depth of groups changes from one part to the next.
LEMMA CountUpTo ==
  ASSUME NEW S, NEW k \in Nat, k # 0
  PROVE  /\ Cardinality(S \cap (1 .. k)) \in Nat
         /\ Cardinality(S \cap (1 .. (k - 1))) \in Nat
         /\ k \in S => Cardinality(S \cap (1 .. k)) = Cardinality(S \cap (1 .. (k - 1))) + 1
         /\ k \notin S => Cardinality(S \cap (1 .. k)) = Cardinality(S \cap (1 .. (k - 1)))
  <1> DEFINE T == S \cap (1 .. (k - 1))
  <1>1. IsFiniteSet(T) /\ k \notin T
    <2>1. IsFiniteSet(1 .. (k - 1))
      BY FS_Interval
    <2>2. QED
      BY <2>1, FS_Subset
  <1>2. S \cap (1 .. k) = IF k \in S THEN T \cup {k} ELSE T
    OBVIOUS
  <1> HIDE DEF T
  <1>3. Cardinality(T) \in Nat
    BY <1>1, FS_CardinalityType
  <1>4. Cardinality(T \cup {k}) = Cardinality(T) + 1
    BY <1>1, FS_AddElement
  <1>5. S \cap (1 .. (k - 1)) = T
    BY DEF T
  <1>6. CASE k \in S
    BY <1>2, <1>3, <1>4, <1>5, <1>6
  <1>7. CASE k \notin S
    BY <1>2, <1>3, <1>5, <1>7
  <1>8. QED
    BY <1>6, <1>7

LEMMA GroupsStep ==
  ASSUME NEW parts, NEW n \in Nat, DOMAIN parts = 1 .. n, NEW k \in 1 .. n
  PROVE  /\ Groups(parts, k) \in Int /\ Groups(parts, k - 1) \in Int
         /\ parts[k] = "begin" => Groups(parts, k) = Groups(parts, k - 1) + 1
         /\ parts[k] = "end" => Groups(parts, k) = Groups(parts, k - 1) - 1
         /\ parts[k] \notin {"begin", "end"} => Groups(parts, k) = Groups(parts, k - 1)
  <1> DEFINE A == Of(parts, {"begin"})
             B == Of(parts, {"end"})
  <1>1. A \in SUBSET (1 .. n) /\ B \in SUBSET (1 .. n)
    BY DEF Of
  <1>2. (k \in A <=> parts[k] = "begin") /\ (k \in B <=> parts[k] = "end")
    BY DEF Of
  <1> DEFINE a == Cardinality(A \cap (1 .. k))
             b == Cardinality(B \cap (1 .. k))
             c == Cardinality(A \cap (1 .. (k - 1)))
             d == Cardinality(B \cap (1 .. (k - 1)))
  <1>3. Groups(parts, k) = a - b /\ Groups(parts, k - 1) = c - d
    BY DEF Groups
  <1> HIDE DEF A, B
  <1>4. k \in Nat /\ k # 0
    OBVIOUS
  <1>5. a \in Nat /\ c \in Nat /\ (k \in A => a = c + 1) /\ (k \notin A => a = c)
    BY <1>4, CountUpTo, Zenon
  <1>6. b \in Nat /\ d \in Nat /\ (k \in B => b = d + 1) /\ (k \notin B => b = d)
    BY <1>4, CountUpTo, Zenon
  <1> HIDE DEF a, b, c, d
  <1>7. /\ parts[k] = "begin" => k \in A /\ k \notin B
        /\ parts[k] = "end" => k \notin A /\ k \in B
        /\ parts[k] \notin {"begin", "end"} => k \notin A /\ k \notin B
    BY <1>2
  <1>8. QED
    BY <1>3, <1>5, <1>6, <1>7

LEMMA GroupsNone ==
  ASSUME NEW parts
  PROVE  Groups(parts, 0) = 0
  <1>1. \A S : S \cap (1 .. 0) = {}
    OBVIOUS
  <1>2. QED
    BY <1>1, FS_EmptySet DEF Groups

\* The group that holds part j has not ended before part k + 1 and is one with a destination.
StillOpen(parts, j, k) ==
  j \in 1 .. k /\ parts[j] \in {"star", "dest"} /\ \A m \in j .. k : Groups(parts, m) >= Groups(parts, j)

\* The parser skips from the outermost open group with a destination on.
RTFRight(parts, k, s) ==
  /\ s.depth = Groups(parts, k)
  /\ s.skip < 0 => s.skip = -1 /\ \A j \in 1 .. k : ~StillOpen(parts, j, k)
  /\ s.skip >= 0 => /\ \E j \in 1 .. k : StillOpen(parts, j, k) /\ Groups(parts, j) = s.skip
                    /\ \A j \in 1 .. k : StillOpen(parts, j, k) => Groups(parts, j) >= s.skip

LEMMA RTFRightStep ==
  ASSUME NEW parts, NEW n \in Nat, DOMAIN parts = 1 .. n, NEW k \in 1 .. n, NEW s \in RTFStates,
         \A i \in 1 .. n : Groups(parts, i) >= 0 /\ Groups(parts, i) \in Int, RTFRight(parts, k - 1, s)
  PROVE  RTFRight(parts, k, RTFStep(parts[k], s))
  <1>1. s.depth \in Int /\ s.skip \in Int /\ s.depth = Groups(parts, k - 1)
    BY DEF RTFStates, RTFRight
  <1>2. /\ parts[k] = "begin" => Groups(parts, k) = Groups(parts, k - 1) + 1
        /\ parts[k] = "end" => Groups(parts, k) = Groups(parts, k - 1) - 1
        /\ parts[k] \notin {"begin", "end"} => Groups(parts, k) = Groups(parts, k - 1)
    BY GroupsStep
  <1>3. ASSUME NEW j \in 1 .. (k - 1)
        PROVE  StillOpen(parts, j, k) <=> StillOpen(parts, j, k - 1) /\ Groups(parts, k) >= Groups(parts, j)
    <2>1. \A m : m \in j .. k <=> m \in j .. (k - 1) \/ m = k
      OBVIOUS
    <2>2. j \in 1 .. k
      OBVIOUS
    <2>3. QED
      BY <2>1, <2>2 DEF StillOpen
  <1>4. StillOpen(parts, k, k) <=> parts[k] \in {"star", "dest"}
    <2>1. \A m \in k .. k : m = k
      OBVIOUS
    <2>2. k \in 1 .. k /\ Groups(parts, k) >= Groups(parts, k) /\ Groups(parts, k) \in Int
      OBVIOUS
    <2>3. QED
      BY <2>1, <2>2 DEF StillOpen
  <1>5. \A j \in 1 .. k : j = k \/ j \in 1 .. (k - 1)
    OBVIOUS
  <1>6. \A j \in 1 .. k : Groups(parts, j) \in Int /\ Groups(parts, j) >= 0
    OBVIOUS
  <1>7. \A j \in 1 .. (k - 1) : j \in 1 .. k
    OBVIOUS
  <1>8. /\ s.skip < 0 => s.skip = -1 /\ \A j \in 1 .. (k - 1) : ~StillOpen(parts, j, k - 1)
        /\ s.skip >= 0 => /\ \E j \in 1 .. (k - 1) : StillOpen(parts, j, k - 1) /\ Groups(parts, j) = s.skip
                          /\ \A j \in 1 .. (k - 1) : StillOpen(parts, j, k - 1) => Groups(parts, j) >= s.skip
    BY DEF RTFRight
  <1>9. ASSUME parts[k] \notin {"star", "dest"}, NEW d, NEW t \in Int, d = Groups(parts, k),
               t = IF s.skip >= 0 /\ s.skip <= Groups(parts, k) THEN s.skip ELSE -1
        PROVE  RTFRight(parts, k, [depth |-> d, skip |-> t])
    <2>1. \A j \in 1 .. k : StillOpen(parts, j, k) => j \in 1 .. (k - 1)
      BY <1>4, <1>5, <1>9
    <2>2. CASE s.skip >= 0 /\ s.skip <= Groups(parts, k)
      <3>1. t = s.skip
        BY <1>9, <2>2
      <3>2. \E j \in 1 .. k : StillOpen(parts, j, k) /\ Groups(parts, j) = t
        BY <1>3, <1>7, <1>8, <2>2, <3>1
      <3>3. \A j \in 1 .. k : StillOpen(parts, j, k) => Groups(parts, j) >= t
        BY <1>3, <1>8, <2>1, <2>2, <3>1
      <3>4. QED
        BY <1>1, <1>9, <2>2, <3>1, <3>2, <3>3 DEF RTFRight
    <2>3. CASE ~(s.skip >= 0 /\ s.skip <= Groups(parts, k))
      <3>1. t = -1
        BY <1>9, <2>3
      <3>2. ASSUME NEW j \in 1 .. k, StillOpen(parts, j, k) PROVE FALSE
        <4>1. j \in 1 .. (k - 1) /\ StillOpen(parts, j, k - 1) /\ Groups(parts, k) >= Groups(parts, j)
          BY <2>1, <1>3, <3>2
        <4>2. s.skip >= 0 /\ Groups(parts, j) >= s.skip
          BY <1>1, <1>8, <4>1
        <4>3. QED
          BY <1>1, <1>6, <2>3, <4>1, <4>2
      <3>3. QED
        BY <1>9, <3>1, <3>2 DEF RTFRight
    <2>4. QED
      BY <2>2, <2>3
  <1>10. CASE parts[k] = "begin"
    <2>1. RTFStep(parts[k], s) = [s EXCEPT !.depth = s.depth + 1]
      BY <1>10, Zenon DEF RTFStep
    <2>2. RTFStep(parts[k], s) = [depth |-> s.depth + 1, skip |-> s.skip]
      BY <2>1 DEF RTFStates
    <2>3. s.skip >= 0 => s.skip <= Groups(parts, k)
      <3>1. ASSUME NEW j \in 1 .. (k - 1), StillOpen(parts, j, k - 1), Groups(parts, j) = s.skip
            PROVE  s.skip <= Groups(parts, k - 1)
        <4>1. k - 1 \in j .. (k - 1)
          OBVIOUS
        <4>2. Groups(parts, k - 1) >= Groups(parts, j)
          BY <3>1, <4>1 DEF StillOpen
        <4>3. QED
          BY <3>1, <4>2, <1>1, <1>6
      <3>2. QED
        BY <1>1, <1>2, <1>8, <1>10, <3>1
    <2>4. QED
      BY <1>1, <1>2, <1>8, <1>9, <1>10, <2>2, <2>3
  <1>11. CASE parts[k] = "end"
    <2> DEFINE t == IF s.skip = s.depth THEN -1 ELSE s.skip
    <2>1. RTFStep(parts[k], s) = [depth |-> s.depth - 1, skip |-> t]
      BY <1>11 DEF RTFStep
    <2>2. Groups(parts, k) = s.depth - 1
      BY <1>1, <1>2, <1>11
    <2>3. s.skip >= 0 => s.skip <= s.depth
      <3>1. ASSUME NEW j \in 1 .. (k - 1), StillOpen(parts, j, k - 1), Groups(parts, j) = s.skip
            PROVE  s.skip <= s.depth
        <4>1. k - 1 \in j .. (k - 1)
          OBVIOUS
        <4>2. Groups(parts, k - 1) >= Groups(parts, j)
          BY <3>1, <4>1 DEF StillOpen
        <4>3. QED
          BY <3>1, <4>2, <1>1, <1>6
      <3>2. QED
        BY <1>8, <3>1
    <2>4. t \in Int /\ t = IF s.skip >= 0 /\ s.skip <= Groups(parts, k) THEN s.skip ELSE -1
      BY <1>1, <1>6, <1>8, <2>2, <2>3
    <2> HIDE DEF t
    <2>5. QED
      BY <1>1, <1>9, <1>11, <2>1, <2>2, <2>4
  <1>12. CASE parts[k] \in {"star", "dest"}
    <2>1. Groups(parts, k) = Groups(parts, k - 1) /\ StillOpen(parts, k, k)
      BY <1>1, <1>2, <1>4, <1>12
    <2>2. \A j \in 1 .. (k - 1) : StillOpen(parts, j, k) <=> StillOpen(parts, j, k - 1)
      <3> SUFFICES ASSUME NEW j \in 1 .. (k - 1), StillOpen(parts, j, k - 1)
                   PROVE  Groups(parts, k) >= Groups(parts, j)
        BY <1>3
      <3>1. k - 1 \in j .. (k - 1)
        OBVIOUS
      <3>2. QED
        BY <2>1, <3>1 DEF StillOpen
    <2>3. CASE s.skip < 0
      <3>1. RTFStep(parts[k], s) = [s EXCEPT !.skip = s.depth]
        BY <1>12, <2>3 DEF RTFStep
      <3>2. RTFStep(parts[k], s) = [depth |-> s.depth, skip |-> s.depth]
        BY <3>1 DEF RTFStates
      <3>3. \A j \in 1 .. k : StillOpen(parts, j, k) => j = k
        BY <1>5, <1>8, <2>2, <2>3
      <3>4. k \in 1 .. k /\ s.depth >= 0 /\ s.depth = Groups(parts, k)
        BY <1>1, <1>6, <2>1
      <3>5. QED
        BY <2>1, <3>2, <3>3, <3>4 DEF RTFRight
    <2>4. CASE s.skip >= 0
      <3>1. RTFStep(parts[k], s) = [s EXCEPT !.skip = s.skip]
        BY <1>1, <1>12, <2>4 DEF RTFStep
      <3>2. RTFStep(parts[k], s) = [depth |-> s.depth, skip |-> s.skip]
        BY <3>1 DEF RTFStates
      <3>3. PICK i \in 1 .. (k - 1) : StillOpen(parts, i, k - 1) /\ Groups(parts, i) = s.skip
        BY <1>8, <2>4
      <3>4. StillOpen(parts, i, k) /\ i \in 1 .. k
        BY <2>2, <3>3
      <3>5. Groups(parts, k) >= s.skip
        <4>1. k \in i .. k
          OBVIOUS
        <4>2. QED
          BY <3>3, <3>4, <4>1 DEF StillOpen
      <3>6. \A j \in 1 .. k : StillOpen(parts, j, k) => Groups(parts, j) >= s.skip
        BY <1>5, <1>8, <2>2, <2>4, <3>5
      <3>7. QED
        BY <1>1, <2>1, <2>4, <3>2, <3>3, <3>4, <3>6 DEF RTFRight
    <2>5. QED
      BY <1>1, <2>3, <2>4
  <1>13. CASE parts[k] \notin {"begin", "end", "star", "dest"}
    <2>1. RTFStep(parts[k], s) = s
      BY <1>13 DEF RTFStep
    <2>2. s = [depth |-> s.depth, skip |-> s.skip]
      BY DEF RTFStates
    <2>3. s.skip >= 0 => s.skip <= Groups(parts, k)
      <3>1. ASSUME NEW j \in 1 .. (k - 1), StillOpen(parts, j, k - 1), Groups(parts, j) = s.skip
            PROVE  s.skip <= Groups(parts, k - 1)
        <4>1. k - 1 \in j .. (k - 1)
          OBVIOUS
        <4>2. Groups(parts, k - 1) >= Groups(parts, j)
          BY <3>1, <4>1 DEF StillOpen
        <4>3. QED
          BY <3>1, <4>2, <1>1, <1>6
      <3>2. QED
        BY <1>1, <1>2, <1>8, <1>13, <3>1
    <2>4. s.depth = Groups(parts, k)
      BY <1>1, <1>2, <1>13
    <2>5. s.skip = IF s.skip >= 0 /\ s.skip <= Groups(parts, k) THEN s.skip ELSE -1
      BY <1>1, <1>8, <2>3
    <2>6. RTFRight(parts, k, [depth |-> s.depth, skip |-> s.skip])
      BY <1>1, <1>9, <1>13, <2>4, <2>5
    <2>7. QED
      BY <2>1, <2>2, <2>6
  <1>14. QED
    BY <1>10, <1>11, <1>12, <1>13

\* Text is shown exactly where no open group has a destination.
LEMMA RTFShowsRight ==
  ASSUME NEW parts, NEW n \in Nat, Len(parts) = n, DOMAIN parts = 1 .. n,
         \A i \in 1 .. n : Groups(parts, i) >= 0
  PROVE  RTFShown(parts) = {i \in Of(parts, {"text"}) : ~Ignored(parts, i)}
  <1> DEFINE r == RTFState(parts)
             Wrong == {k \in 0 .. n : ~RTFRight(parts, k, r[k])}
  <1>1. /\ r \in [0 .. n -> RTFStates] /\ r[0] = [depth |-> 0, skip |-> -1]
        /\ \A i \in 1 .. n : r[i] = RTFStep(parts[i], r[i - 1])
    BY RTFRuns
  <1> HIDE DEF r
  <1>2. Wrong = {}
    <2> SUFFICES ASSUME Wrong # {} PROVE FALSE
      OBVIOUS
    <2>1. PICK m \in Wrong : \A j \in Wrong : m <= j
      <3>1. Wrong \in SUBSET Nat
        OBVIOUS
      <3>2. QED
        BY <3>1, LeastIs
    <2>2. m \in 0 .. n /\ ~RTFRight(parts, m, r[m])
      OBVIOUS
    <2>3. RTFRight(parts, 0, r[0])
      BY <1>1, GroupsNone DEF RTFRight
    <2>4. m \in 1 .. n /\ m - 1 \in 0 .. n /\ ~(m <= m - 1)
      BY <2>2, <2>3
    <2>5. RTFRight(parts, m - 1, r[m - 1])
      BY <2>1, <2>4
    <2>6. r[m - 1] \in RTFStates
      BY <1>1, <2>4
    <2>7. \A i \in 1 .. n : Groups(parts, i) >= 0 /\ Groups(parts, i) \in Int
      BY GroupsStep
    <2>8. RTFRight(parts, m, RTFStep(parts[m], r[m - 1]))
      BY <2>4, <2>5, <2>6, <2>7, RTFRightStep
    <2>9. QED
      BY <1>1, <2>2, <2>4, <2>8
  <1>3. ASSUME NEW i \in 1 .. n PROVE r[i - 1].skip < 0 <=> ~Ignored(parts, i)
    <2>1. i - 1 \in 0 .. n /\ \A j \in 1 .. n : j < i <=> j \in 1 .. (i - 1)
      OBVIOUS
    <2>2. RTFRight(parts, i - 1, r[i - 1]) /\ r[i - 1].skip \in Int
      BY <1>1, <1>2, <2>1 DEF RTFStates
    <2>3. Ignored(parts, i) <=> \E j \in 1 .. (i - 1) : StillOpen(parts, j, i - 1)
      BY <2>1 DEF Ignored, StillOpen, Of
    <2>4. QED
      BY <2>2, <2>3 DEF RTFRight
  <1>4. Of(parts, {"text"}) \subseteq 1 .. n
    BY DEF Of
  <1>5. RTFShown(parts) = {i \in Of(parts, {"text"}) : r[i - 1].skip < 0}
    BY DEF RTFShown, r
  <1>6. QED
    BY <1>3, <1>4, <1>5

\* A line that begins no directive is out of every directive if it is text.
LEMMA RSTKeeps ==
  ASSUME NEW parts, NEW n \in Nat, Len(parts) = n, DOMAIN parts = 1 .. n
  PROVE  Of(parts, {"text"}) \subseteq RSTShown(parts) /\ RSTShown(parts) \subseteq DOMAIN parts
  <1> DEFINE F(g) == [i \in 0 .. Len(parts) |->
                        IF i = 0 THEN FALSE
                        ELSE parts[i] = "directive" \/ (g[i - 1] /\ parts[i] \in {"blank", "body"})]
             step == [i \in 1 .. n |-> [b \in BOOLEAN |->
                        parts[i] = "directive" \/ (b /\ parts[i] \in {"blank", "body"})]]
             within == CHOOSE g : g = F(g)
             out == {i \in DOMAIN parts : ~within[i]}
  <1>1. RSTShown(parts) = IF out \cap Of(parts, {"text", "body"}) = {} THEN DOMAIN parts ELSE out
    BY DEF RSTShown, Each
  <1>2. \E g : g = F(g)
    <2>1. step \in [1 .. n -> [BOOLEAN -> BOOLEAN]] /\ FALSE \in BOOLEAN
      OBVIOUS
    <2>2. \A i \in 1 .. n : \A b \in BOOLEAN :
            step[i][b] = (parts[i] = "directive" \/ (b /\ parts[i] \in {"blank", "body"}))
      OBVIOUS
    <2> DEFINE off == FALSE
               B == BOOLEAN
    <2> HIDE DEF step
    <2>3. PICK f \in [0 .. n -> BOOLEAN] : f[0] = FALSE /\ \A i \in 1 .. n : f[i] = step[i][f[i - 1]]
      <3>1. step \in [1 .. n -> [B -> B]] /\ off \in B
        BY <2>1
      <3> HIDE DEF off, B
      <3>2. \E f \in [0 .. n -> B] : f[0] = off /\ \A i \in 1 .. n : f[i] = step[i][f[i - 1]]
        BY <3>1, StepByStep
      <3>3. QED
        BY <3>2, Zenon DEF off, B
    <2>4. ASSUME NEW i \in 1 .. n
          PROVE  f[i] = (parts[i] = "directive" \/ (f[i - 1] /\ parts[i] \in {"blank", "body"}))
      <3>1. i - 1 \in 0 .. n /\ f[i - 1] \in BOOLEAN
        OBVIOUS
      <3>2. QED
        BY <2>2, <2>3, <3>1
    <2>5. f = F(f)
      <3>1. \A i \in 0 .. n : i = 0 \/ i \in 1 .. n
        OBVIOUS
      <3>2. \A i \in 0 .. n : f[i] = IF i = 0 THEN FALSE
                                     ELSE parts[i] = "directive" \/ (f[i - 1] /\ parts[i] \in {"blank", "body"})
        BY <2>3, <2>4, <3>1, Zenon
      <3>3. DOMAIN f = 0 .. Len(parts) /\ f = [i \in DOMAIN f |-> f[i]]
        BY Zenon
      <3>4. QED
        BY <3>2, <3>3, Zenon
    <2>6. QED
      BY <2>5, Zenon
  <1>3. within = F(within)
    BY <1>2, Zenon
  <1> HIDE DEF within
  <1>4. \A i \in 1 .. n : parts[i] = "text" => ~within[i]
    <2>1. \A i \in 0 .. n : within[i] = IF i = 0 THEN FALSE
                        ELSE parts[i] = "directive" \/ (within[i - 1] /\ parts[i] \in {"blank", "body"})
      BY <1>3
    <2>2. \A i \in 1 .. n : i \in 0 .. n /\ i # 0
      OBVIOUS
    <2>3. ASSUME NEW i \in 1 .. n, parts[i] = "text" PROVE ~within[i]
      <3>1. parts[i] # "directive" /\ parts[i] \notin {"blank", "body"}
        BY <2>3
      <3>2. QED
        BY <2>1, <2>2, <3>1, Zenon
    <2>4. QED
      BY <2>3
  <1>5. Of(parts, {"text"}) \subseteq out /\ out \subseteq DOMAIN parts /\ Of(parts, {"text"}) \subseteq DOMAIN parts
    BY <1>4 DEF Of
  <1> HIDE DEF out
  <1>6. QED
    BY <1>1, <1>5

\* A package with its version right behind it is in the text of a lock file.
LEMMA LockKeeps ==
  ASSUME NEW parts, NEW n \in Nat, DOMAIN parts = 1 .. n
  PROVE  {i \in Of(parts, Names) : i + 1 \in Of(parts, Versions)} \subseteq LockShown(parts)
  <1> SUFFICES ASSUME NEW i \in Of(parts, Names), i + 1 \in Of(parts, Versions)
               PROVE  i \in LockShown(parts)
    OBVIOUS
  <1>1. i \in 1 .. n /\ i + 1 \in 1 .. n /\ parts[i] \in Names /\ parts[i + 1] \in Versions
    BY DEF Of
  <1> DEFINE S == {j \in (i + 1) .. n : parts[j] \in Versions /\ \A k \in (i + 1) .. (j - 1) : parts[k] \notin Names}
  <1>2. i + 1 \in S
    BY <1>1
  <1>3. S \in SUBSET (0 .. n) /\ S # {}
    BY <1>1, <1>2
  <1>4. PICK j \in S : \A m \in S : m <= j
    BY <1>3, GreatestIs
  <1>5. j \in 1 .. n /\ i < j /\ parts[j] \in Versions /\ \A k \in (i + 1) .. (j - 1) : parts[k] \notin Names
    BY <1>1
  <1>6. ASSUME NEW k \in 1 .. n, parts[k] \in Versions, j < k, ~ \E m \in j .. k : parts[m] \in Names
        PROVE  FALSE
    <2>1. \A m \in (i + 1) .. (k - 1) : parts[m] \notin Names
      BY <1>1, <1>5, <1>6
    <2>2. k \in S
      BY <1>1, <1>5, <1>6, <2>1
    <2>3. QED
      BY <1>4, <1>5, <1>6, <2>2
  <1> DEFINE p == <<i, j>>
  <1>7. p \in (1 .. n) \X (1 .. n) /\ p[1] = i /\ p[2] = j
    BY <1>1, <1>5
  <1>8. p \in LockPairs(parts)
    BY <1>1, <1>5, <1>6, <1>7 DEF LockPairs
  <1>9. QED
    BY <1>7, <1>8 DEF LockShown

\* A mail shows one of its parts, plain text if there is any.
LEMMA MailKeeps ==
  ASSUME NEW parts, NEW n \in Nat, DOMAIN parts = 1 .. n, \A i \in 1 .. n : parts[i] \in Marks("eml")
  PROVE  /\ EmailShown(parts) \cap Of(parts, {"hidden", "output"}) = {}
         /\ PlainFirst(parts) => \A i \in EmailShown(parts) : parts[i] \in {"p", "in:p", "in:hp"}
         /\ Of(parts, {"p", "h"}) # {} => EmailShown(parts) # {}
  <1> DEFINE plain == {i \in DOMAIN parts : parts[i] = "p" \/ Inner(parts[i]) # "none"}
             html == Of(parts, {"h"})
  <1>1. EmailShown(parts) = IF plain # {} THEN FirstOf(plain) ELSE FirstOf(html)
    BY DEF EmailShown
  <1>2. ASSUME NEW S \in SUBSET (1 .. n), S # {}
        PROVE  \E i \in S : FirstOf(S) = {i} /\ \A j \in S : i <= j
    <2>1. S \in SUBSET Nat
      OBVIOUS
    <2>2. Least(S) \in S /\ \A j \in S : Least(S) <= j
      BY <1>2, <2>1, LeastIs
    <2>3. FirstOf(S) = {Least(S)}
      BY <1>2 DEF FirstOf, Least
    <2>4. QED
      BY <2>2, <2>3
  <1>3. plain \in SUBSET (1 .. n) /\ html \in SUBSET (1 .. n)
    BY DEF Of
  <1>4. \A i \in plain : parts[i] \in {"p", "in:p", "in:h", "in:hp"}
    BY DEF Inner
  <1>5. \A i \in html : parts[i] = "h"
    BY DEF Of
  <1>6. \A i \in 1 .. n : parts[i] = "p" => i \in plain
    OBVIOUS
  <1>7. \A i \in 1 .. n : parts[i] = "h" => i \in html
    BY DEF Of
  <1> HIDE DEF plain, html
  <1>8. CASE plain # {}
    <2>1. PICK i \in plain : FirstOf(plain) = {i} /\ \A j \in plain : i <= j
      BY <1>2, <1>3, <1>8
    <2>2. EmailShown(parts) = {i} /\ parts[i] \in {"p", "in:p", "in:h", "in:hp"} /\ i \in 1 .. n
      BY <1>1, <1>3, <1>4, <1>8, <2>1
    <2>3. PlainFirst(parts) => parts[i] # "in:h"
      <3> SUFFICES ASSUME NEW k \in DOMAIN parts, parts[k] = "p", \A j \in 1 .. (k - 1) : parts[j] # "in:h"
                   PROVE  parts[i] # "in:h"
        BY DEF PlainFirst
      <3>1. k \in plain /\ i <= k
        BY <1>6, <2>1
      <3>2. QED
        BY <2>2, <3>1
    <2>4. QED
      BY <2>2, <2>3 DEF Of
  <1>9. CASE plain = {} /\ html # {}
    <2>1. PICK i \in html : FirstOf(html) = {i} /\ \A j \in html : i <= j
      BY <1>2, <1>3, <1>9
    <2>2. EmailShown(parts) = {i} /\ parts[i] = "h" /\ i \in 1 .. n
      BY <1>1, <1>3, <1>5, <1>9, <2>1
    <2>3. ~PlainFirst(parts)
      BY <1>6, <1>9 DEF PlainFirst
    <2>4. QED
      BY <2>2, <2>3 DEF Of
  <1>10. CASE plain = {} /\ html = {}
    <2>1. EmailShown(parts) = {}
      BY <1>1, <1>10 DEF FirstOf
    <2>2. Of(parts, {"p", "h"}) = {}
      BY <1>6, <1>7, <1>10 DEF Of
    <2>3. QED
      BY <2>1, <2>2
  <1>11. QED
    BY <1>8, <1>9, <1>10

\* What a document shows of its parts.
Keeps(form, parts, shown) ==
  /\ Authored(form, parts) \subseteq shown
  /\ \/ Unseen(form, parts) \cap shown = {}
     \/ form = "vue" /\ Authored(form, parts) = {}
  /\ form = "eml" => /\ PlainFirst(parts) => \A i \in shown : parts[i] \in {"p", "in:p", "in:hp"}
                     /\ Of(parts, {"p", "h"}) # {} => shown # {}

LEMMA MarksOf ==
  ASSUME NEW form, NEW parts \in Seq(Marks(form))
  PROVE  Len(parts) \in Nat /\ DOMAIN parts = 1 .. Len(parts) /\ \A i \in DOMAIN parts : parts[i] \in Marks(form)
  OBVIOUS

LEMMA ShownKeeps ==
  ASSUME NEW form \in Forms \ ArchiveForms, NEW parts \in Seq(Marks(form)),
         form = "rtf" => \A k \in DOMAIN parts : Groups(parts, k) >= 0
  PROVE  Keeps(form, parts, Shown(form, parts))
  <1> DEFINE n == Len(parts)
  <1>1. n \in Nat /\ DOMAIN parts = 1 .. n /\ \A i \in DOMAIN parts : parts[i] \in Marks(form)
    BY MarksOf
  <1> HIDE DEF n
  <1>2. CASE form = "rtf"
    <2>1. Shown(form, parts) = {i \in Of(parts, {"text"}) : ~Ignored(parts, i)}
      <3>1. Shown(form, parts) = RTFShown(parts)
        BY <1>2 DEF Shown
      <3>2. Len(parts) = n /\ \A i \in 1 .. n : Groups(parts, i) >= 0
        BY <1>1, <1>2 DEF n
      <3>3. QED
        BY <1>1, <3>1, <3>2, RTFShowsRight
    <2>2. QED
      BY <1>2, <2>1 DEF Keeps, Authored, Unseen
  <1>3. CASE form = "rst"
    <2>1. Shown(form, parts) = RSTShown(parts)
      BY <1>3 DEF Shown
    <2>2. Of(parts, {"text"}) \subseteq RSTShown(parts) /\ RSTShown(parts) \subseteq DOMAIN parts
      BY <1>1, RSTKeeps DEF n
    <2>3. \A i \in DOMAIN parts : parts[i] \in {"text", "directive", "blank", "body", "legacy", "nul"}
      BY <1>1, <1>3 DEF Marks, AsText, Annotated
    <2>4. Authored(form, parts) \subseteq Of(parts, {"text"}) /\ Unseen(form, parts) = {}
      BY <1>3, <2>3 DEF Authored, Unseen, Of
    <2>5. QED
      BY <1>3, <2>1, <2>2, <2>4 DEF Keeps
  <1>4. CASE form = "lock"
    <2>1. Shown(form, parts) = LockShown(parts)
      BY <1>4 DEF Shown
    <2>2. Authored(form, parts) \subseteq LockShown(parts)
      BY <1>1, <1>4, LockKeeps DEF Authored
    <2>3. QED
      BY <1>4, <2>1, <2>2 DEF Keeps, Unseen
  <1>5. CASE form = "eml"
    <2>1. Shown(form, parts) = EmailShown(parts)
      BY <1>5 DEF Shown
    <2>2. /\ EmailShown(parts) \cap Of(parts, {"hidden", "output"}) = {}
          /\ PlainFirst(parts) => \A i \in EmailShown(parts) : parts[i] \in {"p", "in:p", "in:hp"}
          /\ Of(parts, {"p", "h"}) # {} => EmailShown(parts) # {}
      BY <1>1, <1>5, MailKeeps
    <2>3. Authored(form, parts) = {} /\ Unseen(form, parts) = Of(parts, {"hidden", "output"})
      BY <1>5 DEF Authored, Unseen
    <2>4. QED
      BY <2>1, <2>2, <2>3 DEF Keeps
  <1>6. CASE form = "ipynb"
    <2>1. Shown(form, parts) = Of(parts, {"code", "markdown"})
      BY <1>6 DEF Shown, NotebookShown
    <2>2. \A i \in DOMAIN parts : parts[i] \in {"code", "markdown", "output", "bad"}
      BY <1>1, <1>6 DEF Marks, AsText, Annotated
    <2>3. QED
      BY <1>6, <2>1, <2>2 DEF Keeps, Authored, Unseen, Of
  <1>7. CASE form \in {"html", "template", "xml", "epub"}
    <2>1. Shown(form, parts) = Of(parts, {"text"})
      BY <1>7 DEF Shown, WithoutMarkup
    <2>2. \A i \in DOMAIN parts : parts[i] \in {"text", "hidden", "unread", "legacy", "nul"}
      BY <1>1, <1>7 DEF Marks, AsText, Annotated
    <2>3. QED
      BY <1>7, <2>1, <2>2 DEF Keeps, Authored, Unseen, Of
  <1>8. CASE form = "vue"
    <2>1. Shown(form, parts) = VueShown(parts)
      BY <1>8 DEF Shown
    <2>2. \A i \in DOMAIN parts : parts[i] \in {"script", "markup", "hidden", "legacy", "nul"}
      BY <1>1, <1>8 DEF Marks, AsText, Annotated
    <2>3. Authored(form, parts) = Of(parts, {"script", "markup"}) /\ Unseen(form, parts) = Of(parts, {"hidden", "output"})
      BY <1>8, <2>2 DEF Authored, Unseen, Of
    <2>4. CASE Of(parts, {"script", "markup"}) = {}
      BY <1>8, <2>3, <2>4 DEF Keeps
    <2>5. CASE Of(parts, {"script", "markup"}) # {}
      <3>1. Shown(form, parts) = Of(parts, {"script", "markup"})
        BY <2>1, <2>5 DEF VueShown
      <3>2. QED
        BY <1>8, <2>3, <3>1 DEF Keeps, Of
    <2>6. QED
      BY <2>4, <2>5
  <1>9. CASE form = "openapi"
    <2>1. Shown(form, parts) = OpenAPIShown(parts)
      BY <1>9 DEF Shown
    <2>2. \A i \in DOMAIN parts : parts[i] \in {"spec", "info", "endpoint", "note", "legacy", "nul"}
      BY <1>1, <1>9 DEF Marks, AsText, Annotated
    <2>3. Unseen(form, parts) = {}
      BY <1>9, <2>2 DEF Unseen, Of
    <2>4. Authored(form, parts) \subseteq OpenAPIShown(parts)
      BY <1>9 DEF Authored, OpenAPIShown, Each, Of
    <2>5. QED
      BY <1>9, <2>1, <2>3, <2>4 DEF Keeps
  <1>10. CASE form \notin {"rtf", "rst", "lock", "eml", "ipynb", "html", "template", "xml", "epub", "vue", "openapi"}
    <2>1. Shown(form, parts) = DOMAIN parts
      BY <1>10 DEF Shown, Each
    <2>2. \A i \in DOMAIN parts : parts[i] \in {"text", "bad", "legacy", "nul"}
      BY <1>1, <1>10 DEF Marks, AsText, Annotated
    <2>3. Authored(form, parts) = Of(parts, {"text", "code", "markdown", "script", "markup"})
      BY <1>10 DEF Authored
    <2>4. Unseen(form, parts) = {}
      BY <1>10, <2>2 DEF Unseen, Of
    <2>5. QED
      BY <1>10, <2>1, <2>3, <2>4 DEF Keeps, Of
  <1>11. QED
    BY <1>2, <1>3, <1>4, <1>5, <1>6, <1>7, <1>8, <1>9, <1>10

\* What is indexed of a document is one unit.
DocumentsInv ==
  /\ file \in Files /\ guesses \in Seq(BOOLEAN)
  /\ status \in {"new", "open"} => guesses = <<>> /\ units = <<>>
  /\ status = "open" => file.form \in ArchiveForms
  /\ file.form \notin ArchiveForms => \A k \in DOMAIN units : Keeps(file.form, file.parts, units[k].shown)
  /\ PasswordDecides

LEMMA DocumentsInvInit == ExtractInit => DocumentsInv
  <1>1. <<>> \in Seq(BOOLEAN) /\ DOMAIN <<>> = {}
    OBVIOUS
  <1>2. QED
    BY <1>1 DEF ExtractInit, DocumentsInv, PasswordDecides

LEMMA FileShows ==
  ASSUME file \in Files, file.form \notin ArchiveForms
  PROVE  /\ Keeps(file.form, file.parts, Shown(file.form, file.parts))
         /\ file.form = "plain" => Keeps(file.form, file.parts, Each(file.parts))
  <1>1. file.form \in Forms \ ArchiveForms
    BY FilesAssumption
  <1>2. Keeps(file.form, file.parts, Shown(file.form, file.parts))
    BY <1>1, DocumentsAreWritten, ShownKeeps
  <1>3. file.form = "plain" => Shown(file.form, file.parts) = Each(file.parts)
    BY DEF Shown
  <1>4. QED
    BY <1>2, <1>3

LEMMA OneUnit ==
  ASSUME NEW path, NEW shown, NEW how, Finish(<<Unit(path, shown)>>, how)
  PROVE  status' = how /\ \A k \in DOMAIN units' : units'[k].shown = shown
  BY DEF Finish, Unit

LEMMA DocumentsInvNext == DocumentsInv /\ [ExtractNext]_extractVars => DocumentsInv'
  <1> SUFFICES ASSUME DocumentsInv, [ExtractNext]_extractVars PROVE DocumentsInv'
    OBVIOUS
  <1>1. /\ file \in Files /\ guesses \in Seq(BOOLEAN) /\ PasswordDecides
        /\ status \in {"new", "open"} => guesses = <<>> /\ units = <<>>
        /\ status = "open" => file.form \in ArchiveForms
        /\ file.form \notin ArchiveForms => \A k \in DOMAIN units : Keeps(file.form, file.parts, units[k].shown)
    BY DEF DocumentsInv
  <1>2. ASSUME status = "new", UNCHANGED <<file, guesses>>, status' \in {"open", "indexed", "skipped", "soft", "encrypted"},
               status' = "open" => units' = <<>> /\ file.form \in ArchiveForms,
               file.form \notin ArchiveForms => \A k \in DOMAIN units' : Keeps(file.form, file.parts, units'[k].shown)
        PROVE  DocumentsInv'
    <2>1. guesses = <<>> /\ DOMAIN guesses = {}
      BY <1>1, <1>2
    <2>2. PasswordDecides'
      BY <1>2, <2>1 DEF PasswordDecides
    <2>3. QED
      BY <1>1, <1>2, <2>1, <2>2 DEF DocumentsInv
  <1>3. CASE ReadDocument
    <2>1. status = "new" /\ UNCHANGED <<file, guesses>> /\ file.form \notin ArchiveForms
      BY <1>3 DEF ReadDocument, New
    <2>2. CASE Refused(file.form, file.parts)
      <3>1. units' = <<>> /\ status' = "soft"
        BY <1>3, <2>2 DEF ReadDocument, Finish
      <3>2. \A k \in DOMAIN units' : FALSE
        BY <3>1
      <3>3. QED
        BY <1>2, <2>1, <3>1, <3>2
    <2>3. CASE ~Refused(file.form, file.parts)
      <3>1. PICK how \in {"indexed", "skipped"} : Finish(<<Unit(<<>>, Shown(file.form, file.parts))>>, how)
        BY <1>3, <2>3 DEF ReadDocument, Outcome
      <3>2. status' = how /\ \A k \in DOMAIN units' : units'[k].shown = Shown(file.form, file.parts)
        BY <3>1, OneUnit
      <3>3. Keeps(file.form, file.parts, Shown(file.form, file.parts))
        BY <1>1, <2>1, FileShows
      <3>4. QED
        BY <1>2, <2>1, <3>2, <3>3
    <2>4. QED
      BY <2>2, <2>3
  <1>4. CASE ReadEncrypted
    <2>1. status = "new" /\ UNCHANGED <<file, guesses>> /\ units' = <<>> /\ status' \in {"encrypted", "skipped"}
      BY <1>4 DEF ReadEncrypted, New, Finish
    <2>2. \A k \in DOMAIN units' : FALSE
      BY <2>1
    <2>3. QED
      BY <1>2, <2>1, <2>2
  <1>5. CASE ReadPlain
    <2>1. status = "new" /\ UNCHANGED <<file, guesses>> /\ file.form = "plain"
      BY <1>5 DEF ReadPlain, New
    <2>2. Finish(<<Unit(<<>>, Each(file.parts))>>, "indexed")
      BY <1>5 DEF ReadPlain
    <2>3. status' = "indexed" /\ \A k \in DOMAIN units' : units'[k].shown = Each(file.parts)
      BY <2>2, OneUnit
    <2>4. file.form \notin ArchiveForms => Keeps(file.form, file.parts, Each(file.parts))
      BY <1>1, <2>1, FileShows
    <2>5. QED
      BY <1>2, <2>1, <2>3, <2>4
  <1>6. CASE OpenArchive
    <2>1. status = "new" /\ UNCHANGED <<file, guesses>> /\ file.form \in ArchiveForms
          /\ status' \in {"soft", "open"} /\ units' = <<>>
      BY <1>1, <1>6 DEF OpenArchive, New, Finish
    <2>2. QED
      BY <1>2, <2>1
  <1>7. CASE TakeText \/ TakeNothing \/ TakeNested
    <2>1. status = "open" /\ UNCHANGED <<file, status, units, guesses>>
      BY <1>7 DEF TakeText, TakeNothing, TakeNested
    <2>2. QED
      BY <1>1, <2>1 DEF DocumentsInv, PasswordDecides
  <1>8. CASE CloseArchive
    <2>1. status = "open" /\ UNCHANGED <<file, guesses>> /\ file.form \in ArchiveForms
      BY <1>1, <1>8 DEF CloseArchive
    <2>2. CASE Len(frames) = 1
      <3>1. status' \in {"indexed", "skipped"}
        BY <1>8, <2>2 DEF CloseArchive, Finish, Outcome
      <3>2. PasswordDecides'
        BY <3>1 DEF PasswordDecides
      <3>3. QED
        BY <1>1, <2>1, <3>1, <3>2 DEF DocumentsInv
    <2>3. CASE Len(frames) # 1
      <3>1. UNCHANGED <<status, units>>
        BY <1>8, <2>3 DEF CloseArchive
      <3>2. QED
        BY <1>1, <2>1, <3>1 DEF DocumentsInv, PasswordDecides
    <2>4. QED
      BY <2>2, <2>3
  <1>9. ASSUME NEW right \in BOOLEAN, Unlock(right) PROVE DocumentsInv'
    <2>1. status = "encrypted" /\ guesses' = Append(guesses, right) /\ file' = file
      BY <1>9 DEF Unlock
    <2>2. /\ guesses' \in Seq(BOOLEAN) /\ Len(guesses') = Len(guesses) + 1 /\ Len(guesses) \in Nat
          /\ DOMAIN guesses' = 1 .. (Len(guesses) + 1) /\ DOMAIN guesses = 1 .. Len(guesses)
      BY <1>1, <2>1
    <2>3. /\ \A i \in 1 .. Len(guesses) : guesses'[i] = guesses[i]
          /\ guesses'[Len(guesses) + 1] = right
      BY <1>1, <2>1
    <2>4. Unreadable \/ \A i \in 1 .. Len(guesses) : ~guesses[i]
      BY <1>1, <2>1, <2>2, Zenon DEF PasswordDecides
    <2>5. CASE Opens(right) = "opened"
      <3>1. Finish(<<Unit(<<>>, Shown(file.form, file.parts))>>, "unlocked")
        BY <1>9, <2>5 DEF Unlock
      <3>2. status' = "unlocked" /\ \A k \in DOMAIN units' : units'[k].shown = Shown(file.form, file.parts)
        BY <3>1, OneUnit
      <3>3. right /\ ~Unreadable
        BY <2>5 DEF Opens, Unreadable
      <3>4. guesses'[Len(guesses')] /\ \A i \in 1 .. (Len(guesses') - 1) : ~guesses'[i]
        <4>1. Len(guesses') - 1 = Len(guesses)
          BY <2>2
        <4>2. QED
          BY <2>2, <2>3, <2>4, <3>3, <4>1, Zenon
      <3>5. PasswordDecides'
        BY <3>2, <3>4, Zenon DEF PasswordDecides
      <3>6. file.form \notin ArchiveForms => Keeps(file.form, file.parts, Shown(file.form, file.parts))
        BY <1>1, FileShows
      <3>7. QED
        BY <1>1, <2>1, <2>2, <3>2, <3>5, <3>6 DEF DocumentsInv
    <2>6. CASE Opens(right) # "opened"
      <3>1. UNCHANGED <<status, units>>
        BY <1>9, <2>6 DEF Unlock
      <3>2. right => Unreadable
        BY <2>6 DEF Opens, Unreadable
      <3>3. \A i \in DOMAIN guesses' : i \in 1 .. Len(guesses) \/ i = Len(guesses) + 1
        BY <2>2
      <3>4. Unreadable \/ \A i \in DOMAIN guesses' : ~guesses'[i]
        BY <2>3, <2>4, <3>2, <3>3, Zenon
      <3>5. Unreadable' <=> Unreadable
        BY <2>1 DEF Unreadable
      <3>6. PasswordDecides'
        BY <2>1, <3>1, <3>4, <3>5, Zenon DEF PasswordDecides
      <3>7. QED
        BY <1>1, <2>1, <2>2, <3>1, <3>6 DEF DocumentsInv
    <2>7. QED
      BY <2>5, <2>6
  <1>10. CASE UNCHANGED extractVars
    BY <1>1, <1>10 DEF DocumentsInv, PasswordDecides, Unreadable, extractVars
  <1>11. QED
    BY <1>3, <1>4, <1>5, <1>6, <1>7, <1>8, <1>9, <1>10 DEF ExtractNext, Settle

LEMMA DocumentsInvEnough == DocumentsInv => TextKept /\ PasswordDecides
  BY DEF DocumentsInv, TextKept, Keeps

------------------------------------------------------------------------------
(* Sums of sizes. *)

\* A sum of sizes counts as many pieces as the sizes say.
Pieces(root, S) == UNION {{p} \X (1 .. SizeAt(root, p)) : p \in S}

LEMMA PiecesOfMore ==
  ASSUME NEW root, NEW S, IsFiniteSet(Pieces(root, S)), NEW p, p \notin S, SizeAt(root, p) \in Nat
  PROVE  /\ IsFiniteSet(Pieces(root, S \cup {p}))
         /\ Cardinality(Pieces(root, S \cup {p})) = Cardinality(Pieces(root, S)) + SizeAt(root, p)
  <1> DEFINE A == Pieces(root, S)
             n == SizeAt(root, p)
             B == {p} \X (1 .. n)
  <1>1. Pieces(root, S \cup {p}) = A \cup B
    BY DEF Pieces
  <1>2. IsFiniteSet(B) /\ Cardinality(B) = n
    <2>1. IsFiniteSet({p}) /\ Cardinality({p}) = 1
      BY FS_Singleton
    <2>2. IsFiniteSet(1 .. n) /\ Cardinality(1 .. n) = n
      BY FS_Interval
    <2>3. IsFiniteSet(B) /\ Cardinality(B) = Cardinality({p}) * Cardinality(1 .. n)
      BY <2>1, <2>2, FS_Product
    <2> HIDE DEF n
    <2>4. 1 * n = n
      BY DEF n
    <2>5. QED
      BY <2>1, <2>2, <2>3, <2>4, Zenon
  <1>3. A \cap B = {}
    <2> SUFFICES ASSUME NEW t \in A, t \in B PROVE FALSE
      OBVIOUS
    <2>1. t[1] = p
      OBVIOUS
    <2>2. PICK q \in S : t \in {q} \X (1 .. SizeAt(root, q))
      BY DEF Pieces
    <2>3. t[1] = q
      BY <2>2
    <2>4. QED
      BY <2>1, <2>3
  <1> HIDE DEF B, n
  <1>4. IsFiniteSet(A) /\ Cardinality(A) \in Nat
    BY FS_CardinalityType
  <1> HIDE DEF A
  <1>5. IsFiniteSet(A \cup B) /\ Cardinality(A \cup B) = Cardinality(A) + Cardinality(B) - Cardinality(A \cap B)
    BY <1>2, <1>4, FS_Union
  <1>6. Cardinality(A \cap B) = 0
    BY <1>3, FS_EmptySet
  <1>7. n \in Nat
    BY DEF n
  <1>8. Cardinality(A \cup B) = Cardinality(A) + n
    BY <1>2, <1>4, <1>5, <1>6, <1>7
  <1>9. QED
    BY <1>1, <1>5, <1>8 DEF A, n

LEMMA PiecesFinite ==
  ASSUME NEW root, NEW S, IsFiniteSet(S), \A p \in S : SizeAt(root, p) \in Nat
  PROVE  IsFiniteSet(Pieces(root, S))
  <1> DEFINE T == {{p} \X (1 .. SizeAt(root, p)) : p \in S}
             f == [p \in S |-> {p} \X (1 .. SizeAt(root, p))]
  <1>1. f \in Surjection(S, T)
    BY DEF Surjection
  <1>2. IsFiniteSet(T)
    BY <1>1, FS_Surjection
  <1>3. ASSUME NEW U \in T PROVE IsFiniteSet(U)
    <2>1. PICK p \in S : U = {p} \X (1 .. SizeAt(root, p))
      OBVIOUS
    <2>2. IsFiniteSet({p})
      BY FS_Singleton
    <2>3. SizeAt(root, p) \in Int
      OBVIOUS
    <2>4. IsFiniteSet(1 .. SizeAt(root, p))
      BY <2>3, FS_Interval
    <2>5. QED
      BY <2>1, <2>2, <2>4, FS_Product
  <1>4. IsFiniteSet(UNION T)
    BY <1>2, <1>3, FS_UNION
  <1>5. QED
    BY <1>4 DEF Pieces

\* The sum is well defined and counts the pieces.
LEMMA SizeCounts ==
  ASSUME NEW root, NEW S, IsFiniteSet(S), \A p \in S : SizeAt(root, p) \in Nat
  PROVE  SizeOf(root, S) = Cardinality(Pieces(root, S))
  <1> DEFINE Any(s) == CHOOSE x \in s : TRUE
             F(g) == [s \in SUBSET S |-> IF s = {} THEN 0 ELSE SizeAt(root, Any(s)) + g[s \ {Any(s)}]]
             sum == CHOOSE g : g = F(g)
             count == [s \in SUBSET S |-> Cardinality(Pieces(root, s))]
  <1>1. SizeOf(root, S) = sum[S]
    BY DEF SizeOf, MapThenSumSet, MapThenFoldSet
  <1>2. ASSUME NEW s \in SUBSET S
        PROVE  /\ IsFiniteSet(s) /\ Cardinality(s) \in Nat
               /\ s = {} => count[s] = 0
               /\ s # {} => /\ Any(s) \in s /\ SizeAt(root, Any(s)) \in Nat
                            /\ count[s] = SizeAt(root, Any(s)) + count[s \ {Any(s)}]
                            /\ Cardinality(s \ {Any(s)}) = Cardinality(s) - 1
    <2>1. IsFiniteSet(s) /\ Cardinality(s) \in Nat
      BY FS_Subset, FS_CardinalityType
    <2>2. ASSUME s = {} PROVE count[s] = 0
      <3>1. Pieces(root, s) = {}
        BY <2>2 DEF Pieces
      <3>2. QED
        BY <3>1, FS_EmptySet
    <2>3. ASSUME s # {}
          PROVE  /\ Any(s) \in s /\ SizeAt(root, Any(s)) \in Nat
                 /\ count[s] = SizeAt(root, Any(s)) + count[s \ {Any(s)}]
                 /\ Cardinality(s \ {Any(s)}) = Cardinality(s) - 1
      <3> DEFINE x == Any(s)
                 t == s \ {x}
      <3>1. x \in s
        BY <2>3
      <3> HIDE DEF x
      <3>2. s = t \cup {x} /\ x \notin t /\ t \in SUBSET S /\ SizeAt(root, x) \in Nat
        BY <3>1
      <3>3. IsFiniteSet(t) /\ Cardinality(t) = Cardinality(s) - 1
        BY <2>1, <3>1, FS_RemoveElement
      <3>4. IsFiniteSet(Pieces(root, t))
        BY <3>2, <3>3, PiecesFinite
      <3> HIDE DEF t
      <3>5. Cardinality(Pieces(root, t \cup {x})) = Cardinality(Pieces(root, t)) + SizeAt(root, x)
        BY <3>2, <3>4, PiecesOfMore
      <3>6. Cardinality(Pieces(root, t)) \in Nat
        BY <3>4, FS_CardinalityType
      <3>7. count[s] = Cardinality(Pieces(root, t \cup {x})) /\ count[t] = Cardinality(Pieces(root, t))
        BY <3>2, Zenon
      <3> HIDE DEF count
      <3>8. count[s] = SizeAt(root, x) + count[t]
        BY <3>2, <3>5, <3>6, <3>7
      <3>9. QED
        BY <3>1, <3>2, <3>3, <3>8, Zenon DEF x, t
    <2>4. QED
      BY <2>1, <2>2, <2>3, Zenon
  <1>3. DOMAIN count = SUBSET S /\ count = [s \in DOMAIN count |-> count[s]]
    BY Zenon
  <1>4. S \in SUBSET S /\ count[S] = Cardinality(Pieces(root, S))
    BY Zenon
  <1> HIDE DEF count, Any
  <1>5. \A s \in SUBSET S : count[s] = IF s = {} THEN 0 ELSE SizeAt(root, Any(s)) + count[s \ {Any(s)}]
    BY <1>2, Zenon
  <1>6. count = F(count)
    BY <1>3, <1>5, Zenon
  <1>7. sum = F(sum)
    BY <1>6, Zenon
  <1> HIDE DEF sum
  <1>8. \A s \in SUBSET S : sum[s] = IF s = {} THEN 0 ELSE SizeAt(root, Any(s)) + sum[s \ {Any(s)}]
    BY <1>7, Zenon
  <1> DEFINE Wrong == {s \in SUBSET S : sum[s] # count[s]}
             Sizes == {Cardinality(s) : s \in Wrong}
  <1>9. ASSUME Wrong # {} PROVE FALSE
    <2>1. Sizes \in SUBSET Nat /\ Sizes # {}
      BY <1>2, <1>9
    <2>2. PICK m \in Sizes : \A k \in Sizes : m <= k
      BY <2>1, LeastIs
    <2>3. PICK s \in Wrong : m = Cardinality(s)
      BY <2>2
    <2>4. s \in SUBSET S /\ sum[s] # count[s]
      OBVIOUS
    <2>5. s # {}
      <3>1. s = {} => sum[s] = 0 /\ count[s] = 0
        BY <1>5, <1>8, <2>4, Zenon
      <3>2. QED
        BY <2>4, <3>1
    <2> DEFINE t == s \ {Any(s)}
    <2>6. t \in SUBSET S /\ Cardinality(t) = m - 1 /\ m \in Nat /\ Cardinality(t) \in Nat
      <3>1. t \in SUBSET S
        BY <2>4
      <3>2. Cardinality(s \ {Any(s)}) = Cardinality(s) - 1 /\ Cardinality(s) \in Nat
        BY <1>2, <2>4, <2>5, Zenon
      <3>3. Cardinality(t) \in Nat
        BY <1>2, <3>1, Zenon
      <3>4. QED
        BY <2>3, <3>1, <3>2, <3>3
    <2>7. t \notin Wrong
      <3>1. t \in Wrong => Cardinality(t) \in Sizes
        OBVIOUS
      <3>2. QED
        BY <2>2, <2>6, <3>1
    <2>8. sum[t] = count[t]
      BY <2>6, <2>7
    <2>9. sum[s] = SizeAt(root, Any(s)) + sum[t] /\ count[s] = SizeAt(root, Any(s)) + count[t]
      BY <1>5, <1>8, <2>4, <2>5, Zenon
    <2>10. QED
      BY <2>4, <2>8, <2>9
  <1>10. sum[S] = count[S]
    BY <1>4, <1>9
  <1>11. QED
    BY <1>1, <1>4, <1>10

\* One more entry adds its size, a part of the entries has no greater size.
LEMMA SizeOfMore ==
  ASSUME NEW root, NEW S, IsFiniteSet(S), \A q \in S : SizeAt(root, q) \in Nat,
         NEW p, p \notin S, SizeAt(root, p) \in Nat
  PROVE  SizeOf(root, S) \in Nat /\ SizeOf(root, S \cup {p}) = SizeOf(root, S) + SizeAt(root, p)
  <1>1. IsFiniteSet(Pieces(root, S)) /\ SizeOf(root, S) = Cardinality(Pieces(root, S))
    BY PiecesFinite, SizeCounts
  <1>2. IsFiniteSet(S \cup {p}) /\ \A q \in S \cup {p} : SizeAt(root, q) \in Nat
    BY FS_AddElement
  <1>3. SizeOf(root, S \cup {p}) = Cardinality(Pieces(root, S \cup {p}))
    BY <1>2, SizeCounts
  <1>4. Cardinality(Pieces(root, S \cup {p})) = Cardinality(Pieces(root, S)) + SizeAt(root, p)
    BY <1>1, PiecesOfMore
  <1>5. Cardinality(Pieces(root, S)) \in Nat
    BY <1>1, FS_CardinalityType
  <1>6. QED
    BY <1>1, <1>3, <1>4, <1>5

LEMMA SizeOfNone ==
  ASSUME NEW root
  PROVE  SizeOf(root, {}) = 0
  <1>1. Pieces(root, {}) = {}
    BY DEF Pieces
  <1>2. IsFiniteSet({}) /\ Cardinality({}) = 0
    BY FS_EmptySet
  <1>3. SizeOf(root, {}) = Cardinality(Pieces(root, {}))
    BY <1>2, SizeCounts
  <1>4. QED
    BY <1>1, <1>2, <1>3

LEMMA SizeOfPart ==
  ASSUME NEW root, NEW S, IsFiniteSet(S), \A q \in S : SizeAt(root, q) \in Nat, NEW T \in SUBSET S
  PROVE  SizeOf(root, T) \in Nat /\ SizeOf(root, S) \in Nat /\ SizeOf(root, T) <= SizeOf(root, S)
  <1>1. IsFiniteSet(T)
    BY FS_Subset
  <1>2. IsFiniteSet(Pieces(root, S)) /\ SizeOf(root, S) = Cardinality(Pieces(root, S))
    BY PiecesFinite, SizeCounts
  <1>3. SizeOf(root, T) = Cardinality(Pieces(root, T))
    BY <1>1, SizeCounts
  <1>4. Pieces(root, T) \in SUBSET Pieces(root, S)
    BY DEF Pieces
  <1>5. IsFiniteSet(Pieces(root, T)) /\ Cardinality(Pieces(root, T)) <= Cardinality(Pieces(root, S))
    BY <1>2, <1>4, FS_Subset
  <1>6. QED
    BY <1>2, <1>3, <1>5, FS_CardinalityType

------------------------------------------------------------------------------
(* The archives on a way. *)

Held(p, i, a) == IF p[i] \in DOMAIN Archives[a].entries THEN Archives[a].entries[p[i]].holds ELSE a

LEMMA HeldType ==
  ASSUME NEW p, NEW i, NEW a \in DOMAIN Archives
  PROVE  Held(p, i, a) \in DOMAIN Archives
  <1>1. Archives[a].entries \in Seq(Entries)
    BY ArchivesAssumption
  <1>2. \A m \in DOMAIN Archives[a].entries : Archives[a].entries[m] \in Entries
    BY <1>1
  <1>3. \A e \in Entries : e.holds \in DOMAIN Archives
    BY DEF Entries
  <1>4. QED
    BY <1>2, <1>3 DEF Held

\* The archives on a way one by one are those that Holder names.
Chained(root, p, n, f) ==
  /\ f[0] = root /\ \A i \in 1 .. n : f[i] = Held(p, i, f[i - 1])
  /\ \A k \in 1 .. (n + 1) : Holder(root, p, k) = Archives[f[k - 1]]

LEMMA HolderChain ==
  ASSUME NEW root \in DOMAIN Archives, NEW p, NEW n \in Nat
  PROVE  \E f \in [0 .. n -> DOMAIN Archives] : Chained(root, p, n, f)
  <1> DEFINE D == DOMAIN Archives
             step == [i \in 1 .. n |-> [a \in D |-> Held(p, i, a)]]
  <1>1. step \in [1 .. n -> [D -> D]]
    BY HeldType
  <1>2. \A i \in 1 .. n : \A a \in D : step[i][a] = Held(p, i, a)
    OBVIOUS
  <1>0. root \in D
    OBVIOUS
  <1> HIDE DEF step, D
  <1>3. PICK f \in [0 .. n -> D] : f[0] = root /\ \A i \in 1 .. n : f[i] = step[i][f[i - 1]]
    BY <1>0, <1>1, StepByStep
  <1>4. ASSUME NEW i \in 1 .. n PROVE f[i] = Held(p, i, f[i - 1])
    <2>1. i - 1 \in 0 .. n
      OBVIOUS
    <2>2. QED
      BY <1>2, <1>3, <2>1
  <1>5. ASSUME NEW k \in 1 .. (n + 1) PROVE Holder(root, p, k) = Archives[f[k - 1]]
    <2> DEFINE F(g) == [i \in 1 .. k |-> IF i = 1 THEN root
                          ELSE IF p[i - 1] \in DOMAIN Archives[g[i - 1]].entries
                               THEN Archives[g[i - 1]].entries[p[i - 1]].holds ELSE g[i - 1]]
               found == CHOOSE g : g = F(g)
               h == [i \in 1 .. k |-> f[i - 1]]
    <2>1. Holder(root, p, k) = Archives[found[k]]
      BY DEF Holder
    <2>2. ASSUME NEW i \in 1 .. k
          PROVE  i - 1 \in 0 .. n /\ (i # 1 => i - 1 \in 1 .. n /\ i - 1 \in 1 .. k)
      OBVIOUS
    <2>3. ASSUME NEW i \in 1 .. k
          PROVE  h[i] = IF i = 1 THEN root ELSE Held(p, i - 1, h[i - 1])
      <3>1. CASE i = 1
        BY <1>3, <3>1
      <3>2. CASE i # 1
        <4>1. i - 1 \in 1 .. n /\ i - 1 \in 1 .. k
          BY <2>2, <3>2
        <4>2. f[i - 1] = Held(p, i - 1, f[(i - 1) - 1])
          BY <1>4, <4>1
        <4>3. h[i] = f[i - 1] /\ h[i - 1] = f[(i - 1) - 1]
          BY <4>1
        <4>4. QED
          BY <3>2, <4>2, <4>3
      <3>3. QED
        BY <3>1, <3>2
    <2>4. DOMAIN h = 1 .. k /\ h = [i \in DOMAIN h |-> h[i]] /\ \A i \in 1 .. k : h[i] = f[i - 1]
      BY Zenon
    <2> HIDE DEF h
    <2>5. h = F(h)
      BY <2>3, <2>4, Zenon DEF Held
    <2>6. found = F(found)
      BY <2>5, Zenon
    <2> HIDE DEF found
    <2>7. \A i \in 1 .. k : found[i] = IF i = 1 THEN root ELSE Held(p, i - 1, found[i - 1])
      BY <2>6, Zenon DEF Held
    <2> DEFINE Wrong == {i \in 1 .. k : found[i] # h[i]}
    <2>8. Wrong = {}
      <3> SUFFICES ASSUME Wrong # {} PROVE FALSE
        OBVIOUS
      <3>1. PICK m \in Wrong : \A j \in Wrong : m <= j
        <4>1. Wrong \in SUBSET Nat
          OBVIOUS
        <4>2. QED
          BY <4>1, LeastIs
      <3>2. m \in 1 .. k /\ found[m] # h[m]
        OBVIOUS
      <3>3. m # 1
        BY <2>3, <2>7, <3>2
      <3>4. m - 1 \in 1 .. k /\ ~(m <= m - 1)
        BY <3>2, <3>3
      <3>5. found[m - 1] = h[m - 1]
        BY <3>1, <3>4
      <3>6. QED
        BY <2>3, <2>7, <3>2, <3>3, <3>5
    <2>9. k \in 1 .. k
      OBVIOUS
    <2>10. found[k] = f[k - 1]
      BY <2>4, <2>8, <2>9
    <2>11. QED
      BY <2>1, <2>10
  <1>6. Chained(root, p, n, f)
    BY <1>3, <1>4, <1>5 DEF Chained
  <1>7. QED
    BY <1>6 DEF D

LEMMA HolderIs ==
  ASSUME NEW root \in DOMAIN Archives, NEW p, NEW k \in Nat, k # 0
  PROVE  /\ Holder(root, p, 1) = Archives[root]
         /\ \E a \in DOMAIN Archives :
              /\ Holder(root, p, k) = Archives[a]
              /\ Holder(root, p, k + 1) = Archives[Held(p, k, a)]
  <1>1. PICK f \in [0 .. k -> DOMAIN Archives] : Chained(root, p, k, f)
    BY HolderChain
  <1>2. /\ 1 \in 1 .. (k + 1) /\ k \in 1 .. (k + 1) /\ k + 1 \in 1 .. (k + 1) /\ k \in 1 .. k /\ k - 1 \in 0 .. k
        /\ 1 - 1 = 0 /\ (k + 1) - 1 = k
    OBVIOUS
  <1>3. Holder(root, p, 1) = Archives[f[1 - 1]] /\ Holder(root, p, k) = Archives[f[k - 1]]
        /\ Holder(root, p, k + 1) = Archives[f[(k + 1) - 1]]
    BY <1>1, <1>2, Zenon DEF Chained
  <1>4. f[k] = Held(p, k, f[k - 1]) /\ f[k - 1] \in DOMAIN Archives
    BY <1>1, <1>2 DEF Chained
  <1>5. Holder(root, p, 1) = Archives[root] /\ Holder(root, p, k + 1) = Archives[f[k]]
    BY <1>1, <1>2, <1>3 DEF Chained
  <1>6. QED
    BY <1>3, <1>4, <1>5

\* Two ways with the same beginning lead to the same archive.
LEMMA HolderSame ==
  ASSUME NEW root \in DOMAIN Archives, NEW p, NEW q, NEW k \in Nat, k # 0,
         \A i \in 1 .. (k - 1) : p[i] = q[i]
  PROVE  Holder(root, p, k) = Holder(root, q, k)
  <1>1. PICK f \in [0 .. k -> DOMAIN Archives] : Chained(root, p, k, f)
    BY HolderChain
  <1>2. PICK g \in [0 .. k -> DOMAIN Archives] : Chained(root, q, k, g)
    BY HolderChain
  <1> DEFINE Wrong == {i \in 0 .. (k - 1) : f[i] # g[i]}
  <1>3. Wrong = {}
    <2> SUFFICES ASSUME Wrong # {} PROVE FALSE
      OBVIOUS
    <2>1. PICK m \in Wrong : \A j \in Wrong : m <= j
      <3>1. Wrong \in SUBSET Nat
        OBVIOUS
      <3>2. QED
        BY <3>1, LeastIs
    <2>2. m \in 0 .. (k - 1) /\ f[m] # g[m] /\ m # 0
      BY <1>1, <1>2 DEF Chained
    <2>3. m - 1 \in 0 .. (k - 1) /\ ~(m <= m - 1) /\ m \in 1 .. (k - 1) /\ m \in 1 .. k
      BY <2>2
    <2>4. f[m - 1] = g[m - 1] /\ p[m] = q[m]
      BY <2>1, <2>3
    <2>5. f[m] = Held(p, m, f[m - 1]) /\ g[m] = Held(q, m, g[m - 1])
      BY <1>1, <1>2, <2>3 DEF Chained
    <2>6. QED
      BY <2>2, <2>4, <2>5 DEF Held
  <1>4. k \in 1 .. (k + 1) /\ k - 1 \in 0 .. (k - 1)
    OBVIOUS
  <1>5. f[k - 1] = g[k - 1]
    BY <1>3, <1>4
  <1>6. QED
    BY <1>1, <1>2, <1>4, <1>5 DEF Chained

LEMMA LowerThan ==
  ASSUME NEW n \in Nat, NEW m \in 1 .. n, NEW i \in 1 .. m, i # m
  PROVE  i \in 1 .. (m - 1) /\ i \in 1 .. n
  OBVIOUS

\* Every list of entries is at most as long as the longest.
LEMMA LongestIs ==
  /\ Longest \in Nat
  /\ \A a \in DOMAIN Archives : Len(Archives[a].entries) <= Longest
  <1> DEFINE S == {Len(Archives[a].entries) : a \in DOMAIN Archives} \cup {1}
  <1>1. S \in SUBSET Nat
    BY ArchivesAssumption
  <1>2. IsFiniteSet(S)
    <2> DEFINE T == {Len(Archives[a].entries) : a \in DOMAIN Archives}
               f == [a \in DOMAIN Archives |-> Len(Archives[a].entries)]
    <2>1. f \in Surjection(DOMAIN Archives, T)
      BY DEF Surjection
    <2>2. IsFiniteSet(T)
      BY <2>1, ArchivesAreFinite, FS_Surjection
    <2>3. QED
      BY <2>2, FS_AddElement
  <1> HIDE DEF S
  <1> DEFINE n == Cardinality(S)
  <1>3. n \in Nat /\ ExistsBijection(1 .. n, S)
    BY <1>2, FS_CardinalityType
  <1>4. PICK f \in [1 .. n -> S] : \A s \in S : \E i \in 1 .. n : f[i] = s
    BY <1>3 DEF ExistsBijection, Bijection, Surjection
  <1> HIDE DEF n
  <1> DEFINE Bad == {m \in 0 .. n : ~ \E b \in Nat : \A i \in 1 .. m : f[i] <= b}
  <1>5. Bad = {}
    <2> SUFFICES ASSUME Bad # {} PROVE FALSE
      OBVIOUS
    <2>1. PICK m \in Bad : \A j \in Bad : m <= j
      <3>1. Bad \in SUBSET Nat
        BY <1>3
      <3>2. QED
        BY <3>1, LeastIs
    <2>2. m \in 0 .. n /\ ~ \E b \in Nat : \A i \in 1 .. m : f[i] <= b
      OBVIOUS
    <2> HIDE DEF Bad
    <2>3. m # 0
      <3>1. \A i \in 1 .. 0 : f[i] <= 0
        OBVIOUS
      <3>2. QED
        BY <2>2, <3>1
    <2>4. m - 1 \in 0 .. n /\ ~(m <= m - 1) /\ m \in 1 .. n
      BY <1>3, <2>2, <2>3
    <2>5. PICK b \in Nat : \A i \in 1 .. (m - 1) : f[i] <= b
      BY <2>1, <2>4, Zenon DEF Bad
    <2> DEFINE c == f[m]
    <2>6. c \in Nat
      BY <1>1, <1>4, <2>4
    <2> HIDE DEF c
    <2>7. b + c \in Nat
      BY <2>6
    <2>8. ASSUME NEW i \in 1 .. m PROVE f[i] <= b + c
      <3>1. CASE i = m
        BY <2>6, <3>1 DEF c
      <3>2. CASE i # m
        <4>1. i \in 1 .. (m - 1) /\ i \in 1 .. n
          BY <1>3, <2>4, <3>2, LowerThan
        <4>2. f[i] <= b /\ f[i] \in Nat
          BY <1>1, <1>4, <2>5, <4>1
        <4>3. PICK d \in Nat : d = f[i]
          BY <4>2
        <4>4. d <= b + c
          BY <2>6, <4>2, <4>3
        <4>5. QED
          BY <4>3, <4>4
      <3>3. QED
        BY <3>1, <3>2
    <2>9. QED
      BY <2>2, <2>7, <2>8
  <1>6. n \in 0 .. n
    BY <1>3
  <1>7. PICK b \in Nat : \A i \in 1 .. n : f[i] <= b
    BY <1>5, <1>6
  <1>8. \A s \in S : s <= b
    BY <1>4, <1>7
  <1>9. S \in SUBSET (0 .. b) /\ S # {}
    BY <1>1, <1>8 DEF S
  <1>10. Greatest(S) \in S /\ \A j \in S : j <= Greatest(S)
    BY <1>9, GreatestIs
  <1>11. \E i \in S : \A j \in S : i >= j
    BY <1>1, <1>10
  <1>12. Max(S) \in S /\ \A j \in S : Max(S) >= j
    BY <1>11, Zenon DEF Max
  <1>13. Longest = Max(S)
    BY DEF Longest, S
  <1>14. \A a \in DOMAIN Archives : Len(Archives[a].entries) \in S
    BY DEF S
  <1>15. QED
    BY <1>1, <1>12, <1>13, <1>14

\* Ways are short sequences of positions, and there are finitely many.
LEMMA FunctionsFinite ==
  ASSUME NEW n \in Nat, NEW T, IsFiniteSet(T)
  PROVE  IsFiniteSet([1 .. n -> T])
  <1> DEFINE G(f) == {<<i, f[i]>> : i \in 1 .. n}
             S == [1 .. n -> T]
             U == SUBSET ((1 .. n) \X T)
             h == [f \in S |-> G(f)]
  <1>1. IsFiniteSet(1 .. n)
    BY FS_Interval
  <1>2. IsFiniteSet((1 .. n) \X T)
    BY <1>1, FS_Product
  <1>3. IsFiniteSet(U)
    BY <1>2, FS_SUBSET
  <1>4. h \in [S -> U]
    OBVIOUS
  <1>5. ASSUME NEW f \in S, NEW g \in S, h[f] = h[g] PROVE f = g
    <2>1. G(f) = G(g)
      BY <1>5
    <2>2. ASSUME NEW i \in 1 .. n PROVE f[i] = g[i]
      <3>1. <<i, f[i]>> \in G(g)
        BY <2>1
      <3>2. PICK j \in 1 .. n : <<i, f[i]>> = <<j, g[j]>>
        BY <3>1
      <3>3. QED
        BY <3>2
    <2>3. QED
      BY <2>2
  <1>6. h \in Injection(S, U)
    BY <1>4, <1>5 DEF Injection, IsInjective
  <1>7. QED
    BY <1>3, <1>6, FS_Injection

Spots == UNION {[1 .. n -> 1 .. Longest] : n \in 1 .. (MaxDepth + 1)}

LEMMA SpotsFinite == IsFiniteSet(Spots)
  <1> DEFINE L == {[1 .. n -> 1 .. Longest] : n \in 1 .. (MaxDepth + 1)}
             f == [n \in 1 .. (MaxDepth + 1) |-> [1 .. n -> 1 .. Longest]]
  <1>1. IsFiniteSet(1 .. (MaxDepth + 1)) /\ IsFiniteSet(1 .. Longest)
    <2>1. MaxDepth + 1 \in Int /\ Longest \in Int
      BY CapsAssumption, LongestIs
    <2>2. QED
      BY <2>1, FS_Interval
  <1>2. f \in Surjection(1 .. (MaxDepth + 1), L)
    BY DEF Surjection
  <1>3. IsFiniteSet(L)
    BY <1>1, <1>2, FS_Surjection
  <1>4. ASSUME NEW S \in L PROVE IsFiniteSet(S)
    <2>1. PICK n \in 1 .. (MaxDepth + 1) : S = [1 .. n -> 1 .. Longest]
      OBVIOUS
    <2>2. n \in Nat
      OBVIOUS
    <2>3. QED
      BY <1>1, <2>1, <2>2, FunctionsFinite
  <1>5. QED
    BY <1>3, <1>4, FS_UNION DEF Spots

LEMMA SpotType ==
  ASSUME NEW p \in Spots
  PROVE  /\ Len(p) \in 1 .. (MaxDepth + 1) /\ p \in [1 .. Len(p) -> 1 .. Longest] /\ DOMAIN p = 1 .. Len(p)
         /\ p \in Seq(Nat)
  <1>1. PICK n \in 1 .. (MaxDepth + 1) : p \in [1 .. n -> 1 .. Longest]
    BY DEF Spots
  <1>2. Len(p) = n
    BY <1>1
  <1>3. QED
    BY <1>1, <1>2

LEMMA WaysAre ==
  ASSUME NEW root
  PROVE  Ways(root) = {p \in Spots : Leads(root, p)} /\ IsFiniteSet(Ways(root)) /\ Cardinality(Ways(root)) \in Nat
  <1>1. Ways(root) = {p \in Spots : Leads(root, p)}
    BY DEF Ways, Spots
  <1>2. IsFiniteSet(Ways(root))
    BY <1>1, SpotsFinite, FS_Subset
  <1>3. QED
    BY <1>1, <1>2, FS_CardinalityType

LEMMA HolderType ==
  ASSUME NEW root \in DOMAIN Archives, NEW p, NEW k \in Nat, k # 0
  PROVE  /\ Holder(root, p, k).form \in ArchiveForms /\ Holder(root, p, k).entries \in Seq(Entries)
         /\ EntryCap[Holder(root, p, k).form] \in Nat /\ Limit[Holder(root, p, k).form] \in Nat
  <1>1. PICK a \in DOMAIN Archives : Holder(root, p, k) = Archives[a]
    BY HolderIs
  <1>2. Archives[a].form \in ArchiveForms /\ Archives[a].entries \in Seq(Entries)
    BY ArchivesAssumption
  <1>3. QED
    BY <1>1, <1>2, CapsAssumption

LEMMA SizeAtIs ==
  ASSUME NEW root \in DOMAIN Archives, NEW p \in Ways(root)
  PROVE  /\ EntryAt(root, p) \in Entries /\ CapAt(root, p) \in Nat /\ SizeAt(root, p) \in Nat
         /\ SizeAt(root, p) = IF EntryAt(root, p).size > CapAt(root, p) THEN CapAt(root, p) ELSE EntryAt(root, p).size
  <1>1. p \in Spots /\ Leads(root, p)
    BY WaysAre
  <1>2. Len(p) \in Nat /\ Len(p) # 0 /\ Len(p) \in DOMAIN p
    BY <1>1, SpotType
  <1>3. Holder(root, p, Len(p)).entries \in Seq(Entries) /\ CapAt(root, p) \in Nat
    BY <1>2, HolderType DEF CapAt
  <1>4. p[Len(p)] \in DOMAIN Holder(root, p, Len(p)).entries
    BY <1>1, <1>2 DEF Leads
  <1>5. EntryAt(root, p) \in Entries
    BY <1>3, <1>4 DEF EntryAt
  <1>6. EntryAt(root, p).size \in Nat
    BY <1>5 DEF Entries
  <1> DEFINE s == EntryAt(root, p).size
             c == CapAt(root, p)
  <1>7. SizeAt(root, p) = Min({s, c})
    BY DEF SizeAt
  <1>8. s \in Nat /\ c \in Nat
    BY <1>3, <1>6
  <1> HIDE DEF s, c
  <1> DEFINE m == IF s > c THEN c ELSE s
  <1>9. m \in {s, c} /\ \A y \in {s, c} : m <= y
    BY <1>8
  <1>10. Min({s, c}) \in {s, c} /\ \A y \in {s, c} : Min({s, c}) <= y
    BY <1>9, Zenon DEF Min
  <1>11. Min({s, c}) = m
    BY <1>8, <1>10
  <1>12. QED
    BY <1>3, <1>5, <1>7, <1>8, <1>11 DEF s, c

------------------------------------------------------------------------------
(* The archives that are open, and the documents that each of them has given. *)
Docs == [path : Spots, shown : {{1}}]
Slack(form) == IF form = "jar" THEN EntryCap[form] ELSE 0
FrameSet == [archive : DOMAIN Archives, next : Nat \ {0}, seen : Nat, total : Nat,
             docs : Seq(Docs)]
PathsOf(docs) == {docs[j].path : j \in DOMAIN docs}
Own(docs, k) == {p \in PathsOf(docs) : Len(p) = k}

\* The way to entry i of the k-th open archive, and the ways that begin like it.
Spot(fs, k, i) == [m \in 1 .. k |-> IF m = k THEN i ELSE fs[m].next]
Along(fs, k, p) == Len(p) >= k /\ \A m \in 1 .. (k - 1) : p[m] = fs[m].next

Linked(a, fs) ==
  /\ fs \in Seq(FrameSet) /\ Len(fs) \in 1 .. (MaxDepth + 1) /\ fs[1].archive = a
  /\ \A k \in 1 .. (Len(fs) - 1) :
       /\ fs[k].next \in DOMAIN EntriesOf(fs[k]) /\ Form(fs[k]) # "jar"
       /\ EntriesOf(fs[k])[fs[k].next].kind = "nested"
       /\ EntriesOf(fs[k])[fs[k].next].holds = fs[k + 1].archive
       /\ ~Archives[fs[k + 1].archive].broken

\* What the documents beside one another may be, as ArchivesFit has it.
FitsIn(a, P, p) ==
  LET form == Holder(a, p, Len(p)).form
  IN /\ Cardinality(Beside(P, p)) <= Limit[form]
     /\ SizeOf(a, Beside(P, p)) <= TotalCap + Slack(form)

Placed(a, fs, k) ==
  \A p \in PathsOf(fs[k].docs) :
    /\ p \in Ways(a) /\ Readable(a, p) /\ Along(fs, k, p) /\ p[k] < fs[k].next
    /\ Len(p) > k => FitsIn(a, PathsOf(fs[k].docs), p)
Tallied(a, fs, k) ==
  /\ fs[k].seen < fs[k].next /\ fs[k].next <= Len(EntriesOf(fs[k])) + 1
  /\ Cardinality(PathsOf(fs[k].docs)) = Len(fs[k].docs)
  /\ fs[k].total = SizeOf(a, Own(fs[k].docs, k)) /\ fs[k].total <= TotalCap + Slack(Form(fs[k]))
  /\ Cardinality(Own(fs[k].docs, k)) <= Limit[Form(fs[k])]
  /\ Form(fs[k]) = "tar" => Cardinality(Own(fs[k].docs, k)) <= fs[k].seen
Whole(a, fs, k) ==
  Small(a) => \A p \in Ways(a) :
    Readable(a, p) /\ Along(fs, k, p) /\ p[k] < fs[k].next => p \in PathsOf(fs[k].docs)
FrameOK(a, fs, k) == Placed(a, fs, k) /\ Tallied(a, fs, k) /\ Whole(a, fs, k)

\* The archives that are open and what each has given.
Opened(a, fs) == Linked(a, fs) /\ \A k \in 1 .. Len(fs) : FrameOK(a, fs, k)

\* An entry that is an archive holds what the way continues in.
LEMMA HolderNext ==
  ASSUME NEW root \in DOMAIN Archives, NEW p, NEW k \in Nat, k # 0, p[k] \in DOMAIN Holder(root, p, k).entries
  PROVE  Holder(root, p, k + 1) = Archives[Holder(root, p, k).entries[p[k]].holds]
  <1>1. PICK a \in DOMAIN Archives :
          Holder(root, p, k) = Archives[a] /\ Holder(root, p, k + 1) = Archives[Held(p, k, a)]
    BY HolderIs
  <1>2. Held(p, k, a) = Archives[a].entries[p[k]].holds
    BY <1>1 DEF Held
  <1>3. QED
    BY <1>1, <1>2

LEMMA FrameFacts ==
  ASSUME NEW a, NEW fs, Linked(a, fs), NEW k \in 1 .. Len(fs)
  PROVE  /\ k \in Nat /\ k # 0 /\ k \in 1 .. (MaxDepth + 1)
         /\ fs[k] \in FrameSet /\ fs[k].archive \in DOMAIN Archives /\ fs[k].next \in Nat /\ fs[k].next # 0
         /\ fs[k].seen \in Nat /\ fs[k].total \in Nat /\ fs[k].docs \in Seq(Docs)
         /\ Form(fs[k]) \in ArchiveForms /\ EntriesOf(fs[k]) \in Seq(Entries)
         /\ Len(EntriesOf(fs[k])) <= Longest
         /\ EntryCap[Form(fs[k])] \in Nat /\ Limit[Form(fs[k])] \in Nat
  <1>1. fs \in Seq(FrameSet) /\ Len(fs) \in 1 .. (MaxDepth + 1)
    BY DEF Linked
  <1>2. fs[k] \in FrameSet /\ k \in Nat /\ k # 0 /\ k \in 1 .. (MaxDepth + 1)
    BY <1>1, CapsAssumption
  <1>3. fs[k].archive \in DOMAIN Archives /\ fs[k].next \in Nat \ {0} /\ fs[k].seen \in Nat /\ fs[k].total \in Nat
        /\ fs[k].docs \in Seq(Docs)
    BY <1>2 DEF FrameSet
  <1>4. Form(fs[k]) \in ArchiveForms /\ EntriesOf(fs[k]) \in Seq(Entries)
    BY <1>3, ArchivesAssumption DEF Form, EntriesOf
  <1>5. Len(EntriesOf(fs[k])) <= Longest
    BY <1>3, LongestIs DEF EntriesOf
  <1>6. EntryCap[Form(fs[k])] \in Nat /\ Limit[Form(fs[k])] \in Nat
    BY <1>4, CapsAssumption
  <1>7. QED
    BY <1>2, <1>3, <1>4, <1>5, <1>6

\* A way along the open archives leads through them.
LEMMA HolderOfFrame ==
  ASSUME NEW a \in DOMAIN Archives, NEW fs, Linked(a, fs), NEW p, NEW n \in 1 .. Len(fs),
         \A m \in 1 .. (n - 1) : p[m] = fs[m].next
  PROVE  \A k \in 1 .. n : Holder(a, p, k) = Archives[fs[k].archive]
  <1> DEFINE Wrong == {k \in 1 .. n : Holder(a, p, k) # Archives[fs[k].archive]}
  <1>0. n \in Nat /\ Len(fs) \in Nat /\ n <= Len(fs)
    BY FrameFacts DEF Linked
  <1>1. Wrong = {}
    <2> SUFFICES ASSUME Wrong # {} PROVE FALSE
      OBVIOUS
    <2>1. PICK k \in Wrong : \A j \in Wrong : k <= j
      <3>1. Wrong \in SUBSET Nat
        OBVIOUS
      <3>2. QED
        BY <3>1, LeastIs
    <2>2. k \in 1 .. n /\ Holder(a, p, k) # Archives[fs[k].archive]
      OBVIOUS
    <2> HIDE DEF Wrong
    <2>3. k # 1
      <3>1. Holder(a, p, 1) = Archives[a]
        BY <1>0, HolderIs
      <3>2. fs[1].archive = a
        BY DEF Linked
      <3>3. QED
        BY <2>2, <3>1, <3>2
    <2>4. PICK j \in Nat : j = k - 1
      BY <2>2, <2>3
    <2>5. j # 0 /\ j \in 1 .. n /\ j \in 1 .. (n - 1) /\ j \in 1 .. (Len(fs) - 1) /\ ~(k <= j) /\ j + 1 = k
      BY <1>0, <2>2, <2>3, <2>4
    <2>6. Holder(a, p, j) = Archives[fs[j].archive]
      BY <2>1, <2>5 DEF Wrong
    <2>7. /\ p[j] = fs[j].next /\ fs[j].next \in DOMAIN EntriesOf(fs[j])
          /\ EntriesOf(fs[j])[fs[j].next].holds = fs[k].archive
      BY <2>5 DEF Linked
    <2>8. Holder(a, p, k) = Archives[Holder(a, p, j).entries[p[j]].holds]
      <3>1. p[j] \in DOMAIN Holder(a, p, j).entries
        BY <2>6, <2>7 DEF EntriesOf
      <3>2. Holder(a, p, j + 1) = Archives[Holder(a, p, j).entries[p[j]].holds]
        BY <2>5, <3>1, HolderNext
      <3>3. QED
        BY <2>5, <3>2
    <2>9. QED
      BY <2>2, <2>6, <2>7, <2>8 DEF EntriesOf
  <1>2. QED
    BY <1>1

LEMMA AlongHolder ==
  ASSUME NEW a \in DOMAIN Archives, NEW fs, Linked(a, fs), NEW k \in 1 .. Len(fs), NEW p, Along(fs, k, p)
  PROVE  Holder(a, p, k) = Archives[fs[k].archive]
  <1>1. \A m \in 1 .. (k - 1) : p[m] = fs[m].next
    BY DEF Along
  <1>2. k \in 1 .. k
    BY FrameFacts
  <1>3. \A m \in 1 .. k : Holder(a, p, m) = Archives[fs[m].archive]
    BY <1>1, HolderOfFrame, SMTT(60)
  <1>4. QED
    BY <1>2, <1>3, Zenon

\* The kinds of entries that are documents.
TextKinds(form) == IF form = "jar" THEN {"text", "class"} ELSE {"text", "outside"}

\* What a way along the open archives finds there.
LEMMA WayAlong ==
  ASSUME NEW a \in DOMAIN Archives, NEW fs, Linked(a, fs), NEW k \in 1 .. Len(fs),
         NEW p \in Ways(a), Along(fs, k, p)
  PROVE  /\ p[k] \in DOMAIN EntriesOf(fs[k]) /\ Len(p) \in Nat
         /\ Len(p) = k => /\ p = Spot(fs, k, p[k])
                          /\ EntryAt(a, p) = EntriesOf(fs[k])[p[k]] /\ CapAt(a, p) = EntryCap[Form(fs[k])]
                          /\ Readable(a, p) <=> EntriesOf(fs[k])[p[k]].kind \in TextKinds(Form(fs[k]))
         /\ Len(p) # k => /\ Form(fs[k]) # "jar" /\ EntriesOf(fs[k])[p[k]].kind = "nested"
                          /\ ~Archives[EntriesOf(fs[k])[p[k]].holds].broken /\ k <= MaxDepth
  <1>1. Holder(a, p, k) = Archives[fs[k].archive]
    BY AlongHolder
  <1>2. p \in Spots /\ Leads(a, p)
    BY WaysAre
  <1>3. Len(p) \in 1 .. (MaxDepth + 1) /\ DOMAIN p = 1 .. Len(p) /\ p \in [1 .. Len(p) -> 1 .. Longest]
    BY <1>2, SpotType
  <1>4. Len(p) >= k /\ k \in Nat /\ k # 0 /\ (\A m \in 1 .. (k - 1) : p[m] = fs[m].next)
    BY FrameFacts DEF Along
  <1>5. k \in DOMAIN p
    BY <1>3, <1>4
  <1>6. p[k] \in DOMAIN EntriesOf(fs[k])
    BY <1>1, <1>2, <1>5 DEF Leads, EntriesOf
  <1>7. ASSUME Len(p) = k
        PROVE  /\ p = Spot(fs, k, p[k])
               /\ EntryAt(a, p) = EntriesOf(fs[k])[p[k]] /\ CapAt(a, p) = EntryCap[Form(fs[k])]
               /\ Readable(a, p) <=> EntriesOf(fs[k])[p[k]].kind \in TextKinds(Form(fs[k]))
    <2>1. DOMAIN p = 1 .. k /\ p = [m \in DOMAIN p |-> p[m]]
      BY <1>3, <1>7
    <2>2. \A m \in 1 .. k : m # k => m \in 1 .. (k - 1)
      BY <1>4
    <2>3. p = Spot(fs, k, p[k])
      BY <1>4, <2>1, <2>2 DEF Spot
    <2>4. EntryAt(a, p) = EntriesOf(fs[k])[p[k]] /\ CapAt(a, p) = EntryCap[Form(fs[k])]
      BY <1>1, <1>7 DEF EntryAt, CapAt, EntriesOf, Form
    <2>5. Readable(a, p) <=> EntriesOf(fs[k])[p[k]].kind \in TextKinds(Form(fs[k]))
      BY <1>1, <1>7, <2>4 DEF Readable, TextKinds, Form
    <2>6. QED
      BY <2>3, <2>4, <2>5
  <1>8. ASSUME Len(p) # k
        PROVE  /\ Form(fs[k]) # "jar" /\ EntriesOf(fs[k])[p[k]].kind = "nested"
               /\ ~Archives[EntriesOf(fs[k])[p[k]].holds].broken /\ k <= MaxDepth
    <2>0. MaxDepth \in Nat /\ Len(p) \in 1 .. (MaxDepth + 1) /\ Len(p) >= k /\ k \in Nat
      BY <1>3, <1>4, CapsAssumption, Zenon
    <2>1. k < Len(p) /\ k <= MaxDepth
      BY <1>8, <2>0
    <2>2. /\ Holder(a, p, k).form # "jar" /\ Holder(a, p, k).entries[p[k]].kind = "nested"
          /\ ~Holder(a, p, k + 1).broken
      BY <1>2, <1>5, <2>1 DEF Leads
    <2>3. Holder(a, p, k + 1) = Archives[Holder(a, p, k).entries[p[k]].holds]
      <3>1. p[k] \in DOMAIN Holder(a, p, k).entries
        BY <1>1, <1>6 DEF EntriesOf
      <3>2. QED
        BY <1>4, <3>1, HolderNext
    <2>4. QED
      BY <1>1, <2>1, <2>2, <2>3 DEF Form, EntriesOf
  <1>9. Len(p) \in Nat
    BY <1>3
  <1>10. QED
    BY <1>6, <1>7, <1>8, <1>9, Zenon

\* Every entry of an open archive has a way.
LEMMA SpotIsWay ==
  ASSUME NEW a \in DOMAIN Archives, NEW fs, Linked(a, fs), NEW k \in 1 .. Len(fs),
         NEW i \in DOMAIN EntriesOf(fs[k])
  PROVE  /\ Spot(fs, k, i) \in Ways(a) /\ Len(Spot(fs, k, i)) = k /\ Spot(fs, k, i)[k] = i
         /\ Along(fs, k, Spot(fs, k, i))
  <1> DEFINE p == Spot(fs, k, i)
  <1>1. k \in Nat /\ k # 0 /\ k \in 1 .. (MaxDepth + 1) /\ Len(fs) \in Nat /\ Longest \in Nat /\ k <= Len(fs)
    <2>1. Len(fs) \in 1 .. (MaxDepth + 1)
      BY DEF Linked
    <2>2. Len(fs) \in Nat /\ k <= Len(fs)
      BY <2>1
    <2>3. QED
      BY <2>2, FrameFacts, LongestIs
  <1>2. DOMAIN p = 1 .. k /\ p[k] = i /\ (\A m \in 1 .. (k - 1) : p[m] = fs[m].next)
    BY <1>1 DEF Spot
  <1>3. ASSUME NEW m \in 1 .. k PROVE p[m] \in DOMAIN EntriesOf(fs[m]) /\ p[m] \in 1 .. Longest
    <2>1. m \in 1 .. Len(fs)
      BY <1>1
    <2>2. EntriesOf(fs[m]) \in Seq(Entries) /\ Len(EntriesOf(fs[m])) <= Longest
      BY <2>1, FrameFacts
    <2>3. p[m] \in DOMAIN EntriesOf(fs[m])
      <3>1. CASE m = k
        BY <1>2, <3>1
      <3>2. CASE m # k
        <4>1. m \in 1 .. (k - 1) /\ m \in 1 .. (Len(fs) - 1)
          BY <1>1, <3>2
        <4>2. QED
          BY <1>2, <4>1 DEF Linked
      <3>3. QED
        BY <3>1, <3>2
    <2>4. QED
      BY <1>1, <2>2, <2>3
  <1>4. p \in [1 .. k -> 1 .. Longest]
    BY <1>3 DEF Spot
  <1> HIDE DEF p
  <1>5. Len(p) = k /\ p \in Spots
    BY <1>1, <1>4 DEF Spots
  <1>6. Along(fs, k, p)
    BY <1>1, <1>2, <1>5 DEF Along
  <1>7. \A m \in 1 .. k : Holder(a, p, m) = Archives[fs[m].archive]
    BY <1>2, HolderOfFrame
  <1>8. ASSUME NEW m \in DOMAIN p
        PROVE  /\ p[m] \in DOMAIN Holder(a, p, m).entries
               /\ m < Len(p) => /\ Holder(a, p, m).form # "jar"
                                /\ Holder(a, p, m).entries[p[m]].kind = "nested"
                                /\ ~Holder(a, p, m + 1).broken
    <2>1. m \in 1 .. k /\ Holder(a, p, m) = Archives[fs[m].archive]
      BY <1>2, <1>7
    <2>2. p[m] \in DOMAIN Holder(a, p, m).entries
      BY <1>3, <2>1 DEF EntriesOf
    <2>3. ASSUME m < Len(p)
          PROVE  /\ Holder(a, p, m).form # "jar"
                 /\ Holder(a, p, m).entries[p[m]].kind = "nested"
                 /\ ~Holder(a, p, m + 1).broken
      <3>1. m \in 1 .. (k - 1) /\ m \in 1 .. (Len(fs) - 1) /\ m + 1 \in 1 .. k
        BY <1>1, <1>5, <2>1, <2>3
      <3>2. p[m] = fs[m].next /\ Holder(a, p, m + 1) = Archives[fs[m + 1].archive]
        BY <1>2, <1>7, <3>1
      <3>3. /\ Form(fs[m]) # "jar" /\ EntriesOf(fs[m])[fs[m].next].kind = "nested"
            /\ ~Archives[fs[m + 1].archive].broken
        BY <3>1 DEF Linked
      <3>4. QED
        BY <2>1, <3>2, <3>3 DEF Form, EntriesOf
    <2>4. QED
      BY <2>2, <2>3
  <1>9. Leads(a, p)
    BY <1>8 DEF Leads
  <1>10. QED
    BY <1>2, <1>5, <1>6, <1>9, WaysAre DEF p

------------------------------------------------------------------------------
(* The documents of an archive. *)
LEMMA AsMany ==
  ASSUME NEW n \in Nat
  PROVE  Cardinality(1 .. n) = n
  <1>1. Cardinality(1 .. n) = IF 1 > n THEN 0 ELSE n - 1 + 1
    BY FS_Interval
  <1>2. QED
    BY <1>1

LEMMA Together ==
  ASSUME NEW S, NEW T, IsFiniteSet(S), IsFiniteSet(T), S \cap T = {}
  PROVE  Cardinality(S \cup T) = Cardinality(S) + Cardinality(T)
  <1>1. Cardinality(S \cup T) = Cardinality(S) + Cardinality(T) - Cardinality({})
    BY FS_Union
  <1>2. Cardinality({}) = 0
    BY FS_EmptySet
  <1>3. Cardinality(S) \in Nat /\ Cardinality(T) \in Nat
    BY FS_CardinalityType
  <1>4. QED
    BY <1>1, <1>2, <1>3

LEMMA PathsMore ==
  ASSUME NEW docs \in Seq(Docs), NEW more \in Seq(Docs)
  PROVE  /\ docs \o more \in Seq(Docs) /\ Len(docs \o more) = Len(docs) + Len(more)
         /\ PathsOf(docs \o more) = PathsOf(docs) \cup PathsOf(more)
         /\ \A k : Own(docs \o more, k) = Own(docs, k) \cup Own(more, k)
  <1> DEFINE all == docs \o more
  <1>1. all \in Seq(Docs) /\ Len(all) = Len(docs) + Len(more) /\ Len(docs) \in Nat /\ Len(more) \in Nat
    OBVIOUS
  <1>2. ASSUME NEW j \in DOMAIN all
        PROVE  \/ j \in DOMAIN docs /\ all[j] = docs[j]
               \/ j - Len(docs) \in DOMAIN more /\ all[j] = more[j - Len(docs)]
    OBVIOUS
  <1>3. ASSUME NEW j \in DOMAIN docs PROVE j \in DOMAIN all /\ all[j] = docs[j]
    OBVIOUS
  <1>4. ASSUME NEW j \in DOMAIN more PROVE j + Len(docs) \in DOMAIN all /\ all[j + Len(docs)] = more[j]
    OBVIOUS
  <1> HIDE DEF all
  <1>5. PathsOf(all) = PathsOf(docs) \cup PathsOf(more)
    <2>1. ASSUME NEW p \in PathsOf(all) PROVE p \in PathsOf(docs) \cup PathsOf(more)
      BY <1>2 DEF PathsOf
    <2>2. ASSUME NEW p \in PathsOf(docs) PROVE p \in PathsOf(all)
      BY <1>3 DEF PathsOf
    <2>3. ASSUME NEW p \in PathsOf(more) PROVE p \in PathsOf(all)
      BY <1>4 DEF PathsOf
    <2>4. QED
      BY <2>1, <2>2, <2>3
  <1>6. \A k : Own(all, k) = Own(docs, k) \cup Own(more, k)
    BY <1>5 DEF Own
  <1>7. QED
    BY <1>1, <1>5, <1>6 DEF all

LEMMA DocsFinite ==
  ASSUME NEW docs \in Seq(Docs), NEW k
  PROVE  /\ IsFiniteSet(PathsOf(docs)) /\ Cardinality(PathsOf(docs)) \in Nat
         /\ IsFiniteSet(Own(docs, k)) /\ Cardinality(Own(docs, k)) \in Nat
         /\ Cardinality(Own(docs, k)) <= Cardinality(PathsOf(docs)) /\ PathsOf(docs) \in SUBSET Spots
  <1>0. (\A j \in DOMAIN docs : docs[j] \in Docs) /\ (\A d \in Docs : d.path \in Spots)
    <2>1. \A j \in DOMAIN docs : docs[j] \in Docs
      OBVIOUS
    <2>2. \A d \in Docs : d.path \in Spots
      BY DEF Docs
    <2>3. QED
      BY <2>1, <2>2
  <1>1. PathsOf(docs) \in SUBSET Spots
    BY <1>0 DEF PathsOf
  <1>2. Own(docs, k) \in SUBSET PathsOf(docs)
    BY DEF Own
  <1>3. IsFiniteSet(PathsOf(docs))
    BY <1>1, SpotsFinite, FS_Subset
  <1>4. IsFiniteSet(Own(docs, k)) /\ Cardinality(Own(docs, k)) <= Cardinality(PathsOf(docs))
    BY <1>2, <1>3, FS_Subset
  <1>5. QED
    BY <1>1, <1>3, <1>4, FS_CardinalityType

\* The documents beside one of an archive's own are the archive's own.
LEMMA FrameFits ==
  ASSUME NEW a \in DOMAIN Archives, NEW fs, Linked(a, fs), NEW k \in 1 .. Len(fs), FrameOK(a, fs, k),
         NEW p \in PathsOf(fs[k].docs)
  PROVE  FitsIn(a, PathsOf(fs[k].docs), p)
  <1> DEFINE P == PathsOf(fs[k].docs)
  <1>1. \A q \in P : q \in Ways(a) /\ Along(fs, k, q)
    BY DEF FrameOK, Placed
  <1>2. CASE Len(p) = k
    <2>1. \A q \in P : \A i \in 1 .. (k - 1) : q[i] = p[i]
      BY <1>1 DEF Along
    <2>2. Beside(P, p) = Own(fs[k].docs, k)
      BY <1>2, <2>1 DEF Beside, Own
    <2>3. Holder(a, p, Len(p)).form = Form(fs[k])
      BY <1>1, <1>2, AlongHolder DEF Form
    <2>4. /\ Cardinality(Own(fs[k].docs, k)) <= Limit[Form(fs[k])]
          /\ SizeOf(a, Own(fs[k].docs, k)) <= TotalCap + Slack(Form(fs[k]))
      BY DEF FrameOK, Tallied
    <2>5. QED
      BY <2>2, <2>3, <2>4 DEF FitsIn
  <1>3. CASE Len(p) # k
    <2>1. Len(p) >= k /\ Len(p) \in Nat /\ k \in Nat
      BY <1>1, FrameFacts, WayAlong DEF Along
    <2>2. Len(p) > k
      BY <1>3, <2>1
    <2>3. QED
      BY <2>2 DEF FrameOK, Placed
  <1>4. QED
    BY <1>2, <1>3

\* An entry that is small leaves room for every entry of its archive.
LEMMA SmallEntry ==
  ASSUME NEW a \in DOMAIN Archives, NEW fs, Linked(a, fs), NEW k \in 1 .. Len(fs), FrameOK(a, fs, k),
         Small(a), fs[k].next \in DOMAIN EntriesOf(fs[k])
  PROVE  /\ ~Spent(fs[k])
         /\ EntriesOf(fs[k])[fs[k].next].size <= EntryCap[Form(fs[k])]
         /\ EntriesOf(fs[k])[fs[k].next].kind \in TextKinds(Form(fs[k])) =>
              fs[k].total + EntriesOf(fs[k])[fs[k].next].size <= TotalCap
  <1> DEFINE fr == fs[k]
             e == EntriesOf(fr)[fr.next]
             s == Spot(fs, k, fr.next)
             P == PathsOf(fr.docs)
             own == Own(fr.docs, k)
             R == {p \in Ways(a) : Readable(a, p)}
  <1>1. s \in Ways(a) /\ Len(s) = k /\ s[k] = fr.next /\ Along(fs, k, s)
    BY SpotIsWay
  <1>2. EntryAt(a, s) = e /\ CapAt(a, s) = EntryCap[Form(fr)] /\ (Readable(a, s) <=> e.kind \in TextKinds(Form(fr)))
    BY <1>1, WayAlong
  <1>3. e.kind # "torn" /\ e.size <= EntryCap[Form(fr)]
    BY <1>1, <1>2 DEF Small
  <1>4. IsFiniteSet(R) /\ R \in SUBSET Ways(a) /\ \A q \in R : SizeAt(a, q) \in Nat
    <2>1. IsFiniteSet(Ways(a)) /\ R \in SUBSET Ways(a)
      BY WaysAre
    <2>2. QED
      BY <2>1, SizeAtIs, FS_Subset
  <1>5. SizeOf(a, R) < TotalCap
    BY DEF Small
  <1>6. /\ fr \in FrameSet /\ fr.next \in Nat /\ fr.seen \in Nat /\ fr.total \in Nat /\ fr.docs \in Seq(Docs)
        /\ Form(fr) \in ArchiveForms /\ EntriesOf(fr) \in Seq(Entries) /\ k \in Nat
        /\ EntryCap[Form(fr)] \in Nat /\ Limit[Form(fr)] \in Nat
    BY FrameFacts
  <1>7. own \in SUBSET R /\ P \in SUBSET (Ways(a) \ {s}) /\ s \notin own
    <2>1. \A p \in P : p \in Ways(a) /\ Readable(a, p) /\ p[k] < fr.next
      BY DEF FrameOK, Placed
    <2>2. \A p \in P : p # s
      BY <1>1, <1>6, <2>1
    <2>3. own \in SUBSET P
      BY DEF Own
    <2>4. QED
      BY <2>1, <2>2, <2>3
  <1>8. fr.total = SizeOf(a, own) /\ fr.seen < fr.next /\ Cardinality(P) = Len(fr.docs)
    BY DEF FrameOK, Tallied
  <1>9. Cardinality(Ways(a)) <= Limit[Form(fr)]
    BY <1>6 DEF Small
  <1>10. TotalCap \in Nat
    BY CapsAssumption
  <1>11. e.size \in Nat
    <2>1. e \in Entries
      BY <1>6
    <2>2. \A x \in Entries : x.size \in Nat
      BY DEF Entries
    <2>3. QED
      BY <2>1, <2>2
  <1>12. IsFiniteSet(Ways(a)) /\ Cardinality(Ways(a)) \in Nat
    BY WaysAre
  <1>13. Len(fr.docs) < Limit[Form(fr)]
    <2>1. IsFiniteSet(Ways(a) \ {s}) /\ Cardinality(Ways(a) \ {s}) = Cardinality(Ways(a)) - 1
      BY <1>1, <1>12, FS_RemoveElement
    <2>2. Cardinality(P) <= Cardinality(Ways(a) \ {s})
      BY <1>7, <2>1, FS_Subset
    <2>3. Cardinality(P) \in Nat
      BY <1>6, DocsFinite
    <2>4. QED
      BY <1>6, <1>8, <1>9, <1>12, <2>1, <2>2, <2>3
  <1>14. fr.seen < Limit[Form(fr)]
    <2> DEFINE n == Len(EntriesOf(fr))
               h == [i \in 1 .. n |-> Spot(fs, k, i)]
    <2>1. n \in Nat /\ fr.next <= n
      BY <1>6
    <2>2. \A i \in 1 .. n : h[i] \in Ways(a) /\ h[i][k] = i
      BY <1>6, SpotIsWay
    <2> HIDE DEF n
    <2>3. h \in [1 .. n -> Ways(a)] /\ \A i, j \in 1 .. n : h[i] = h[j] => i = j
      BY <2>2
    <2>4. h \in Injection(1 .. n, Ways(a))
      BY <2>3 DEF Injection, IsInjective
    <2>5. Cardinality(1 .. n) <= Cardinality(Ways(a))
      BY <1>12, <2>4, FS_Injection
    <2>6. Cardinality(1 .. n) = n
      BY <2>1, AsMany
    <2>7. QED
      BY <1>6, <1>8, <1>9, <1>12, <2>1, <2>5, <2>6
  <1>15. fr.total < TotalCap
    <2>1. SizeOf(a, own) <= SizeOf(a, R) /\ SizeOf(a, R) \in Nat
      BY <1>4, <1>7, SizeOfPart
    <2>2. QED
      BY <1>5, <1>6, <1>8, <1>10, <2>1
  <1>16. ASSUME e.kind \in TextKinds(Form(fr)) PROVE fr.total + e.size <= TotalCap
    <2>1. s \in R /\ own \cup {s} \in SUBSET R
      BY <1>1, <1>2, <1>7, <1>16
    <2>2. SizeAt(a, s) = e.size
      <3>1. SizeAt(a, s) = IF EntryAt(a, s).size > CapAt(a, s) THEN CapAt(a, s) ELSE EntryAt(a, s).size
        BY <1>1, SizeAtIs
      <3>2. QED
        BY <1>2, <1>3, <1>6, <1>11, <3>1
    <2>3. IsFiniteSet(own) /\ (\A q \in own : SizeAt(a, q) \in Nat)
      BY <1>4, <1>6, <1>7, DocsFinite
    <2>4. SizeOf(a, own \cup {s}) = SizeOf(a, own) + SizeAt(a, s)
      BY <1>4, <1>7, <2>1, <2>3, SizeOfMore
    <2>5. SizeOf(a, own \cup {s}) <= SizeOf(a, R) /\ SizeOf(a, own \cup {s}) \in Nat /\ SizeOf(a, R) \in Nat
      BY <1>4, <2>1, SizeOfPart
    <2>6. QED
      BY <1>5, <1>8, <1>10, <2>2, <2>4, <2>5
  <1>17. ~Spent(fr)
    <2>1. fr.next <= Len(EntriesOf(fr))
      BY <1>6
    <2>2. ~(Counted(fr) >= Limit[Form(fr)]) /\ ~(fr.total >= TotalCap)
      BY <1>6, <1>10, <1>13, <1>14, <1>15 DEF Counted
    <2>3. QED
      BY <1>3, <2>1, <2>2, Zenon DEF Spent
  <1>18. QED
    BY <1>3, <1>16, <1>17

------------------------------------------------------------------------------
(* What taking an entry does to the open archives. *)
TookAs(to, fr, more, size) ==
  /\ to \in FrameSet /\ to.archive = fr.archive /\ to.next = fr.next + 1 /\ to.total = fr.total + size
  /\ to.docs = fr.docs \o more
  /\ \E one \in {0, 1} : to.seen = fr.seen + one /\ (EntriesOf(fr)[fr.next].kind # "dir" => one = 1)

LEMMA TookIs ==
  ASSUME NEW fr \in FrameSet, NEW more \in Seq(Docs), NEW size \in Nat
  PROVE  TookAs(Took(fr, more, size), fr, more, size)
  <1>1. /\ fr.archive \in DOMAIN Archives /\ fr.next \in Nat \ {0} /\ fr.seen \in Nat /\ fr.total \in Nat
        /\ fr.docs \in Seq(Docs)
    BY DEF FrameSet
  <1> DEFINE more1 == IF EntriesOf(fr)[fr.next].kind = "dir" THEN 0 ELSE 1
             docs1 == fr.docs \o more
  <1>2. docs1 \in Seq(Docs)
    BY <1>1, PathsMore
  <1>3. more1 \in Nat /\ more1 \in {0, 1} /\ (EntriesOf(fr)[fr.next].kind # "dir" => more1 = 1)
    OBVIOUS
  <1>4. Took(fr, more, size) = [fr EXCEPT !.next = fr.next + 1, !.seen = fr.seen + more1,
                                          !.docs = docs1, !.total = fr.total + size]
    BY DEF Took
  <1> HIDE DEF more1, docs1
  <1>5. /\ fr.next + 1 \in Nat \ {0} /\ fr.seen + more1 \in Nat /\ fr.total + size \in Nat
    BY <1>1, <1>3
  <1> DEFINE to == [fr EXCEPT !.next = fr.next + 1, !.seen = fr.seen + more1,
                              !.docs = docs1, !.total = fr.total + size]
  <1>6. to \in FrameSet
    BY <1>2, <1>5 DEF FrameSet
  <1>7. /\ to.archive = fr.archive /\ to.next = fr.next + 1 /\ to.seen = fr.seen + more1
        /\ to.docs = docs1 /\ to.total = fr.total + size
    BY DEF FrameSet
  <1> HIDE DEF to
  <1>8. QED
    BY <1>3, <1>4, <1>6, <1>7, Zenon DEF TookAs, to, more1, docs1

LEMMA FrameSame ==
  ASSUME NEW a, NEW fs, NEW fs2, NEW k \in Nat, k # 0, \A m \in 1 .. k : fs2[m] = fs[m], FrameOK(a, fs, k)
  PROVE  FrameOK(a, fs2, k)
  <1>1. fs2[k] = fs[k] /\ \A m \in 1 .. (k - 1) : fs2[m] = fs[m]
    OBVIOUS
  <1>2. \A p : Along(fs2, k, p) <=> Along(fs, k, p)
    BY <1>1 DEF Along
  <1>3. Placed(a, fs2, k) /\ Tallied(a, fs2, k) /\ Whole(a, fs2, k)
    BY <1>1, <1>2 DEF FrameOK, Placed, Tallied, Whole
  <1>4. QED
    BY <1>3 DEF FrameOK

LEMMA LinkedUpTo ==
  ASSUME NEW a, NEW fs, Linked(a, fs), NEW k \in 1 .. Len(fs), NEW fs2 \in Seq(FrameSet), Len(fs2) = k,
         \A m \in 1 .. (k - 1) : fs2[m] = fs[m], fs2[k].archive = fs[k].archive
  PROVE  Linked(a, fs2)
  <1>1. k \in Nat /\ k # 0 /\ k \in 1 .. (MaxDepth + 1) /\ Len(fs) \in Nat /\ k <= Len(fs)
    BY FrameFacts DEF Linked
  <1>2. \A m \in 1 .. k : fs2[m].archive = fs[m].archive
    BY <1>1
  <1>3. fs2[1].archive = a
    BY <1>1, <1>2 DEF Linked
  <1>4. ASSUME NEW m \in 1 .. (k - 1)
        PROVE  /\ fs2[m].next \in DOMAIN EntriesOf(fs2[m]) /\ Form(fs2[m]) # "jar"
               /\ EntriesOf(fs2[m])[fs2[m].next].kind = "nested"
               /\ EntriesOf(fs2[m])[fs2[m].next].holds = fs2[m + 1].archive
               /\ ~Archives[fs2[m + 1].archive].broken
    <2>1. m \in 1 .. (Len(fs) - 1) /\ m + 1 \in 1 .. k
      BY <1>1
    <2>2. fs2[m] = fs[m] /\ fs2[m + 1].archive = fs[m + 1].archive
      BY <1>2, <2>1
    <2>3. QED
      BY <2>1, <2>2 DEF Linked
  <1>5. QED
    BY <1>1, <1>3, <1>4 DEF Linked

\* What an entry gives an archive: the documents and their size.
Gives(a, fs, k, more, size) ==
  /\ Cardinality(PathsOf(more)) = Len(more)
  /\ \A p \in PathsOf(more) :
       /\ p \in Ways(a) /\ Readable(a, p) /\ Along(fs, k, p) /\ p[k] = fs[k].next
       /\ Len(p) > k => FitsIn(a, PathsOf(more), p)
  /\ \/ size = 0 /\ Own(more, k) = {}
     \/ \E s \in Ways(a) :
          /\ Own(more, k) = {s} /\ SizeAt(a, s) = size
          /\ fs[k].total + size <= TotalCap + Slack(Form(fs[k])) /\ Counted(fs[k]) < Limit[Form(fs[k])]
          /\ EntriesOf(fs[k])[fs[k].next].kind # "dir"
  /\ Small(a) => \A p \in Ways(a) :
       Readable(a, p) /\ Along(fs, k, p) /\ p[k] = fs[k].next => p \in PathsOf(more)

LEMMA TookKeeps ==
  ASSUME NEW a \in DOMAIN Archives, NEW fs, Linked(a, fs), NEW k \in 1 .. Len(fs), FrameOK(a, fs, k),
         NEW more \in Seq(Docs), NEW size \in Nat, Gives(a, fs, k, more, size),
         fs[k].next \in DOMAIN EntriesOf(fs[k]),
         NEW fs2, \A m \in 1 .. (k - 1) : fs2[m] = fs[m], fs2[k] = Took(fs[k], more, size)
  PROVE  FrameOK(a, fs2, k)
  <1> DEFINE fr == fs[k]
             P == PathsOf(fr.docs)
             M == PathsOf(more)
             own == Own(fr.docs, k)
             e == EntriesOf(fr)[fr.next]
  <1>1. /\ fr \in FrameSet /\ fr.next \in Nat /\ fr.seen \in Nat /\ fr.total \in Nat /\ fr.docs \in Seq(Docs)
        /\ Form(fr) \in ArchiveForms /\ EntriesOf(fr) \in Seq(Entries) /\ k \in Nat /\ k # 0
        /\ EntryCap[Form(fr)] \in Nat /\ Limit[Form(fr)] \in Nat
    BY FrameFacts
  <1>2. /\ fs2[k].archive = fr.archive /\ fs2[k].next = fr.next + 1 /\ fs2[k].total = fr.total + size
        /\ fs2[k].docs = fr.docs \o more
        /\ \E one \in {0, 1} : fs2[k].seen = fr.seen + one /\ (e.kind # "dir" => one = 1)
    <2>1. fr \in FrameSet
      BY <1>1
    <2>2. TookAs(fs2[k], fr, more, size)
      BY <2>1, TookIs
    <2>3. QED
      BY <2>2, Zenon DEF TookAs
  <1>2a. PICK one \in {0, 1} : fs2[k].seen = fr.seen + one /\ (e.kind # "dir" => one = 1)
    BY <1>2
  <1>3. EntriesOf(fs2[k]) = EntriesOf(fr) /\ Form(fs2[k]) = Form(fr)
    BY <1>2 DEF EntriesOf, Form
  <1>4. \A p : Along(fs2, k, p) <=> Along(fs, k, p)
    BY DEF Along
  <1>5. /\ Len(fs2[k].docs) = Len(fr.docs) + Len(more) /\ PathsOf(fs2[k].docs) = P \cup M
        /\ Own(fs2[k].docs, k) = own \cup Own(more, k)
    BY <1>1, <1>2, PathsMore, SMTT(60)
  <1>6. \A p \in P : /\ p \in Ways(a) /\ Readable(a, p) /\ Along(fs, k, p) /\ p[k] < fr.next
                     /\ Len(p) > k => FitsIn(a, P, p)
    BY DEF FrameOK, Placed
  <1>7. \A p \in M : /\ p \in Ways(a) /\ Readable(a, p) /\ Along(fs, k, p) /\ p[k] = fr.next
                     /\ Len(p) > k => FitsIn(a, M, p)
    BY DEF Gives
  <1>8. \A p \in Ways(a) : Along(fs, k, p) => p[k] \in Nat /\ Len(p) \in Nat
    BY <1>1, WayAlong, SMTT(60)
  <1>9. \A p \in P, q \in M : p[k] # q[k]
    BY <1>1, <1>6, <1>7, <1>8
  <1>10. P \cap M = {} /\ own \cap Own(more, k) = {}
    BY <1>9 DEF Own
  <1> DEFINE Q == P \cup M
  <1>11. ASSUME NEW p \in Q, Len(p) > k PROVE FitsIn(a, Q, p)
    <2>1. k \in 1 .. (Len(p) - 1)
      BY <1>1, <1>6, <1>7, <1>8, <1>11
    <2>2. CASE p \in P
      <3>1. Beside(Q, p) = Beside(P, p)
        BY <1>9, <2>1, <2>2 DEF Beside
      <3>2. FitsIn(a, P, p)
        BY <1>6, <1>11, <2>2
      <3>3. QED
        BY <3>1, <3>2 DEF FitsIn
    <2>3. CASE p \in M
      <3>1. Beside(Q, p) = Beside(M, p)
        BY <1>9, <2>1, <2>3 DEF Beside
      <3>2. FitsIn(a, M, p)
        BY <1>7, <1>11, <2>3
      <3>3. QED
        BY <3>1, <3>2 DEF FitsIn
    <2>4. QED
      BY <2>2, <2>3
  <1>12. Placed(a, fs2, k)
    <2>1. \A p \in Q : p \in Ways(a) /\ Readable(a, p) /\ Along(fs, k, p) /\ p[k] < fr.next + 1
      BY <1>1, <1>6, <1>7, <1>8, SMTT(60)
    <2>2. QED
      BY <1>2, <1>4, <1>5, <1>11, <2>1 DEF Placed
  <1>13. /\ fr.seen < fr.next /\ Cardinality(P) = Len(fr.docs)
         /\ fr.total = SizeOf(a, own) /\ fr.total <= TotalCap + Slack(Form(fr))
         /\ Cardinality(own) <= Limit[Form(fr)] /\ (Form(fr) = "tar" => Cardinality(own) <= fr.seen)
    BY DEF FrameOK, Tallied
  <1>14. /\ IsFiniteSet(P) /\ Cardinality(P) \in Nat /\ IsFiniteSet(own) /\ Cardinality(own) \in Nat
         /\ Cardinality(own) <= Cardinality(P) /\ IsFiniteSet(M) /\ Cardinality(M) \in Nat
    BY <1>1, DocsFinite
  <1>15. Cardinality(Q) = Len(fr.docs) + Len(more)
    <2>1. Cardinality(Q) = Cardinality(P) + Cardinality(M)
      BY <1>10, <1>14, Together, Zenon
    <2>2. Cardinality(M) = Len(more)
      BY DEF Gives
    <2>3. Cardinality(P) = Len(fr.docs)
      BY <1>13
    <2>4. QED
      BY <2>1, <2>2, <2>3, Zenon
  <1>16. fr.next + 1 <= Len(EntriesOf(fr)) + 1 /\ fs2[k].seen < fr.next + 1
    <2>1. fr.next <= Len(EntriesOf(fr)) /\ Len(EntriesOf(fr)) \in Nat
      BY <1>1
    <2>2. fr.next \in Nat /\ fr.seen \in Nat /\ fr.seen < fr.next /\ one \in {0, 1} /\ fs2[k].seen = fr.seen + one
      BY <1>1, <1>2a, <1>13, Zenon
    <2>3. QED
      BY <2>1, <2>2
  <1> DEFINE own2 == own \cup Own(more, k)
  <1>17. /\ fr.total + size = SizeOf(a, own2) /\ fr.total + size <= TotalCap + Slack(Form(fr))
         /\ Cardinality(own2) <= Limit[Form(fr)]
         /\ Form(fr) = "tar" => Cardinality(own2) <= fs2[k].seen
    <2>1. CASE size = 0 /\ Own(more, k) = {}
      <3>1. own2 = own /\ fr.total + size = fr.total
        BY <1>1, <2>1
      <3>2. Form(fr) = "tar" => Cardinality(own2) <= fs2[k].seen
        <4>1. /\ fs2[k].seen = fr.seen + one /\ fr.seen \in Nat /\ Cardinality(own) \in Nat
              /\ Form(fr) = "tar" => Cardinality(own) <= fr.seen
          BY <1>1, <1>2a, <1>13, <1>14, Zenon
        <4> HIDE DEF own, own2, fr
        <4>2. QED
          BY <3>1, <4>1
      <3>3. QED
        BY <1>13, <3>1, <3>2
    <2>2. ASSUME NEW s \in Ways(a), Own(more, k) = {s}, SizeAt(a, s) = size,
                 fr.total + size <= TotalCap + Slack(Form(fr)), Counted(fr) < Limit[Form(fr)], e.kind # "dir"
          PROVE  /\ fr.total + size = SizeOf(a, own2) /\ fr.total + size <= TotalCap + Slack(Form(fr))
                 /\ Cardinality(own2) <= Limit[Form(fr)]
                 /\ Form(fr) = "tar" => Cardinality(own2) <= fs2[k].seen
      <3>1. s \notin own /\ own2 = own \cup {s}
        BY <1>10, <2>2
      <3>2. \A q \in own : SizeAt(a, q) \in Nat
        BY <1>6, SizeAtIs DEF Own
      <3>3. SizeOf(a, own \cup {s}) = SizeOf(a, own) + SizeAt(a, s)
        BY <1>14, <2>2, <3>1, <3>2, SizeOfMore
      <3>4. Cardinality(own \cup {s}) = Cardinality(own) + 1
        BY <1>14, <3>1, FS_AddElement
      <3>5. Cardinality(own) <= Counted(fr) /\ Counted(fr) \in Nat
        BY <1>1, <1>13, <1>14 DEF Counted
      <3>6. fs2[k].seen = fr.seen + 1
        BY <1>2a, <2>2
      <3>7. QED
        BY <1>1, <1>13, <1>14, <2>2, <3>1, <3>3, <3>4, <3>5, <3>6, SMTT(60)
    <2>3. QED
      BY <2>1, <2>2, Zenon DEF Gives
  <1>18. Tallied(a, fs2, k)
    BY <1>2, <1>3, <1>5, <1>15, <1>16, <1>17, Zenon DEF Tallied
  <1>19. Whole(a, fs2, k)
    <2> SUFFICES ASSUME Small(a), NEW p \in Ways(a), Readable(a, p), Along(fs, k, p), p[k] < fr.next + 1
                 PROVE  p \in Q
      BY <1>2, <1>4, <1>5 DEF Whole
    <2>1. p[k] < fr.next \/ p[k] = fr.next
      <3>1. p[k] \in Nat
        BY <1>8, Zenon
      <3>2. fr.next \in Nat /\ p[k] < fr.next + 1
        BY <1>1
      <3> HIDE DEF fr
      <3>3. QED
        BY <3>1, <3>2
    <2>2. CASE p[k] < fr.next
      BY <2>2 DEF FrameOK, Whole
    <2>3. CASE p[k] = fr.next
      BY <2>3 DEF Gives
    <2>4. QED
      BY <2>1, <2>2, <2>3
  <1>20. QED
    BY <1>12, <1>18, <1>19 DEF FrameOK

LEMMA OpenedUpTo ==
  ASSUME NEW a \in DOMAIN Archives, NEW fs, Opened(a, fs), NEW k \in 1 .. Len(fs),
         NEW more \in Seq(Docs), NEW size \in Nat, Gives(a, fs, k, more, size),
         fs[k].next \in DOMAIN EntriesOf(fs[k]),
         NEW fs2 \in Seq(FrameSet), Len(fs2) = k, \A m \in 1 .. (k - 1) : fs2[m] = fs[m],
         fs2[k] = Took(fs[k], more, size)
  PROVE  Opened(a, fs2)
  <1>1. Linked(a, fs) /\ \A m \in 1 .. Len(fs) : FrameOK(a, fs, m)
    BY DEF Opened
  <1>2. k \in Nat /\ k # 0 /\ k <= Len(fs) /\ Len(fs) \in Nat /\ fs[k] \in FrameSet
    BY <1>1, FrameFacts DEF Linked
  <1>3. TookAs(fs2[k], fs[k], more, size)
    BY <1>2, TookIs
  <1>4. fs2[k].archive = fs[k].archive
    BY <1>3 DEF TookAs
  <1>5. Linked(a, fs2)
    BY <1>1, <1>4, LinkedUpTo
  <1>6. ASSUME NEW m \in 1 .. Len(fs2) PROVE FrameOK(a, fs2, m)
    <2>1. CASE m = k
      <3>1. FrameOK(a, fs, k)
        BY <1>1
      <3>2. QED
        BY <1>1, <2>1, <3>1, TookKeeps
    <2>2. CASE m # k
      <3>1. m \in Nat /\ m # 0 /\ m \in 1 .. Len(fs) /\ \A j \in 1 .. m : j \in 1 .. (k - 1)
        BY <1>2, <2>2
      <3>2. FrameOK(a, fs, m) /\ \A j \in 1 .. m : fs2[j] = fs[j]
        BY <1>1, <3>1
      <3>3. QED
        BY <3>1, <3>2, FrameSame
    <2>3. QED
      BY <2>1, <2>2
  <1>7. QED
    BY <1>5, <1>6 DEF Opened

LEMMA NotSpent ==
  ASSUME NEW a \in DOMAIN Archives, NEW fs, Linked(a, fs), NEW k \in 1 .. Len(fs), ~Spent(fs[k])
  PROVE  /\ fs[k].next \in DOMAIN EntriesOf(fs[k]) /\ EntriesOf(fs[k])[fs[k].next] \in Entries
         /\ EntriesOf(fs[k])[fs[k].next].kind # "dir" =>
              ~(Counted(fs[k]) >= Limit[Form(fs[k])]) /\ ~(fs[k].total >= TotalCap)
  <1>1. EntriesOf(fs[k]) \in Seq(Entries) /\ fs[k].next \in Nat /\ fs[k].next # 0
    BY FrameFacts
  <1>2. fs[k].next <= Len(EntriesOf(fs[k]))
    BY DEF Spent
  <1>3. fs[k].next \in DOMAIN EntriesOf(fs[k])
    BY <1>1, <1>2
  <1>4. EntriesOf(fs[k])[fs[k].next].kind # "dir" =>
              ~(Counted(fs[k]) >= Limit[Form(fs[k])]) /\ ~(fs[k].total >= TotalCap)
    BY Zenon DEF Spent
  <1>5. QED
    BY <1>1, <1>3, <1>4

\* The innermost archive and its next entry.
LEMMA TopIs ==
  ASSUME NEW a \in DOMAIN Archives, Opened(a, frames), NEW k, k = Len(frames)
  PROVE  /\ k \in 1 .. Len(frames) /\ k \in Nat /\ k # 0 /\ Linked(a, frames) /\ FrameOK(a, frames, k)
         /\ frames \in Seq(FrameSet)
         /\ Top = frames[k] /\ Entry = EntriesOf(frames[k])[frames[k].next]
         /\ \A i : PathTo(i) = Spot(frames, k, i)
  <1>1. Linked(a, frames)
    BY DEF Opened
  <1>2. frames \in Seq(FrameSet) /\ k \in 1 .. (MaxDepth + 1)
    BY <1>1 DEF Linked
  <1>3. k \in Nat /\ k # 0 /\ k \in 1 .. Len(frames)
    BY <1>2
  <1>4. Top = frames[k] /\ Entry = EntriesOf(frames[k])[frames[k].next]
    BY DEF Top, Entry
  <1>5. \A i : PathTo(i) = Spot(frames, k, i)
    BY DEF PathTo, Spot
  <1>6. QED
    BY <1>1, <1>2, <1>3, <1>4, <1>5 DEF Opened

\* An entry that gives text gives one document.
LEMMA TextGives ==
  ASSUME NEW a \in DOMAIN Archives, Opened(a, frames), NEW k, k = Len(frames),
         ~Spent(Top), ~Nested(Entry), GivesText(Entry)
  PROVE  /\ <<Unit(PathTo(Top.next), {1})>> \in Seq(Docs) /\ ReadSize(Entry) \in Nat
         /\ Gives(a, frames, k, <<Unit(PathTo(Top.next), {1})>>, ReadSize(Entry))
  <1> DEFINE fr == frames[k]
             e == EntriesOf(fr)[fr.next]
             s == Spot(frames, k, fr.next)
             more == <<Unit(s, {1})>>
             size == ReadSize(e)
  <1>1. /\ k \in 1 .. Len(frames) /\ k \in Nat /\ k # 0 /\ Linked(a, frames) /\ FrameOK(a, frames, k)
        /\ Top = fr /\ Entry = e /\ PathTo(Top.next) = s
    BY TopIs, Zenon
  <1>2. /\ fr.next \in DOMAIN EntriesOf(fr) /\ e \in Entries
        /\ e.kind # "dir" => ~(Counted(fr) >= Limit[Form(fr)]) /\ ~(fr.total >= TotalCap)
    BY <1>1, NotSpent
  <1>3. /\ fr \in FrameSet /\ fr.next \in Nat /\ fr.seen \in Nat /\ fr.total \in Nat /\ fr.docs \in Seq(Docs)
        /\ Form(fr) \in ArchiveForms /\ EntryCap[Form(fr)] \in Nat /\ Limit[Form(fr)] \in Nat
    BY <1>1, FrameFacts
  <1>4. s \in Ways(a) /\ Len(s) = k /\ s[k] = fr.next /\ Along(frames, k, s) /\ s \in Spots
    BY <1>1, <1>2, SpotIsWay, WaysAre
  <1>5. e.kind \in TextKinds(Form(fr)) /\ e.kind # "dir" /\ e.kind # "nested"
    BY <1>1 DEF GivesText, TextKinds
  <1>6. EntryAt(a, s) = e /\ CapAt(a, s) = EntryCap[Form(fr)] /\ Readable(a, s)
    <2>1. /\ EntryAt(a, s) = EntriesOf(fr)[s[k]] /\ CapAt(a, s) = EntryCap[Form(fr)]
          /\ Readable(a, s) <=> EntriesOf(fr)[s[k]].kind \in TextKinds(Form(fr))
      <3>1. k \in 1 .. Len(frames) /\ Linked(a, frames) /\ s \in Ways(a) /\ Along(frames, k, s) /\ Len(s) = k
        BY <1>1, <1>4
      <3> HIDE DEF s
      <3>2. QED
        BY <3>1, WayAlong, SMTT(60)
    <2>2. EntriesOf(fr)[s[k]] = e
      BY <1>4
    <2>3. QED
      BY <1>5, <2>1, <2>2
  <1>7. e.size \in Nat
    BY <1>2 DEF Entries
  <1>8. size = IF e.size > EntryCap[Form(fr)] THEN EntryCap[Form(fr)] ELSE e.size
    BY <1>1, Zenon DEF ReadSize, Cut
  <1>9. size \in Nat /\ size <= EntryCap[Form(fr)] /\ SizeAt(a, s) = size
    <2>1. SizeAt(a, s) = IF EntryAt(a, s).size > CapAt(a, s) THEN CapAt(a, s) ELSE EntryAt(a, s).size
      BY <1>4, SizeAtIs
    <2>2. SizeAt(a, s) = size
      BY <1>6, <1>8, <2>1, Zenon
    <2> HIDE DEF size
    <2>3. QED
      BY <1>3, <1>7, <1>8, <2>2
  <1>10. fr.total + size <= TotalCap + Slack(Form(fr))
    <2>1. TotalCap \in Nat /\ EntryCap[Form(fr)] \in Nat
      BY <1>3, CapsAssumption
    <2>2. CASE Form(fr) = "jar"
      <3>1. Slack(Form(fr)) = EntryCap[Form(fr)]
        BY <2>2 DEF Slack
      <3>2. ~(fr.total >= TotalCap) /\ fr.total \in Nat /\ size \in Nat /\ size <= EntryCap[Form(fr)]
        BY <1>2, <1>3, <1>5, <1>9
      <3> HIDE DEF size
      <3>3. QED
        BY <2>1, <3>1, <3>2
    <2>3. CASE Form(fr) # "jar"
      <3>1. fr.total + size <= TotalCap
        BY <1>1, <2>3 DEF GivesText
      <3>2. Slack(Form(fr)) = 0
        BY <2>3 DEF Slack
      <3> HIDE DEF size
      <3>3. QED
        BY <1>3, <2>1, <3>1, <3>2
    <2>4. QED
      BY <2>2, <2>3
  <1>11. Counted(fr) < Limit[Form(fr)]
    <2>1. Counted(fr) \in Nat
      BY <1>3 DEF Counted
    <2>2. ~(Counted(fr) >= Limit[Form(fr)]) /\ Limit[Form(fr)] \in Nat
      BY <1>2, <1>3, <1>5
    <2>3. QED
      BY <2>1, <2>2
  <1>12. /\ Unit(s, {1}) \in Docs /\ Unit(s, {1}).path = s
    BY <1>4 DEF Unit, Docs
  <1> DEFINE u == Unit(s, {1})
  <1> HIDE DEF u
  <1>13. more \in Seq(Docs) /\ Len(more) = 1 /\ PathsOf(more) = {s}
    <2>1. <<u>> \in Seq(Docs) /\ Len(<<u>>) = 1 /\ PathsOf(<<u>>) = {u.path}
      BY <1>12 DEF PathsOf, u
    <2>2. QED
      BY <1>12, <2>1 DEF u
  <1> HIDE DEF more, size, s
  <1>14. Cardinality(PathsOf(more)) = Len(more)
    BY <1>13, FS_Singleton
  <1>15. Own(more, k) = {s}
    BY <1>4, <1>13 DEF Own
  <1>16. ASSUME NEW p \in Ways(a), Readable(a, p), Along(frames, k, p), p[k] = fr.next
         PROVE  p \in PathsOf(more)
    <2>1. Len(p) = k
      <3>1. Len(p) # k => EntriesOf(fr)[p[k]].kind = "nested"
        BY <1>1, <1>16, WayAlong
      <3>2. QED
        BY <1>5, <1>16, <3>1
    <2>2. p = Spot(frames, k, p[k])
      BY <1>1, <1>16, <2>1, WayAlong
    <2>3. QED
      BY <1>13, <1>16, <2>2 DEF s
  <1>17. ASSUME NEW p \in PathsOf(more)
         PROVE  /\ p \in Ways(a) /\ Readable(a, p) /\ Along(frames, k, p) /\ p[k] = fr.next
                /\ Len(p) > k => FitsIn(a, PathsOf(more), p)
    <2>1. p = s /\ ~(Len(p) > k)
      BY <1>1, <1>4, <1>13
    <2>2. QED
      BY <1>4, <1>6, <2>1
  <1>18. Gives(a, frames, k, more, size)
    BY <1>4, <1>5, <1>9, <1>10, <1>11, <1>14, <1>15, <1>16, <1>17, Zenon DEF Gives
  <1>19. QED
    BY <1>1, <1>9, <1>13, <1>18, Zenon DEF more, size, s

\* Without documents an entry gives nothing of a small archive away.
LEMMA NothingGives ==
  ASSUME NEW a \in DOMAIN Archives, Opened(a, frames), NEW k, k = Len(frames), ~Spent(Top),
         \/ Cut(Entry)
         \/ IF Nested(Entry) THEN Archives[Entry.holds].broken ELSE ~GivesText(Entry)
  PROVE  <<>> \in Seq(Docs) /\ Gives(a, frames, k, <<>>, 0)
  <1> DEFINE fr == frames[k]
             e == EntriesOf(fr)[fr.next]
  <1>1. /\ k \in 1 .. Len(frames) /\ k \in Nat /\ k # 0 /\ Linked(a, frames) /\ FrameOK(a, frames, k)
        /\ Top = fr /\ Entry = e
    BY TopIs, Zenon
  <1>2. fr.next \in DOMAIN EntriesOf(fr) /\ e \in Entries
    BY <1>1, NotSpent
  <1>3. /\ fr.total \in Nat /\ Form(fr) \in ArchiveForms /\ EntryCap[Form(fr)] \in Nat
    BY <1>1, FrameFacts
  <1>4. e.size \in Nat
    BY <1>2 DEF Entries
  <1>5. <<>> \in Seq(Docs) /\ PathsOf(<<>>) = {} /\ Own(<<>>, k) = {} /\ Len(<<>>) = 0
    BY DEF PathsOf, Own
  <1>6. Cardinality({}) = 0
    BY FS_EmptySet
  <1>7. ASSUME Small(a), NEW p \in Ways(a), Readable(a, p), Along(frames, k, p), p[k] = fr.next
        PROVE  FALSE
    <2>1. /\ e.size <= EntryCap[Form(fr)]
          /\ e.kind \in TextKinds(Form(fr)) => fr.total + e.size <= TotalCap
      BY <1>1, <1>2, <1>7, SmallEntry
    <2>2. ~Cut(e) /\ ReadSize(e) = e.size
      <3>1. ~(e.size > EntryCap[Form(fr)])
        BY <1>3, <1>4, <2>1
      <3>2. QED
        BY <1>1, <3>1, Zenon DEF Cut, ReadSize
    <2>3. IF Nested(e) THEN Archives[e.holds].broken ELSE ~GivesText(e)
      BY <1>1, <2>2, Zenon
    <2>4. CASE Len(p) = k
      <3>1. e.kind \in TextKinds(Form(fr))
        BY <1>1, <1>7, <2>4, WayAlong
      <3>2. e.kind # "nested" /\ fr.total + ReadSize(e) <= TotalCap
        BY <2>1, <2>2, <3>1 DEF TextKinds
      <3>3. GivesText(e) /\ ~Nested(e)
        BY <1>1, <3>1, <3>2 DEF GivesText, Nested, TextKinds
      <3>4. QED
        BY <2>3, <3>3
    <2>5. CASE Len(p) # k
      <3>1. /\ Form(fr) # "jar" /\ e.kind = "nested" /\ ~Archives[e.holds].broken /\ k <= MaxDepth
        <4>1. Len(p) # k => /\ Form(frames[k]) # "jar" /\ EntriesOf(frames[k])[p[k]].kind = "nested"
                            /\ ~Archives[EntriesOf(frames[k])[p[k]].holds].broken /\ k <= MaxDepth
          <5>1. k \in 1 .. Len(frames) /\ Linked(a, frames) /\ p \in Ways(a) /\ Along(frames, k, p)
            BY <1>1, <1>7
          <5> HIDE DEF fr, e
          <5>2. QED
            BY <5>1, WayAlong
        <4>2. EntriesOf(frames[k])[p[k]] = e
          BY <1>7
        <4>3. QED
          BY <2>5, <4>1, <4>2
      <3>2. Nested(e)
        BY <1>1, <3>1 DEF Nested
      <3>3. QED
        BY <2>3, <3>1, <3>2
    <2>6. QED
      BY <2>4, <2>5
  <1>8. QED
    BY <1>5, <1>6, <1>7, Zenon DEF Gives

\* An archive in an archive gives the outer one its documents.
LEMMA NestedGives ==
  ASSUME NEW a \in DOMAIN Archives, Opened(a, frames), Len(frames) # 1, Spent(Top), NEW k, k = Len(frames) - 1
  PROVE  /\ k \in 1 .. Len(frames) /\ Top.docs \in Seq(Docs) /\ frames[k].next \in DOMAIN EntriesOf(frames[k])
         /\ Gives(a, frames, k, Top.docs, 0)
  <1> DEFINE n == Len(frames)
             docs == frames[n].docs
             P == PathsOf(docs)
  <1>1. /\ n \in 1 .. Len(frames) /\ n \in Nat /\ Linked(a, frames) /\ FrameOK(a, frames, n) /\ Top = frames[n]
    BY TopIs
  <1>2. k \in Nat /\ k # 0 /\ k \in 1 .. Len(frames) /\ k \in 1 .. (Len(frames) - 1) /\ k + 1 = n
    BY <1>1
  <1>3. docs \in Seq(Docs) /\ frames[n].next \in Nat /\ EntriesOf(frames[n]) \in Seq(Entries)
    BY <1>1, FrameFacts
  <1>4. frames[k].next \in DOMAIN EntriesOf(frames[k]) /\ EntriesOf(frames[k])[frames[k].next].kind = "nested"
    BY <1>1, <1>2 DEF Linked
  <1>5. Cardinality(P) = Len(docs)
    BY <1>1 DEF FrameOK, Tallied
  <1>6. \A p \in P : p \in Ways(a) /\ Readable(a, p) /\ Along(frames, n, p)
    BY <1>1 DEF FrameOK, Placed
  <1>7. \A p \in Ways(a) : Along(frames, n, p) <=> Along(frames, k, p) /\ Len(p) # k /\ p[k] = frames[k].next
    <2> SUFFICES ASSUME NEW p \in Ways(a)
                 PROVE  Along(frames, n, p) <=> Along(frames, k, p) /\ Len(p) # k /\ p[k] = frames[k].next
      OBVIOUS
    <2>1. Len(p) \in Nat
      BY WaysAre, SpotType
    <2>2. ASSUME NEW m \in 1 .. (n - 1) PROVE m \in 1 .. (k - 1) \/ m = k
      BY <1>1, <1>2
    <2>3. k \in 1 .. (n - 1) /\ \A m \in 1 .. (k - 1) : m \in 1 .. (n - 1)
      BY <1>1, <1>2
    <2>4. Len(p) >= n <=> Len(p) >= k /\ Len(p) # k
      BY <1>1, <1>2, <2>1
    <2> HIDE DEF n
    <2>5. QED
      BY <2>2, <2>3, <2>4 DEF Along
  <1>8. ASSUME NEW p \in P
        PROVE  /\ p \in Ways(a) /\ Readable(a, p) /\ Along(frames, k, p) /\ p[k] = frames[k].next
               /\ Len(p) > k => FitsIn(a, P, p)
    <2>1. p \in Ways(a) /\ Readable(a, p) /\ Along(frames, k, p) /\ p[k] = frames[k].next
      BY <1>6, <1>7
    <2>2. FitsIn(a, P, p)
      BY <1>1, FrameFits
    <2>3. QED
      BY <2>1, <2>2
  <1>9. Own(docs, k) = {}
    BY <1>6, <1>7 DEF Own
  <1>10. ASSUME Small(a), NEW p \in Ways(a), Readable(a, p), Along(frames, k, p), p[k] = frames[k].next
         PROVE  p \in P
    <2>1. Len(p) # k
      <3>1. Len(p) = k => EntriesOf(frames[k])[p[k]].kind \in TextKinds(Form(frames[k]))
        BY <1>1, <1>2, <1>10, WayAlong
      <3>2. QED
        BY <1>4, <1>10, <3>1 DEF TextKinds
    <2>2. Along(frames, n, p)
      BY <1>7, <1>10, <2>1
    <2>3. p[n] \in DOMAIN EntriesOf(frames[n])
      BY <1>1, <2>2, WayAlong
    <2>4. frames[n].next \notin DOMAIN EntriesOf(frames[n])
      BY <1>1, <1>10, SmallEntry
    <2>5. frames[n].next # 0
      BY <1>1, FrameFacts
    <2>6. p[n] < frames[n].next
      BY <1>3, <2>3, <2>4, <2>5
    <2>7. QED
      BY <1>1, <1>10, <2>2, <2>6 DEF FrameOK, Whole
  <1>11. Gives(a, frames, k, docs, 0)
    BY <1>5, <1>8, <1>9, <1>10, Zenon DEF Gives
  <1>12. QED
    BY <1>1, <1>2, <1>3, <1>4, <1>11, Zenon

\* What ArchivesFit says of the documents of an archive.
Fit(a, docs) ==
  /\ Cardinality(PathsOf(docs)) = Len(docs)
  /\ PathsOf(docs) \subseteq {p \in Ways(a) : Readable(a, p)}
  /\ Small(a) => PathsOf(docs) = {p \in Ways(a) : Readable(a, p)}
  /\ \A p \in PathsOf(docs) : FitsIn(a, PathsOf(docs), p)

LEMMA FitIs ==
  ArchivesFit <=> (file.form \in ArchiveForms /\ status \in {"indexed", "skipped"} => Fit(file.archive, units))
  BY Zenon DEF ArchivesFit, Fit, FitsIn, Slack, PathsOf

LEMMA LastFits ==
  ASSUME NEW a \in DOMAIN Archives, Opened(a, frames), Len(frames) = 1, Spent(Top)
  PROVE  Fit(a, Top.docs)
  <1> DEFINE docs == frames[1].docs
             P == PathsOf(docs)
  <1>1. 1 \in 1 .. Len(frames) /\ Linked(a, frames) /\ FrameOK(a, frames, 1) /\ Top = frames[1]
    BY TopIs
  <1>2. Cardinality(P) = Len(docs)
    BY <1>1 DEF FrameOK, Tallied
  <1>3. \A p \in P : p \in Ways(a) /\ Readable(a, p)
    BY <1>1 DEF FrameOK, Placed
  <1>4. \A p \in P : FitsIn(a, P, p)
    BY <1>1, FrameFits
  <1>5. ASSUME Small(a), NEW p \in Ways(a), Readable(a, p) PROVE p \in P
    <2>1. Along(frames, 1, p)
      <3>1. Len(p) \in Nat /\ Len(p) >= 1
        BY WaysAre, SpotType
      <3>2. QED
        BY <3>1 DEF Along
    <2>2. p[1] \in DOMAIN EntriesOf(frames[1])
      BY <1>1, <2>1, WayAlong
    <2>3. frames[1].next \notin DOMAIN EntriesOf(frames[1])
      BY <1>1, <1>5, SmallEntry
    <2>4. frames[1].next # 0 /\ frames[1].next \in Nat /\ EntriesOf(frames[1]) \in Seq(Entries)
      BY <1>1, FrameFacts
    <2>5. p[1] < frames[1].next
      BY <2>2, <2>3, <2>4
    <2>6. QED
      BY <1>1, <1>5, <2>1, <2>5 DEF FrameOK, Whole
  <1>6. QED
    BY <1>1, <1>2, <1>3, <1>4, <1>5 DEF Fit

LEMMA FrameIs ==
  ASSUME NEW a \in DOMAIN Archives
  PROVE  Frame(a) \in FrameSet
  <1>1. <<>> \in Seq(Docs) /\ 1 \in Nat \ {0} /\ 0 \in Nat
    OBVIOUS
  <1>2. QED
    BY <1>1 DEF Frame, FrameSet

\* An archive that was just opened has given nothing.
LEMMA FrameStarts ==
  ASSUME NEW a \in DOMAIN Archives, NEW fs, Linked(a, fs), NEW k \in 1 .. Len(fs), NEW b, fs[k] = Frame(b)
  PROVE  FrameOK(a, fs, k)
  <1>1. /\ fs[k].docs = <<>> /\ fs[k].next = 1 /\ fs[k].seen = 0 /\ fs[k].total = 0
    BY DEF Frame
  <1>2. PathsOf(<<>>) = {} /\ Own(<<>>, k) = {} /\ Len(<<>>) = 0
    BY DEF PathsOf, Own
  <1>3. Cardinality({}) = 0 /\ SizeOf(a, {}) = 0
    BY FS_EmptySet, SizeOfNone
  <1>4. /\ EntriesOf(fs[k]) \in Seq(Entries) /\ EntryCap[Form(fs[k])] \in Nat /\ Limit[Form(fs[k])] \in Nat
        /\ Form(fs[k]) \in ArchiveForms
    BY FrameFacts
  <1>5. TotalCap + Slack(Form(fs[k])) \in Nat
    <2>1. Slack(Form(fs[k])) \in Nat /\ TotalCap \in Nat
      BY <1>4, CapsAssumption DEF Slack
    <2>2. QED
      BY <2>1
  <1>6. 1 <= Len(EntriesOf(fs[k])) + 1
    BY <1>4
  <1>7. Tallied(a, fs, k)
    <2>1. 0 <= TotalCap + Slack(Form(fs[k])) /\ 0 <= Limit[Form(fs[k])] /\ 0 < 1 /\ 0 <= 0
      BY <1>4, <1>5
    <2>2. QED
      BY <1>1, <1>2, <1>3, <1>6, <2>1, Zenon DEF Tallied
  <1>8. Placed(a, fs, k)
    BY <1>1, <1>2 DEF Placed
  <1>9. Whole(a, fs, k)
    <2> SUFFICES ASSUME NEW p \in Ways(a), Along(fs, k, p), p[k] < 1 PROVE FALSE
      BY <1>1 DEF Whole
    <2>1. p[k] \in DOMAIN EntriesOf(fs[k])
      BY WayAlong
    <2>2. QED
      BY <1>4, <2>1
  <1>10. QED
    BY <1>7, <1>8, <1>9 DEF FrameOK

LEMMA FirstOpened ==
  ASSUME NEW a \in DOMAIN Archives
  PROVE  Opened(a, <<Frame(a)>>)
  <1> DEFINE fr == Frame(a)
  <1>1. fr \in FrameSet /\ fr.archive = a
    BY FrameIs DEF Frame
  <1> HIDE DEF fr
  <1>2. <<fr>> \in Seq(FrameSet) /\ Len(<<fr>>) = 1 /\ <<fr>>[1] = fr
    BY <1>1
  <1>3. 1 \in 1 .. (MaxDepth + 1) /\ 1 .. (1 - 1) = {}
    BY CapsAssumption
  <1>4. Linked(a, <<fr>>)
    BY <1>1, <1>2, <1>3 DEF Linked
  <1>5. ASSUME NEW k \in 1 .. Len(<<fr>>) PROVE FrameOK(a, <<fr>>, k)
    <2>1. <<fr>>[k] = Frame(a)
      BY <1>2 DEF fr
    <2>2. QED
      BY <1>4, <2>1, FrameStarts
  <1>6. QED
    BY <1>4, <1>5 DEF Opened, fr

LEMMA NestedOpened ==
  ASSUME NEW a \in DOMAIN Archives, Opened(a, frames), ~Spent(Top), Nested(Entry), ~Archives[Entry.holds].broken
  PROVE  Opened(a, Append(frames, Frame(Entry.holds)))
  <1> DEFINE n == Len(frames)
             b == Entry.holds
             fs2 == Append(frames, Frame(b))
  <1>1. /\ n \in 1 .. Len(frames) /\ n \in Nat /\ n # 0 /\ Linked(a, frames) /\ frames \in Seq(FrameSet)
        /\ Top = frames[n] /\ Entry = EntriesOf(frames[n])[frames[n].next]
    BY TopIs
  <1>2. frames[n].next \in DOMAIN EntriesOf(frames[n]) /\ Entry \in Entries
    BY <1>1, NotSpent
  <1>3. b \in DOMAIN Archives
    BY <1>2 DEF Entries
  <1>4. Form(frames[n]) # "jar" /\ Entry.kind = "nested" /\ n <= MaxDepth
    BY <1>1 DEF Nested
  <1>5. Frame(b) \in FrameSet /\ Frame(b).archive = b
    BY <1>3, FrameIs DEF Frame
  <1>6. /\ fs2 \in Seq(FrameSet) /\ Len(fs2) = n + 1 /\ fs2[n + 1] = Frame(b)
        /\ \A m \in 1 .. n : fs2[m] = frames[m]
    BY <1>1, <1>5
  <1> HIDE DEF fs2, b
  <1>7. Linked(a, fs2)
    <2>1. Len(fs2) \in 1 .. (MaxDepth + 1) /\ 1 \in 1 .. n
      <3>1. MaxDepth \in Nat
        BY CapsAssumption
      <3>2. QED
        BY <1>1, <1>4, <1>6, <3>1
    <2>2. fs2[1].archive = a
      BY <1>1, <1>6, <2>1 DEF Linked
    <2>3. ASSUME NEW k \in 1 .. (Len(fs2) - 1)
          PROVE  /\ fs2[k].next \in DOMAIN EntriesOf(fs2[k]) /\ Form(fs2[k]) # "jar"
                 /\ EntriesOf(fs2[k])[fs2[k].next].kind = "nested"
                 /\ EntriesOf(fs2[k])[fs2[k].next].holds = fs2[k + 1].archive
                 /\ ~Archives[fs2[k + 1].archive].broken
      <3>1. k \in 1 .. n /\ fs2[k] = frames[k]
        BY <1>1, <1>6
      <3>2. CASE k = n
        <4>1. fs2[k + 1].archive = b /\ ~Archives[b].broken
          BY <1>5, <1>6, <3>2 DEF b
        <4>2. QED
          BY <1>1, <1>2, <1>4, <3>1, <3>2, <4>1 DEF b
      <3>3. CASE k # n
        <4>1. k \in 1 .. (Len(frames) - 1) /\ k + 1 \in 1 .. n
          BY <1>1, <3>1, <3>3
        <4>2. fs2[k + 1] = frames[k + 1]
          BY <1>6, <4>1
        <4>3. QED
          BY <1>1, <3>1, <4>1, <4>2 DEF Linked
      <3>4. QED
        BY <3>2, <3>3
    <2>4. QED
      BY <1>6, <2>1, <2>2, <2>3 DEF Linked
  <1>8. ASSUME NEW m \in 1 .. Len(fs2) PROVE FrameOK(a, fs2, m)
    <2>1. CASE m = n + 1
      BY <1>6, <1>7, <2>1, FrameStarts
    <2>2. CASE m # n + 1
      <3>1. m \in 1 .. n /\ m \in Nat /\ m # 0 /\ \A j \in 1 .. m : j \in 1 .. n
        BY <1>1, <1>6, <2>2
      <3>2. FrameOK(a, frames, m) /\ \A j \in 1 .. m : fs2[j] = frames[j]
        BY <1>6, <3>1 DEF Opened
      <3>3. QED
        BY <3>1, <3>2, FrameSame
    <2>3. QED
      BY <2>1, <2>2
  <1>9. QED
    BY <1>7, <1>8 DEF Opened, fs2, b

LEMMA TopTook ==
  ASSUME NEW a \in DOMAIN Archives, Opened(a, frames), ~Spent(Top), NEW more \in Seq(Docs), NEW size \in Nat,
         Gives(a, frames, Len(frames), more, size)
  PROVE  Opened(a, [frames EXCEPT ![Len(frames)] = Took(frames[Len(frames)], more, size)])
  <1> DEFINE n == Len(frames)
             fr == Took(frames[n], more, size)
             fs2 == [frames EXCEPT ![n] = fr]
  <1>1. /\ n \in 1 .. Len(frames) /\ n \in Nat /\ n # 0 /\ Linked(a, frames) /\ frames \in Seq(FrameSet)
        /\ Top = frames[n]
    BY TopIs
  <1>2. frames[n].next \in DOMAIN EntriesOf(frames[n])
    BY <1>1, NotSpent
  <1>3. frames[n] \in FrameSet
    BY <1>1
  <1>4. fr \in FrameSet
    BY <1>3, TookIs DEF TookAs
  <1> HIDE DEF fr
  <1>5. fs2 \in Seq(FrameSet) /\ Len(fs2) = n /\ fs2[n] = fr /\ \A m \in 1 .. (n - 1) : fs2[m] = frames[m]
    BY <1>1, <1>4
  <1> HIDE DEF fs2
  <1>6. Opened(a, fs2)
    BY <1>1, <1>2, <1>5, OpenedUpTo DEF fr
  <1>7. QED
    BY <1>6 DEF fs2, fr

LEMMA OuterTook ==
  ASSUME NEW a \in DOMAIN Archives, Opened(a, frames), Spent(Top), Len(frames) # 1
  PROVE  Opened(a, [SubSeq(frames, 1, Len(frames) - 1) EXCEPT ![Len(frames) - 1] = Took(@, Top.docs, 0)])
  <1>0. PICK k : k = Len(frames) - 1
    OBVIOUS
  <1> DEFINE docs == Top.docs
             below == SubSeq(frames, 1, k)
             fr == Took(frames[k], docs, 0)
             fs2 == [below EXCEPT ![k] = Took(@, docs, 0)]
  <1>1. /\ k \in 1 .. Len(frames) /\ docs \in Seq(Docs) /\ frames[k].next \in DOMAIN EntriesOf(frames[k])
        /\ Gives(a, frames, k, docs, 0)
    BY <1>0, NestedGives
  <1>2. frames \in Seq(FrameSet) /\ k \in Nat /\ k # 0 /\ k <= Len(frames)
    BY <1>0, <1>1, TopIs
  <1>3. frames[k] \in FrameSet /\ 0 \in Nat
    BY <1>1, <1>2
  <1> HIDE DEF docs
  <1>4. fr \in FrameSet
    BY <1>1, <1>3, TookIs DEF TookAs
  <1>5. below \in Seq(FrameSet) /\ Len(below) = k /\ \A m \in 1 .. k : below[m] = frames[m]
    BY <1>2
  <1>6. k \in 1 .. k /\ below[k] = frames[k]
    BY <1>2, <1>5
  <1> HIDE DEF fr, below
  <1>7. fs2 = [below EXCEPT ![k] = fr]
    BY <1>6 DEF fr
  <1>8. fs2 \in Seq(FrameSet) /\ Len(fs2) = k /\ fs2[k] = fr /\ \A m \in 1 .. (k - 1) : fs2[m] = frames[m]
    BY <1>2, <1>4, <1>5, <1>7
  <1> HIDE DEF fs2
  <1>9. Opened(a, fs2)
    BY <1>1, <1>3, <1>8, OpenedUpTo DEF fr
  <1>10. QED
    BY <1>0, <1>9 DEF fs2, docs, below

\* The open archives keep within their limits, and what they leave fits.
ArchivesInv ==
  /\ status = "open" => Opened(file.archive, frames)
  /\ file.form \in ArchiveForms /\ status \in {"indexed", "skipped"} => Fit(file.archive, units)
UnitsInv == DocumentsInv /\ ArchivesInv

LEMMA ArchivesInvNext == UnitsInv /\ [ExtractNext]_extractVars => ArchivesInv'
  <1> SUFFICES ASSUME DocumentsInv, ArchivesInv, [ExtractNext]_extractVars PROVE ArchivesInv'
    BY DEF UnitsInv
  <1>1. PICK a \in DOMAIN Archives : a = file.archive
    BY FilesAssumption DEF DocumentsInv
  <1>2. status = "open" => Opened(a, frames) /\ file.form \in ArchiveForms
    BY <1>1 DEF ArchivesInv, DocumentsInv
  <1>3. ASSUME file' = file, status' \in {"soft", "encrypted", "unlocked"} PROVE ArchivesInv'
    BY <1>3 DEF ArchivesInv
  <1>4. ASSUME file' = file, status' \in {"indexed", "skipped"}, file.form \notin ArchiveForms PROVE ArchivesInv'
    BY <1>4 DEF ArchivesInv
  <1>5. ASSUME file' = file, status' = "open", NEW fs2, frames' = fs2, Opened(a, fs2) PROVE ArchivesInv'
    BY <1>1, <1>5 DEF ArchivesInv
  <1>6. ASSUME NEW how, NEW us, Finish(us, how) PROVE status' = how /\ units' = us /\ frames' = <<>>
    BY <1>6 DEF Finish
  <1>7. \A us : Outcome(us) \in {"indexed", "skipped"}
    BY DEF Outcome
  <1>8. CASE ReadDocument
    <2>1. file' = file /\ file.form \notin ArchiveForms
      BY <1>8 DEF ReadDocument
    <2>2. status' \in {"soft", "indexed", "skipped"}
      BY <1>7, <1>8, <1>6 DEF ReadDocument, Finish
    <2>3. QED
      BY <1>3, <1>4, <2>1, <2>2
  <1>9. CASE ReadEncrypted
    <2>1. file' = file /\ Encrypted(file) /\ status' \in {"encrypted", "skipped"}
      BY <1>9 DEF ReadEncrypted, Finish
    <2>2. file.form \notin ArchiveForms
      BY <2>1 DEF Encrypted, ArchiveForms, Office
    <2>3. QED
      BY <1>3, <1>4, <2>1, <2>2
  <1>10. CASE ReadPlain
    <2>1. file' = file /\ file.form \notin ArchiveForms /\ status' = "indexed"
      BY <1>10 DEF ReadPlain, Finish, ArchiveForms
    <2>2. QED
      BY <1>4, <2>1
  <1>11. CASE OpenArchive
    <2>1. file' = file
      BY <1>11 DEF OpenArchive
    <2>2. CASE Archives[file.archive].broken
      BY <1>3, <1>11, <2>1, <2>2 DEF OpenArchive, Finish
    <2>3. CASE ~Archives[file.archive].broken
      <3>1. status' = "open" /\ frames' = <<Frame(a)>>
        BY <1>1, <1>11, <2>3 DEF OpenArchive
      <3>2. Opened(a, <<Frame(a)>>)
        BY FirstOpened
      <3>3. QED
        BY <1>5, <2>1, <3>1, <3>2
    <2>4. QED
      BY <2>2, <2>3
  <1>12. ASSUME status = "open", UNCHANGED <<file, status>>, ~Spent(Top), NEW more \in Seq(Docs), NEW size \in Nat,
                Gives(a, frames, Len(frames), more, size), frames' = Replace(Took(Top, more, size))
         PROVE  ArchivesInv'
    <2>1. Opened(a, [frames EXCEPT ![Len(frames)] = Took(frames[Len(frames)], more, size)])
      BY <1>2, <1>12, TopTook
    <2>2. frames' = [frames EXCEPT ![Len(frames)] = Took(frames[Len(frames)], more, size)]
      BY <1>12 DEF Replace, Top
    <2>3. QED
      BY <1>5, <1>12, <2>1, <2>2
  <1>13. CASE TakeText
    <2>1. status = "open" /\ UNCHANGED <<file, status>> /\ ~Spent(Top) /\ ~Nested(Entry) /\ GivesText(Entry)
      BY <1>13 DEF TakeText
    <2>2. CASE frames' = Replace(Took(Top, <<Unit(PathTo(Top.next), {1})>>, ReadSize(Entry)))
      <3>1. /\ <<Unit(PathTo(Top.next), {1})>> \in Seq(Docs) /\ ReadSize(Entry) \in Nat
            /\ Gives(a, frames, Len(frames), <<Unit(PathTo(Top.next), {1})>>, ReadSize(Entry))
        BY <1>2, <2>1, TextGives
      <3>2. QED
        BY <1>12, <2>1, <2>2, <3>1
    <2>3. CASE Cut(Entry) /\ frames' = Replace(Took(Top, <<>>, 0))
      <3>1. <<>> \in Seq(Docs) /\ Gives(a, frames, Len(frames), <<>>, 0) /\ 0 \in Nat
        BY <1>2, <2>1, <2>3, NothingGives
      <3>2. QED
        BY <1>12, <2>1, <2>3, <3>1
    <2>4. QED
      BY <1>13, <2>2, <2>3 DEF TakeText
  <1>14. CASE TakeNothing
    <2>1. status = "open" /\ UNCHANGED <<file, status>> /\ ~Spent(Top) /\ frames' = Replace(Took(Top, <<>>, 0))
          /\ IF Nested(Entry) THEN Archives[Entry.holds].broken ELSE ~GivesText(Entry)
      BY <1>14 DEF TakeNothing
    <2>2. <<>> \in Seq(Docs) /\ Gives(a, frames, Len(frames), <<>>, 0) /\ 0 \in Nat
      BY <1>2, <2>1, NothingGives
    <2>3. QED
      BY <1>12, <2>1, <2>2
  <1>15. CASE TakeNested
    <2>1. /\ status = "open" /\ UNCHANGED <<file, status>> /\ ~Spent(Top) /\ Nested(Entry)
          /\ ~Archives[Entry.holds].broken /\ frames' = Append(frames, Frame(Entry.holds))
      BY <1>15 DEF TakeNested
    <2>2. Opened(a, Append(frames, Frame(Entry.holds)))
      BY <1>2, <2>1, NestedOpened
    <2>3. QED
      BY <1>5, <2>1, <2>2
  <1>16. CASE CloseArchive
    <2>1. status = "open" /\ Spent(Top) /\ file' = file /\ Opened(a, frames) /\ file.form \in ArchiveForms
      BY <1>2, <1>16 DEF CloseArchive
    <2>2. CASE Len(frames) = 1
      <3>1. units' = Top.docs /\ status' \in {"indexed", "skipped"}
        BY <1>7, <1>16, <2>2 DEF CloseArchive, Finish
      <3>2. Fit(a, Top.docs)
        BY <2>1, <2>2, LastFits
      <3>3. PICK us : us = Top.docs
        OBVIOUS
      <3>4. units' = us /\ Fit(a, us)
        BY <3>1, <3>2, <3>3
      <3>5. QED
        BY <1>1, <2>1, <3>1, <3>4 DEF ArchivesInv
    <2>3. CASE Len(frames) # 1
      <3>1. /\ UNCHANGED status
            /\ frames' = [SubSeq(frames, 1, Len(frames) - 1) EXCEPT ![Len(frames) - 1] = Took(@, Top.docs, 0)]
        BY <1>16, <2>3 DEF CloseArchive
      <3>2. Opened(a, [SubSeq(frames, 1, Len(frames) - 1) EXCEPT ![Len(frames) - 1] = Took(@, Top.docs, 0)])
        BY <2>1, <2>3, OuterTook
      <3>3. QED
        BY <1>5, <2>1, <3>1, <3>2
    <2>4. QED
      BY <2>2, <2>3
  <1>17. CASE \E right \in BOOLEAN : Unlock(right)
    <2>1. file' = file /\ status = "encrypted" /\ status' \in {"encrypted", "unlocked"}
      BY <1>17 DEF Unlock, Finish
    <2>2. QED
      BY <1>3, <2>1
  <1>18. CASE UNCHANGED extractVars
    <2>1. file' = file /\ status' = status /\ frames' = frames /\ units' = units
      BY <1>18 DEF extractVars
    <2>2. QED
      BY <2>1 DEF ArchivesInv
  <1>19. QED
    BY <1>8, <1>9, <1>10, <1>11, <1>13, <1>14, <1>15, <1>16, <1>17, <1>18, Zenon DEF ExtractNext, Settle

\* What goes into the index is what a reader with the password would see, of a
\* document and of every entry of an archive, whatever the files, the archives in
\* them and the limits: extract.Extract, the archive readers and indexExtracted.
THEOREM UnitsAreFaithful == ExtractSpec => []UnitsFaithful
  <1>1. ExtractInit => UnitsInv
    <2>1. ExtractInit => DocumentsInv
      BY DocumentsInvInit
    <2>2. ExtractInit => ArchivesInv
      BY DEF ExtractInit, ArchivesInv
    <2>3. QED
      BY <2>1, <2>2 DEF UnitsInv
  <1>2. UnitsInv /\ [ExtractNext]_extractVars => UnitsInv'
    BY DocumentsInvNext, ArchivesInvNext DEF UnitsInv
  <1>3. UnitsInv => UnitsFaithful
    BY DocumentsInvEnough, FitIs DEF UnitsInv, ArchivesInv, UnitsFaithful
  <1>4. QED
    BY <1>1, <1>2, <1>3, PTL DEF ExtractSpec
==============================================================================
