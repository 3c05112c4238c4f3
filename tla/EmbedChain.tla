------------------------------- MODULE EmbedChain -------------------------------
(***************************************************************************)
(* The chain of embedding providers and their circuit breakers             *)
(* (internal/embed/circuit.go, embed.go and the chain of chain.go).        *)
(* Callers run at the same time: index workers, searches, jobs.  A call    *)
(* asks the providers in order, each behind its breaker, until one         *)
(* answers.  A breaker that has counted Threshold failures in a row        *)
(* refuses calls for a cooldown and then lets a single probe through.      *)
(*                                                                         *)
(* A breaker's operations hold its mutex and are one action each; a call   *)
(* that is on its way to a provider may be overtaken by everything else.   *)
(***************************************************************************)
EXTENDS Naturals

CONSTANTS
  NProviders,      \* providers of the chain, 1 being asked first
  Locals,          \* those that run on this machine
  Callers,         \* goroutines that use the chain
  Threshold,       \* failures in a row that open a breaker
  MaxRetries,      \* quick retries of a transient failure
  AllowLostProbes, \* may a probe end in a timeout, a cancellation or an unknown model?
  MaxFlips         \* bound: times a provider goes down or comes back

Providers == 1 .. NProviders

ASSUME NProvidersAssumption == NProviders \in Nat \ {0}
ASSUME LocalsAssumption == Locals \subseteq Providers
ASSUME ThresholdAssumption == Threshold \in Nat \ {0}
ASSUME RetriesAssumption == MaxRetries \in Nat /\ MaxFlips \in Nat
ASSUME LostProbesAssumption == AllowLostProbes \in BOOLEAN

VARIABLES
  failures,  \* failures in a row, counted up to Threshold
  open,      \* openUntil lies in the future
  probing,   \* a half-open probe is in flight
  up,        \* does the provider answer, and in time?
  flips,
  pc,        \* "idle", "ask" (at a breaker) or "call" (at the provider behind it)
  at,        \* the provider the caller has come to
  probe,     \* was the caller let through as a probe?
  local,     \* the call's context forces local providers
  op,        \* "embed", or "info" (ModelInfo)
  tries,     \* quick retries made
  outcome    \* how the caller's last request ended

breakers == <<failures, open, probing>>
request == <<local, op>>
vars == <<breakers, up, flips, pc, at, probe, request, tries, outcome>>

TypeOK ==
  /\ failures \in [Providers -> 0 .. Threshold]
  /\ open \in [Providers -> BOOLEAN]
  /\ probing \in [Providers -> BOOLEAN]
  /\ up \in [Providers -> BOOLEAN]
  /\ flips \in 0 .. MaxFlips
  /\ pc \in [Callers -> {"idle", "ask", "call"}]
  /\ at \in [Callers -> Providers]
  /\ probe \in [Callers -> BOOLEAN]
  /\ local \in [Callers -> BOOLEAN]
  /\ op \in [Callers -> {"embed", "info"}]
  /\ tries \in [Callers -> 0 .. MaxRetries]
  /\ outcome \in [Callers -> {"none", "ok", "failed", "cancelled"}]

Init ==
  /\ failures = [p \in Providers |-> 0]
  /\ open = [p \in Providers |-> FALSE]
  /\ probing = [p \in Providers |-> FALSE]
  /\ up = [p \in Providers |-> TRUE]
  /\ flips = 0
  /\ pc = [c \in Callers |-> "idle"]
  /\ at = [c \in Callers |-> 1]
  /\ probe = [c \in Callers |-> FALSE]
  /\ local = [c \in Callers |-> FALSE]
  /\ op = [c \in Callers |-> "embed"]
  /\ tries = [c \in Callers |-> 0]
  /\ outcome = [c \in Callers |-> "ok"]

------------------------------------------------------------------------------
(* The breaker *)

\* Mutant of HalfOpen: there is no probe, a tripped breaker stays shut.
NeverHalfOpen(p) == FALSE

Closed(p) == ~open[p] /\ failures[p] < Threshold
HalfOpen(p) == ~open[p] /\ failures[p] = Threshold /\ ~probing[p]
Refuses(p) == ~Closed(p) /\ ~HalfOpen(p)

RecordSuccess(p) ==
  /\ failures' = [failures EXCEPT ![p] = 0]
  /\ open' = [open EXCEPT ![p] = FALSE]
  /\ probing' = [probing EXCEPT ![p] = FALSE]

OneMore(n) == IF n < Threshold THEN n + 1 ELSE n

\* Mutant of RecordFailure: a failed probe is not taken back.
RecordFailureOnly(p) ==
  /\ failures' = [failures EXCEPT ![p] = OneMore(@)]
  /\ open' = [open EXCEPT ![p] = OneMore(failures[p]) = Threshold]
  /\ UNCHANGED probing

RecordFailure(p) ==
  /\ failures' = [failures EXCEPT ![p] = OneMore(@)]
  /\ open' = [open EXCEPT ![p] = @ \/ OneMore(failures[p]) = Threshold]
  /\ probing' = [probing EXCEPT ![p] = FALSE]

\* The cooldown of an open breaker ends.
Cool(p) ==
  /\ open[p]
  /\ open' = [open EXCEPT ![p] = FALSE]
  /\ UNCHANGED <<failures, probing, up, flips, pc, at, probe, request, tries, outcome>>

\* The provider goes down or answers again.
Flip(p) ==
  /\ flips < MaxFlips
  /\ flips' = flips + 1
  /\ up' = [up EXCEPT ![p] = ~@]
  /\ UNCHANGED <<breakers, pc, at, probe, request, tries, outcome>>

------------------------------------------------------------------------------
(* A request: tryEach over the providers that are not skipped *)

Eligible(loc) == IF loc THEN Locals ELSE Providers

IsFirst(p, P) == p \in P /\ \A q \in P : p <= q

Ends(c, result) ==
  /\ pc' = [pc EXCEPT ![c] = "idle"]
  /\ outcome' = [outcome EXCEPT ![c] = result]
  /\ UNCHANGED at

ComesTo(c, p) ==
  /\ pc' = [pc EXCEPT ![c] = "ask"]
  /\ at' = [at EXCEPT ![c] = p]
  /\ UNCHANGED outcome

\* The provider failed or refused: on to the next one, or the request fails; or
\* the caller has given up meanwhile.
Proceed(c) ==
  LET rest == {p \in Eligible(local[c]) : p > at[c]} IN
  \/ Ends(c, "cancelled")
  \/ rest = {} /\ Ends(c, "failed")
  \/ \E p \in Providers : IsFirst(p, rest) /\ ComesTo(c, p)

\* With no eligible provider the call returns at once and touches no breaker.
Request(c, loc, o) ==
  /\ pc[c] = "idle"
  /\ pc' = [pc EXCEPT ![c] = "ask"]
  /\ \E p \in Providers : IsFirst(p, Eligible(loc)) /\ at' = [at EXCEPT ![c] = p]
  /\ local' = [local EXCEPT ![c] = loc]
  /\ op' = [op EXCEPT ![c] = o]
  /\ outcome' = [outcome EXCEPT ![c] = "none"]
  /\ UNCHANGED <<breakers, up, flips, probe, tries>>

\* allow() lets the call through, as the probe if the breaker is half-open.
Admit(c) ==
  LET p == at[c] IN
  /\ pc[c] = "ask" /\ ~Refuses(p)
  /\ probing' = [probing EXCEPT ![p] = @ \/ HalfOpen(p)]
  /\ probe' = [probe EXCEPT ![c] = HalfOpen(p)]
  /\ tries' = [tries EXCEPT ![c] = 0]
  /\ pc' = [pc EXCEPT ![c] = "call"]
  /\ UNCHANGED <<failures, open, up, flips, at, request, outcome>>

Refuse(c) ==
  /\ pc[c] = "ask" /\ Refuses(at[c])
  /\ Proceed(c)
  /\ UNCHANGED <<breakers, up, flips, probe, request, tries>>

Succeed(c) ==
  /\ pc[c] = "call" /\ up[at[c]]
  /\ RecordSuccess(at[c])
  /\ Ends(c, "ok")
  /\ UNCHANGED <<up, flips, probe, request, tries>>

\* retryTransient: an embedding call is tried again; the breaker does not see it.
Retry(c) ==
  /\ pc[c] = "call" /\ ~up[at[c]] /\ op[c] = "embed" /\ tries[c] < MaxRetries
  /\ tries' = [tries EXCEPT ![c] = @ + 1]
  /\ UNCHANGED <<breakers, up, flips, pc, at, probe, request, outcome>>

\* The provider's failure is counted: retries used up, or not worth one.
FailCall(c) ==
  /\ pc[c] = "call" /\ ~up[at[c]]
  /\ RecordFailure(at[c])
  /\ Proceed(c)
  /\ UNCHANGED <<up, flips, probe, request, tries>>

MayBeLost(c) == AllowLostProbes \/ ~probe[c]

\* The provider does not answer before the deadline tryEach has given the call,
\* or ModelInfo finds the model unknown: the breaker is told nothing, the chain
\* goes on.
Uncounted(c) ==
  /\ pc[c] = "call" /\ MayBeLost(c)
  /\ ~up[at[c]] \/ op[c] = "info"
  /\ Proceed(c)
  /\ UNCHANGED <<breakers, up, flips, probe, request, tries>>

\* The caller's context is cancelled: the breaker is told nothing either.
Cancel(c) ==
  /\ pc[c] = "call" /\ MayBeLost(c)
  /\ Ends(c, "cancelled")
  /\ UNCHANGED <<breakers, up, flips, probe, request, tries>>

Step(c) == Admit(c) \/ Refuse(c) \/ Succeed(c) \/ Retry(c) \/ FailCall(c) \/ Uncounted(c)

Next ==
  \/ \E p \in Providers : Cool(p) \/ Flip(p)
  \/ \E c \in Callers : Step(c) \/ Cancel(c)
  \/ \E c \in Callers, loc \in BOOLEAN, o \in {"embed", "info"} : Request(c, loc, o)

Spec == Init /\ [][Next]_vars

\* Cooldowns end, calls return (each has a deadline) and a caller goes on.
Fairness ==
  /\ \A p \in Providers : WF_vars(Cool(p))
  /\ \A c \in Callers : WF_vars(Step(c))

FairSpec == Spec /\ Fairness

------------------------------------------------------------------------------
(* Properties *)

\* A breaker holds everybody back for a probe only while that probe is in flight
\* ("hold everyone else back until it resolves", allow): otherwise no call can
\* ever reach the provider again.
ProbeInFlight ==
  \A p \in Providers :
    probing[p] => \E c \in Callers : pc[c] = "call" /\ at[c] = p /\ probe[c]

\* The three fields of a breaker agree: it is open, or awaits a probe, only with
\* its threshold reached, and never both.  A late result of a call that was let
\* through before the breaker opened must not tear them apart.
BreakerCoherent ==
  \A p \in Providers :
    /\ open[p] \/ probing[p] => failures[p] = Threshold
    /\ ~(open[p] /\ probing[p])

\* A request whose context forces local providers never reaches a remote one, not
\* even when all local ones have failed.
LocalStaysLocal ==
  \A c \in Callers : pc[c] # "idle" /\ local[c] => at[c] \in Locals

\* Once all providers answer for good, embedding calls stop failing: no breaker
\* shuts its provider out for ever.  (A model lookup may go on failing: the model
\* may be unknown to every provider.)
ServiceResumes ==
  <>[](\A p \in Providers : up[p])
    => \A c \in Callers :
         ~([]<>(outcome[c] = "failed" /\ op[c] = "embed") /\ []<>(outcome[c] = "none"))
==============================================================================
