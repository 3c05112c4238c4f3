------------------------------- MODULE AgentTurn -------------------------------
(***************************************************************************)
(* One turn of a chat: the tool loop of agent.Runner with its callbacks,   *)
(* the channel of stream chunks, and the handler that writes them to the   *)
(* client as events (webadmin/chat_api.go, webchat/handler.go).            *)
(*                                                                         *)
(* The loop itself is the fantasy library's, modelled from how Runner uses *)
(* it: the provider commits calls one by one, tools that only read run     *)
(* concurrently, a step ends with its last result.                         *)
(***************************************************************************)
EXTENDS Integers, Sequences, FiniteSets, SequencesExt

CONSTANTS
  Projects,     \* what can be searched
  All,          \* the scope of a global chat
  NoRef,        \* a call names no project
  Plans,        \* the sequences of calls a model may commit in a step
  MaxSteps,     \* RunnerConfig.MaxSteps
  LoopWindow,   \* loopWindow
  MaxRepeats,   \* loopMaxRepeats
  Capacity      \* of the channel

ASSUME ScopesAssumption == All \notin Projects /\ NoRef \notin Projects \cup {All}
ASSUME LimitsAssumption == /\ {MaxSteps, Capacity} \subseteq Nat \ {0}
                           /\ LoopWindow \in Nat /\ MaxRepeats \in Nat

Call == [tool : {"semantic_search", "reindex_project"}, ref : Projects \cup {NoRef}]
ASSUME PlansAssumption == Plans \subseteq Seq(Call)

Surfaces == {"admin", "web", "repl"}
Policies == {"off", "propose", "confirm", "execute"}

VARIABLES
  turn,      \* the request: surface, mode, scope, policy, streamed or not
  loop,      \* where the runner is
  steps,     \* the finished steps: sequences of calls with their outcomes
  calls,     \* the calls of the current step
  said,      \* has the provider sent text in this step?
  failed,    \* did Stream or Ask return an error?
  queue,     \* the channel, closed once the loop has exited
  handler,   \* where the HTTP handler is
  cancelled, \* the context of the request is done
  away,      \* the client has closed the connection
  found,     \* what the retrieval of the rag mode found
  page       \* what the client has received

streamVars == <<queue, handler, page>>
loopVars == <<steps, calls, said, failed, found>>
turnVars == <<turn, loop, loopVars, streamVars, cancelled, away>>

Hits == SUBSET Projects             \* the spans a search cites, by project
NoOutcome == [kind |-> "none", hits |-> {}]
Blank == [chips |-> {}, results |-> {}, orphans |-> 0, text |-> FALSE, cited |-> {},
          opened |-> FALSE, told |-> FALSE, done |-> FALSE]

Idle == [surface |-> "none", mode |-> "agent", scope |-> All, policy |-> "off", streamed |-> FALSE]

TurnTypeOK ==
  /\ turn = Idle \/ turn \in [surface : Surfaces, mode : {"agent", "rag"}, scope : Projects \cup {All},
                              policy : Policies, streamed : BOOLEAN]
  /\ loop \in {"idle", "retrieve", "provider", "tools", "ending", "exited"}
  /\ Len(steps) <= MaxSteps /\ Len(queue) <= Capacity
  /\ handler \in {"idle", "waiting", "reading", "refusing", "closing", "returned"}
  /\ {said, failed, cancelled, away} \subseteq BOOLEAN
  /\ found \in Hits /\ page.cited \in Hits /\ page.text \in BOOLEAN

TurnInit ==
  /\ turn = Idle /\ loop = "idle" /\ steps = <<>> /\ calls = <<>> /\ said = FALSE /\ failed = FALSE
  /\ found = {} /\ queue = <<>> /\ handler = "idle" /\ cancelled = FALSE /\ away = FALSE /\ page = Blank

------------------------------------------------------------------------------
(* What the client makes of an event *)
Show(c) ==
  CASE c.kind = "text" -> [page EXCEPT !.text = TRUE]
    [] c.kind = "call" -> [page EXCEPT !.chips = @ \cup {c.id}]
    \* applyToolResult: a result without its call becomes a chip of its own
    [] c.kind = "result" /\ c.id \in page.chips    -> [page EXCEPT !.results = @ \cup {c.id}]
    [] c.kind = "result" /\ c.id \notin page.chips -> [page EXCEPT !.orphans = @ + 1]
    [] c.kind = "done" -> [page EXCEPT !.cited = @ \cup c.hits, !.told = @ \/ c.err]

Chunk(kind, id) == [kind |-> kind, id |-> id, hits |-> {}, err |-> FALSE]

\* Mutants of Put: a full channel loses the chunk, or is waited for in any case.
PutOrDrop(c) ==
  /\ queue' = IF Len(queue) < Capacity THEN Append(queue, c) ELSE queue
  /\ UNCHANGED <<handler, page>>
PutWaiting(c) ==
  IF turn.surface = "repl" THEN page' = Show(c) /\ UNCHANGED <<queue, handler>>
  ELSE IF ~turn.streamed THEN UNCHANGED streamVars
  ELSE Len(queue) < Capacity /\ queue' = Append(queue, c) /\ UNCHANGED <<handler, page>>

\* send: the channel takes the chunk, or the request is over and it is dropped.
\* Callbacks of the terminal print at once; Ask has no callbacks.
Put(c) ==
  IF turn.surface = "repl" THEN page' = Show(c) /\ UNCHANGED <<queue, handler>>
  ELSE IF ~turn.streamed THEN UNCHANGED streamVars
  ELSE /\ \/ Len(queue) < Capacity /\ queue' = Append(queue, c)
          \/ cancelled /\ UNCHANGED queue
       /\ UNCHANGED <<handler, page>>

\* What a search of the turn may cite; it finds all of it, or fails.
Findable == IF turn.scope = All THEN Projects ELSE {turn.scope}

------------------------------------------------------------------------------
(* The turn begins *)
Begin(t) ==
  /\ loop \in {"idle", "exited"} /\ handler \in {"idle", "returned"}
  /\ turn' = t
  /\ loop' = IF t.mode = "rag" THEN "retrieve" ELSE "provider"
  /\ steps' = <<>> /\ calls' = <<>> /\ said' = FALSE /\ failed' = FALSE /\ found' = {}
  /\ queue' = <<>> /\ cancelled' = FALSE /\ away' = FALSE
  /\ IF t.mode = "agent" /\ t.streamed /\ t.surface # "repl"
     THEN handler' = "reading" /\ page' = [Blank EXCEPT !.opened = TRUE]
     ELSE handler' = "waiting" /\ page' = Blank

\* retrieve: one search in the project of the chat, before the stream opens.
Retrieve ==
  /\ loop = "retrieve"
  /\ \E ok \in BOOLEAN :
       /\ turn.scope = All => ~ok                 \* no project: not found
       /\ found' = IF ok THEN Findable ELSE {}
       /\ IF ok THEN loop' = "provider" /\ UNCHANGED failed
                ELSE loop' = "exited" /\ failed' = TRUE
       /\ handler' = IF ~ok THEN "refusing" ELSE IF turn.streamed THEN "reading" ELSE handler
       /\ page' = IF ~ok \/ ~turn.streamed \/ away THEN page
                  ELSE IF turn.surface = "web" THEN [page EXCEPT !.opened = TRUE]
                  ELSE [page EXCEPT !.opened = TRUE, !.cited = Findable]  \* sources first
  /\ UNCHANGED <<turn, steps, calls, said, queue, cancelled, away>>

------------------------------------------------------------------------------
(* The provider's part of a step *)
Speak ==
  /\ loop = "provider" /\ ~said /\ said' = TRUE
  /\ Put(Chunk("text", <<0, 0>>))
  /\ UNCHANGED <<turn, loop, steps, calls, failed, found, cancelled, away>>

\* A runner of the rag mode has no tools.
Commit(plan) ==
  /\ loop = "provider" /\ plan # <<>> /\ turn.mode = "agent"
  /\ loop' = "tools"
  /\ calls' = [i \in DOMAIN plan |-> [call |-> plan[i], st |-> "new", out |-> NoOutcome]]
  /\ UNCHANGED <<turn, steps, said, failed, found, streamVars, cancelled, away>>

Answer ==
  /\ loop = "provider" /\ loop' = "ending"
  /\ steps' = Append(steps, <<>>)
  /\ UNCHANGED <<turn, calls, said, failed, found, streamVars, cancelled, away>>

\* After its retries, or because the context is done.
ProviderFails ==
  /\ loop = "provider" /\ loop' = "ending" /\ failed' = TRUE
  /\ UNCHANGED <<turn, steps, calls, said, found, streamVars, cancelled, away>>

------------------------------------------------------------------------------
(* The tools' part of a step *)
Id(i) == <<Len(steps) + 1, i>>

Announce(i) ==
  /\ loop = "tools" /\ calls[i].st = "new"
  /\ \A j \in 1 .. i - 1 : calls[j].st # "new"
  /\ calls' = [calls EXCEPT ![i].st = "called"]
  /\ Put(Chunk("call", Id(i)))
  /\ UNCHANGED <<turn, loop, steps, said, failed, found, cancelled, away>>

\* scopeConflictResponse: a bound turn refuses another project.
Conflict(ref) == turn.scope # All /\ ref # NoRef /\ ref # turn.scope

\* runSemanticSearch: every project, the project of the turn, or a refusal.
Searched(ref) ==
  IF Conflict(ref) THEN {[kind |-> "refused", hits |-> {}]}
  ELSE {[kind |-> "hits", hits |-> Findable], [kind |-> "failed", hits |-> {}]}

\* applyActionPolicy: only the terminal has somebody to ask.
Gated ==
  LET kinds == CASE turn.policy = "propose" -> {"proposed"}
                 [] turn.policy = "confirm" /\ turn.surface = "repl" -> {"ran", "denied"}
                 [] turn.policy = "execute" -> {"ran"}           \* well or not
                 [] OTHER -> {"refused"}          \* no approver, or no such tool
  IN [kind : kinds, hits : {{}}]

RunTool(i) ==
  /\ loop = "tools" /\ calls[i].st = "called"
  /\ calls[i].call.tool = "semantic_search" \/ \A j \in DOMAIN calls : calls[j].st # "reporting"
  /\ \E out \in IF calls[i].call.tool = "semantic_search" THEN Searched(calls[i].call.ref) ELSE Gated :
       calls' = [calls EXCEPT ![i].st = "reporting", ![i].out = out]
  /\ UNCHANGED <<turn, loop, steps, said, failed, found, streamVars, cancelled, away>>

Report(i) ==
  /\ loop = "tools" /\ calls[i].st = "reporting"
  /\ calls' = [calls EXCEPT ![i].st = "reported"]
  /\ Put(Chunk("result", Id(i)))
  /\ UNCHANGED <<turn, loop, steps, said, failed, found, cancelled, away>>

\* LoopDetection: one call, by tool and arguments, too often in the window.
LoopDetected(ss) ==
  LET from == IF Len(ss) > LoopWindow THEN Len(ss) - LoopWindow + 1 ELSE 1
      recent == FlattenSeq(SubSeq(ss, from, Len(ss)))
      Repeats(i) == {j \in DOMAIN recent : recent[j].call = recent[i].call}
  IN /\ LoopWindow > 0 /\ MaxRepeats > 0
     /\ \E i \in DOMAIN recent : Cardinality(Repeats(i)) >= MaxRepeats

Stops(ss) == Len(ss) >= MaxSteps \/ LoopDetected(ss)

EndStep ==
  /\ loop = "tools" /\ \A i \in DOMAIN calls : calls[i].st = "reported"
  /\ steps' = Append(steps, [i \in DOMAIN calls |-> [call |-> calls[i].call, out |-> calls[i].out]])
  /\ loop' = IF Stops(steps') THEN "ending" ELSE "provider"
  /\ calls' = <<>> /\ said' = FALSE
  /\ UNCHANGED <<turn, failed, found, streamVars, cancelled, away>>

------------------------------------------------------------------------------
(* The end of the loop *)

\* SourcesFromTrace: what the searches of the turn found.
Cited(ss) ==
  UNION {UNION {ss[k][i].out.hits : i \in {j \in DOMAIN ss[k] : ss[k][j].out.kind = "hits"}} : k \in DOMAIN ss}

\* The terminal chunk: citations, or a generic error unless the client left.
Terminal == [kind |-> "done", id |-> <<0, 0>>,
             hits |-> IF failed \/ turn.mode = "rag" THEN {} ELSE Cited(steps),
             err |-> failed /\ ~cancelled]

\* The last chunk is sent and the channel closed; Ask returns to its handler.
Finish ==
  /\ loop = "ending" /\ loop' = "exited"
  /\ IF turn.streamed /\ turn.surface # "repl" THEN Put(Terminal)
     ELSE handler' = "closing" /\ UNCHANGED <<queue, page>>
  /\ UNCHANGED <<turn, loopVars, cancelled, away>>

------------------------------------------------------------------------------
(* The handler *)
Shown(c) == IF away THEN page ELSE Show(c)

\* writeChatStreamChunk; streamChatChunks of the web chat knows no error.
Written(c) == IF turn.surface = "web" THEN [c EXCEPT !.err = FALSE] ELSE c

Read ==
  /\ handler = "reading" /\ queue # <<>>
  /\ queue' = Tail(queue)
  /\ page' = Shown(Written(Head(queue)))
  /\ handler' = IF Head(queue).kind = "done" THEN "closing" ELSE "reading"
  /\ UNCHANGED <<turn, loop, loopVars, cancelled, away>>

ReadClosed ==
  /\ handler = "reading" /\ queue = <<>> /\ loop = "exited"
  /\ handler' = "closing"
  /\ UNCHANGED <<turn, loop, loopVars, queue, page, cancelled, away>>

\* streamChatChunks of the web chat returns when the context is done; the
\* sources follow all the same.
GiveUp ==
  /\ turn.surface = "web" /\ handler = "reading" /\ cancelled
  /\ handler' = "returned"
  /\ page' = IF away THEN page ELSE [page EXCEPT !.cited = found]
  /\ UNCHANGED <<turn, loop, loopVars, queue, cancelled, away>>

\* An error answer; for the web chat's stream, an error event.
Refuse ==
  /\ handler = "refusing" /\ handler' = "returned" /\ cancelled' = TRUE
  /\ page' = IF away THEN page ELSE [page EXCEPT !.told = TRUE]
  /\ UNCHANGED <<turn, loop, loopVars, queue, away>>

\* The last events, or the whole answer; the context ends with the handler.
Answered ==
  IF away THEN page
  ELSE CASE turn.streamed /\ turn.surface = "admin" -> [page EXCEPT !.done = TRUE]
         [] turn.streamed /\ turn.surface = "web"   -> [page EXCEPT !.done = TRUE, !.cited = found]
         [] turn.streamed /\ turn.surface = "repl"  -> [page EXCEPT !.done = ~failed, !.told = failed]
         [] ~turn.streamed /\ failed  -> [page EXCEPT !.told = TRUE]
         [] ~turn.streamed /\ ~failed -> [page EXCEPT !.text = TRUE, !.done = TRUE,
                                          !.cited = IF turn.mode = "rag" THEN found ELSE Cited(steps)]

Return ==
  /\ handler = "closing" /\ handler' = "returned" /\ cancelled' = TRUE
  /\ page' = Answered
  /\ UNCHANGED <<turn, loop, loopVars, queue, away>>
==============================================================================
