------------------------------ MODULE ChatThreads ------------------------------
(***************************************************************************)
(* Conversations around the turns of AgentTurn: the chat page of the admin *)
(* application (ChatPanel.tsx, ChatPage.tsx), the page of the web chat     *)
(* (chat.html) and the terminal (cmd/chatrag/chat.go): when each asks      *)
(* again, how it saves a turn over the conversation API, and what the      *)
(* terminal remembers of the turns before.                                 *)
(*                                                                         *)
(* A page starts a question only when the previous turn has ended on the   *)
(* server too; the requests that save are answered in any order.           *)
(***************************************************************************)
EXTENDS AgentTurn

CONSTANTS
  Kinds,       \* the turns to consider: surface, mode, scope, policy
  None,        \* no active conversation
  MaxTurns,    \* bound: questions, by surface
  KeepTurns,   \* NewConversation(n), NewHistory(n)
  MaxSwitches, \* bound: conversations opened, left or deleted, by surface
  MaxFailures  \* bound: requests that fail, connections that break

\* The web chat has no tools.
ASSUME KindsAssumption ==
  /\ Kinds \subseteq [surface : Surfaces, mode : {"agent", "rag"}, scope : Projects \cup {All}, policy : Policies]
  /\ \A k \in Kinds : k.surface = "web" => k.mode = "rag"
ASSUME BoundsAssumption ==
  /\ {MaxTurns, MaxSwitches} \subseteq [Surfaces -> Nat]
  /\ {KeepTurns, MaxFailures} \subseteq Nat /\ None \notin Nat

VARIABLES
  client,    \* the surface in front of the user
  phase,     \* of the page: between questions, waiting, asking once more
  active,    \* the conversation the page saves to
  convs,     \* rows of conversations with their messages
  saves,     \* requests that save: a conversation (or None) and messages
  convo,     \* the terminal's memory with tool calls (agent.Conversation)
  history,   \* the terminal's memory in RAG mode (chat.History)
  asked, switches, failures

memory == <<convo, history>>
bounds == <<asked, switches, failures>>
threads == <<client, phase, active, convs, saves, memory>>
vars == <<turnVars, threads, bounds>>

Message == [role : {"user", "assistant"}, n : 1 .. MaxTurns[client]]
Conversations == DOMAIN convs

TypeOK ==
  /\ TurnTypeOK
  /\ client \in Surfaces /\ phase \in {"rest", "asking", "again"}
  /\ active \in Conversations \cup {None}
  /\ \A c \in Conversations : convs[c].gone \in BOOLEAN /\ \A i \in DOMAIN convs[c].msgs : convs[c].msgs[i] \in Message
  /\ \A s \in saves : s.conv \in Conversations \cup {None} /\ s.items # <<>>
  /\ asked \in 0 .. MaxTurns[client] /\ switches \in 0 .. MaxSwitches[client] /\ failures \in 0 .. MaxFailures

Init ==
  /\ TurnInit
  /\ client \in {k.surface : k \in Kinds} /\ phase = "rest" /\ active = None
  /\ convs = <<>> /\ saves = {} /\ convo = <<>> /\ history = <<>>
  /\ asked = 0 /\ switches = 0 /\ failures = 0

------------------------------------------------------------------------------
(* The terminal's memory *)
\* One assistant message for a step, and a tool message for each of its calls.
MessagesOf(n, ss) ==
  FlattenSeq([k \in DOMAIN ss |->
    <<[role |-> "assistant", calls |-> {<<n, k, i>> : i \in DOMAIN ss[k]}]>> \o
    [i \in DOMAIN ss[k] |-> [role |-> "tool", calls |-> {<<n, k, i>>}]]])

UserMessage == [role |-> "user", calls |-> {}]

Users(h) == {i \in DOMAIN h : h[i].role = "user"}

\* Mutant of Trim: as many messages as questions and answers make.
TrimByMessage(h) == IF Cardinality(Users(h)) <= KeepTurns THEN h ELSE SubSeq(h, Len(h) - 2 * KeepTurns + 1, Len(h))

\* trim of agent.Conversation: from the user message that opens the KeepTurns
\* last turns.
Trim(h) ==
  LET first == CHOOSE i \in Users(h) : Cardinality({j \in Users(h) : j >= i}) = KeepTurns
  IN IF KeepTurns = 0 \/ Cardinality(Users(h)) <= KeepTurns THEN h ELSE SubSeq(h, first, Len(h))

\* AddUser, then AddTurnMessages
Remembered(h, n, ss) == Trim(Trim(Append(h, UserMessage)) \o MessagesOf(n, ss))

Item(role) == [role |-> role, n |-> asked]

\* trim of chat.History: a question and its answer at a time, from the front,
\* up to the last question that is too many.
TrimHistory(h) ==
  LET excess == Cardinality(Users(h)) - KeepTurns
      last == CHOOSE i \in Users(h) : Cardinality({j \in Users(h) : j <= i}) = excess
      answered == last < Len(h) /\ h[last + 1].role = "assistant"
  IN IF KeepTurns = 0 \/ excess <= 0 THEN h
     ELSE SubSeq(h, IF answered THEN last + 2 ELSE last + 1, Len(h))

------------------------------------------------------------------------------

\* persist of ChatPage, persistTurn of chat.html: the active conversation as it
\* is now, or one still to be created; a list of messages, sent one by one.
SaveTo(lists) == saves' = saves \cup {[conv |-> active, items |-> l] : l \in lists}

\* The store's statements
CreateConversation == convs' = Append(convs, [gone |-> FALSE, msgs |-> <<>>])
AddMessage(c, msg) == convs' = [convs EXCEPT ![c].msgs = Append(@, msg)]
DeleteConversation(c) == convs' = [convs EXCEPT ![c].gone = TRUE]

\* POST /conversations has been answered: the page makes it the active one.
Created(s) ==
  /\ s \in saves /\ s.conv = None
  /\ CreateConversation
  /\ active' = Len(convs')
  /\ saves' = (saves \ {s}) \cup {[s EXCEPT !.conv = Len(convs')]}
  /\ UNCHANGED <<turnVars, client, phase, memory, bounds>>

Rest(s) == IF Len(s.items) = 1 THEN {} ELSE {[s EXCEPT !.items = Tail(@)]}

\* POST /conversations/{id}/messages: one statement, if the row is still there.
Added(s) ==
  /\ s \in saves /\ s.conv # None
  /\ IF convs[s.conv].gone
     THEN saves' = saves \ {s} /\ UNCHANGED convs
     ELSE /\ AddMessage(s.conv, Head(s.items))
          /\ saves' = (saves \ {s}) \cup Rest(s)
  /\ UNCHANGED <<turnVars, client, phase, active, memory, bounds>>

\* A failed save breaks nothing, and is not tried again.
SaveFails(s) ==
  /\ s \in saves /\ failures < MaxFailures /\ failures' = failures + 1
  /\ saves' = saves \ {s}
  /\ UNCHANGED <<turnVars, client, phase, active, memory, convs, asked, switches>>

------------------------------------------------------------------------------
(* Moving between conversations, also while an answer is on its way *)
Switch ==
  /\ client # "repl" /\ switches < MaxSwitches[client] /\ switches' = switches + 1
  /\ UNCHANGED <<turnVars, client, phase, saves, memory, asked, failures>>

NewChat == Switch /\ active' = None /\ UNCHANGED convs

Open(c) == Switch /\ ~convs[c].gone /\ active' = c /\ UNCHANGED convs

Delete(c) ==
  /\ Switch /\ ~convs[c].gone
  /\ DeleteConversation(c)
  /\ active' = IF active = c THEN None ELSE active

\* /clear
Clear ==
  /\ client = "repl" /\ phase = "rest" /\ switches < MaxSwitches[client] /\ switches' = switches + 1
  /\ convo' = <<>> /\ history' = <<>>
  /\ UNCHANGED <<turnVars, client, phase, active, saves, convs, asked, failures>>

------------------------------------------------------------------------------
(* A question *)
Ended == loop \in {"idle", "exited"} /\ handler \in {"idle", "returned"}

\* The terminal streams in agent mode only; a page asks for a stream first.
Request(k) ==
  [surface |-> k.surface, mode |-> k.mode, scope |-> k.scope, policy |-> k.policy,
   streamed |-> k.surface # "repl" \/ k.mode = "agent"]

Ask ==
  /\ phase = "rest" /\ asked < MaxTurns[client] /\ Ended
  /\ asked' = asked + 1 /\ phase' = "asking"
  /\ \E k \in {j \in Kinds : j.surface = client} : Begin(Request(k))
  /\ IF client = "admin" THEN SaveTo({<<Item("user")'>>}) ELSE UNCHANGED saves
  /\ UNCHANGED <<client, active, memory, convs, switches, failures>>

\* An answer, whole or cut short, is saved or remembered.
Keep ==
  CASE client = "admin" -> SaveTo({<<Item("assistant")>>}) /\ UNCHANGED memory
    [] client = "web"   -> SaveTo({<<Item("user"), Item("assistant")>>}) /\ UNCHANGED memory
    [] turn.surface = "repl" /\ turn.mode = "agent" ->
         convo' = Remembered(convo, asked, steps) /\ UNCHANGED <<history, saves>>
    [] turn.surface = "repl" /\ turn.mode = "rag" ->
         history' = TrimHistory(TrimHistory(Append(history, Item("user"))) \o <<Item("assistant")>>)
         /\ UNCHANGED <<convo, saves>>

\* The terminal keeps a turn that ended well, a page whatever text came.
Kept == IF client = "repl" THEN ~page.told ELSE page.text

\* An answer that is not a stream: the page of the admin tries the other way.
Unopened == page.told /\ ~page.opened /\ client = "admin"

EndTurn(broken) ==
  /\ phase \in {"asking", "again"}
  /\ IF phase = "asking" /\ (broken \/ Unopened)
     THEN phase' = "again" /\ UNCHANGED <<saves, memory>>
     ELSE /\ phase' = "rest"
          /\ IF Kept /\ ~broken THEN Keep ELSE UNCHANGED <<saves, memory>>
  /\ UNCHANGED <<client, active, convs>>

Complete ==
  /\ handler = "returned" /\ ~away
  /\ EndTurn(FALSE)
  /\ UNCHANGED <<turnVars, bounds>>

Leaves == away' = TRUE /\ cancelled' = TRUE /\ UNCHANGED <<turn, loop, loopVars, streamVars>>

\* The request is aborted; the admin's page keeps the partial answer.
Stop ==
  /\ phase = "asking" /\ client = "admin" /\ ~away /\ handler # "returned" /\ page.opened
  /\ Leaves
  /\ EndTurn(FALSE)
  /\ UNCHANGED bounds

Break ==
  /\ phase # "rest" /\ client # "repl" /\ ~away /\ handler # "returned"
  /\ failures < MaxFailures /\ failures' = failures + 1
  /\ Leaves
  /\ EndTurn(TRUE)
  /\ UNCHANGED <<asked, switches>>

\* sendNonStream, nonStreamingChat: once more, without a stream.
AskAgain ==
  /\ phase = "again" /\ Ended /\ turn.streamed
  /\ Begin([turn EXCEPT !.streamed = FALSE])
  /\ UNCHANGED <<threads, bounds>>

\* The web chat's own limit of two minutes
Expire ==
  /\ client = "web" /\ ~Ended /\ ~cancelled /\ failures < MaxFailures
  /\ failures' = failures + 1 /\ cancelled' = TRUE
  /\ UNCHANGED <<turn, loop, loopVars, streamVars, away, threads, asked, switches>>

------------------------------------------------------------------------------
Outside == UNCHANGED <<threads, bounds>>

LoopStep ==
  \/ Retrieve \/ Speak \/ Answer \/ ProviderFails \/ EndStep \/ Finish
  \/ \E plan \in Plans : Commit(plan)
  \/ \E i \in DOMAIN calls : Announce(i) \/ RunTool(i) \/ Report(i)

HandlerStep == Read \/ ReadClosed \/ GiveUp \/ Refuse \/ Return

Saving == \E s \in saves : Created(s) \/ Added(s) \/ SaveFails(s)

Moving == NewChat \/ Clear \/ \E c \in Conversations : Open(c) \/ Delete(c)

Next ==
  \/ LoopStep /\ Outside
  \/ HandlerStep /\ Outside
  \/ Saving \/ Moving
  \/ Ask \/ Complete \/ Stop \/ Break \/ AskAgain \/ Expire

\* The provider answers or fails, tools return, the process is not starved.
Fairness ==
  /\ WF_vars(LoopStep /\ Outside) /\ WF_vars(HandlerStep /\ Outside)
  /\ WF_vars(Complete) /\ WF_vars(AskAgain)

Spec == Init /\ [][Next]_vars /\ Fairness
------------------------------------------------------------------------------
(* What a user may rely on *)

\* Tools run and report concurrently, and their events pass a channel that may
\* be full: still a client that stays sees every result after its call, sees no
\* call without its result when the stream ends, and is shown exactly what the
\* searches of the whole turn found.
EventsMatch ==
  /\ page.orphans = 0
  /\ handler = "returned" /\ ~away /\ page.done /\ turn.surface # "web" =>
       /\ page.results = page.chips
       /\ ~failed /\ turn.surface = "admin" => page.cited = IF turn.mode = "rag" THEN found ELSE Cited(steps)

\* Once a stream is open it can no longer be refused: a turn that fails late is
\* still told to the client of the admin application or of the terminal, and
\* only such a turn is.
FailureTold ==
  handler = "returned" /\ ~away /\ turn.surface # "web" => page.told = failed

\* Whatever the client does (it stops, its connection breaks, its two minutes
\* run out while the channel is full), loop and handler come to an end, and so
\* does the page's waiting.
TurnsEnd == (phase # "rest" \/ ~Ended) ~> (phase = "rest" /\ Ended)

\* Long talks are cut at the front, and only between turns: what the model is
\* given begins with a question, and each tool result follows the call it
\* answers within the same turn.
MemoryWhole ==
  /\ \A h \in {convo, history} : h # <<>> => Head(h).role = "user"
  /\ KeepTurns > 0 => \A h \in {convo, history} : Cardinality(Users(h)) <= KeepTurns
  /\ \A i \in DOMAIN convo : convo[i].role = "tool" =>
       \E j \in 1 .. i - 1 : /\ convo[j].role = "assistant" /\ convo[i].calls \subseteq convo[j].calls
                            /\ Users(convo) \cap j .. i = {}
  /\ \A i \in DOMAIN history : history[i].role = "assistant" =>
       i > 1 /\ history[i - 1] = [role |-> "user", n |-> history[i].n]

\* No message is saved twice, although a question may be asked twice; and the
\* web chat saves an answer after its question and in the same conversation,
\* also when the user has moved to another one in between.
TurnTogether ==
  LET Places == {x \in Conversations \X (1 .. 2 * MaxTurns[client]) : x[2] \in DOMAIN convs[x[1]].msgs}
      At(x) == convs[x[1]].msgs[x[2]]
  IN /\ \A x, y \in Places : At(x) = At(y) => x = y
     /\ client = "web" => \A x \in Places : At(x).role = "assistant" =>
          \E y \in Places : y[1] = x[1] /\ y[2] < x[2] /\ At(y) = [At(x) EXCEPT !.role = "user"]
==============================================================================
