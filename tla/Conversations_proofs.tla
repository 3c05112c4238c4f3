-------------------------- MODULE Conversations_proofs --------------------------
(***************************************************************************)
(* Proofs about ChatThreads for any projects, plans of the model, policies *)
(* and limits, any capacity of the channel, and however often a client     *)
(* leaves, stops, moves or fails: what it is shown of a turn is so, and    *)
(* what the terminal hands on of the turns before is whole.                *)
(*                                                                         *)
(* A client that stays gets every chunk.  What was said of a call is on    *)
(* the page or in the channel, the call before its result, and only a call *)
(* that has not reported is without one; when the handler ends, the loop   *)
(* has ended and the channel is empty.                                     *)
(***************************************************************************)
EXTENDS ChatThreads, FiniteSetTheorems, WellFoundedInduction, TLAPS

Ids == Nat \X Nat
Outcomes == [kind : {"none", "refused", "hits", "failed", "proposed", "ran", "denied"}, hits : Hits]
Running == [call : Call, st : {"new", "called", "reporting", "reported"}, out : Outcomes]
Finished == [call : Call, out : Outcomes]
Chunks == [kind : {"text", "call", "result", "done"}, id : Ids, hits : Hits, err : BOOLEAN]
Pages == [chips : SUBSET Ids, results : SUBSET Ids, orphans : Nat, text : BOOLEAN, cited : Hits,
          opened : BOOLEAN, told : BOOLEAN, done : BOOLEAN]
Turns == [surface : Surfaces \cup {"none"}, mode : {"agent", "rag"}, scope : Projects \cup {All}, policy : Policies,
          streamed : BOOLEAN]

TurnTypes ==
  /\ turn \in Turns
  /\ loop \in {"idle", "retrieve", "provider", "tools", "ending", "exited"}
  /\ handler \in {"idle", "waiting", "reading", "refusing", "closing", "returned"}
  /\ steps \in Seq(Seq(Finished)) /\ calls \in Seq(Running)
  /\ queue \in Seq(Chunks) /\ page \in Pages /\ found \in Hits
  /\ failed \in BOOLEAN /\ cancelled \in BOOLEAN /\ away \in BOOLEAN
  /\ client \in Surfaces

(* How far the loop and the handler may be apart. *)
Stages ==
  /\ turn.surface = "web" => turn.mode = "rag"
  /\ turn.streamed /\ turn.surface = "repl" => turn.mode = "agent"
  /\ (turn = Idle /\ loop = "idle" /\ handler = "idle") \/ turn.surface = client
  /\ away => client # "repl"
  /\ loop # "tools" => calls = <<>>
  /\ loop = "tools" => turn.mode = "agent"
  /\ loop = "retrieve" => turn.mode = "rag" /\ handler = "waiting" /\ queue = <<>> /\ found = {}
  /\ handler = "reading" => turn.streamed /\ turn.surface # "repl"
  /\ turn.surface # "web" /\ handler \in {"refusing", "closing", "returned"} => loop = "exited" /\ queue = <<>>
  /\ turn.surface # "web" /\ cancelled /\ ~away => handler = "returned"
  /\ ~turn.streamed \/ turn.surface = "repl" => queue = <<>>
  /\ \A i \in 1 .. Len(queue) : queue[i].kind = "done" => i = Len(queue) /\ loop = "exited"

IdsIn(r, kind) == {r[i].id : i \in {k \in 1 .. Len(r) : r[k].kind = kind}}
Chips(pg, r) == pg.chips \cup IdsIn(r, "call")
Results(pg, r) == pg.results \cup IdsIn(r, "result")
Unreported == {Id(i) : i \in {k \in DOMAIN calls : calls[k].st \in {"called", "reporting"}}}
Shows == turn.surface = "repl" \/ (turn.surface = "admin" /\ turn.streamed)

(* Each result comes after its call. *)
InOrder(pg, r) ==
  \A i \in 1 .. Len(r) : r[i].kind = "result" =>
    r[i].id \in pg.chips \/ \E j \in 1 .. i - 1 : r[j].kind = "call" /\ r[j].id = r[i].id

EventsInv ==
  /\ page.orphans = 0
  /\ ~away =>
       /\ InOrder(page, queue)
       /\ Results(page, queue) \subseteq Chips(page, queue)
       /\ Chips(page, queue) \subseteq Results(page, queue) \cup Unreported
       /\ IF Shows THEN Unreported \subseteq Chips(page, queue) ELSE Chips(page, queue) = {}

Sources == IF turn.mode = "rag" THEN found ELSE Cited(steps)

SourcesInv == ~away =>
  /\ turn.surface = "admin" /\ page.done => handler = "returned"
  /\ turn.surface = "admin" /\ turn.streamed /\ turn.mode = "rag" =>
       page.cited = found /\ \A i \in 1 .. Len(queue) : queue[i].hits = {}
  /\ turn.surface = "admin" /\ turn.streamed /\ turn.mode = "agent" /\ ~failed =>
       /\ page.cited \in {{}, Cited(steps)} /\ (page.cited # {} => loop = "exited")
       /\ \A i \in 1 .. Len(queue) : queue[i].kind = "done" => queue[i].hits = Cited(steps)
       /\ loop = "exited" => page.cited = Cited(steps) \/ \E i \in 1 .. Len(queue) : queue[i].kind = "done"
  /\ handler = "returned" /\ page.done /\ turn.surface = "admin" /\ ~failed => page.cited = Sources

ThreadsInv == TurnTypes /\ Stages /\ EventsInv /\ SourcesInv

(***************************************************************************)
(* The channel: what a chunk at its end or at its head means.              *)
(***************************************************************************)

\* A chunk that is appended adds its identity to those of its kind.
LEMMA IdsAppended ==
  ASSUME NEW r \in Seq(Chunks), NEW c \in Chunks, NEW kind
  PROVE  IdsIn(Append(r, c), kind) = IdsIn(r, kind) \cup (IF c.kind = kind THEN {c.id} ELSE {})
<1> DEFINE s == Append(r, c)
<1>1. /\ Len(s) = Len(r) + 1 /\ Len(r) \in Nat
      /\ \A i \in 1 .. Len(r) : s[i] = r[i]
      /\ s[Len(r) + 1] = c
  OBVIOUS
<1> HIDE DEF s
<1>2. 1 .. Len(s) = 1 .. Len(r) \cup {Len(r) + 1}
  BY <1>1
<1>3. ASSUME NEW x \in IdsIn(s, kind)
      PROVE  x \in IdsIn(r, kind) \cup (IF c.kind = kind THEN {c.id} ELSE {})
  BY <1>1, <1>2, <1>3 DEF IdsIn
<1>4. ASSUME NEW x \in IdsIn(r, kind) \cup (IF c.kind = kind THEN {c.id} ELSE {})
      PROVE  x \in IdsIn(s, kind)
  BY <1>1, <1>2, <1>4 DEF IdsIn
<1>5. QED
  BY <1>3, <1>4 DEF s

\* A chunk that is read takes its identity with it.
LEMMA IdsRead ==
  ASSUME NEW r \in Seq(Chunks), r # <<>>, NEW kind
  PROVE  IdsIn(r, kind) = IdsIn(Tail(r), kind) \cup (IF Head(r).kind = kind THEN {Head(r).id} ELSE {})
<1> DEFINE s == Tail(r)
<1>1. /\ Len(s) = Len(r) - 1 /\ Len(r) \in Nat \ {0}
      /\ \A i \in 1 .. Len(s) : s[i] = r[i + 1]
      /\ Head(r) = r[1]
  OBVIOUS
<1> HIDE DEF s
<1>2. ASSUME NEW x \in IdsIn(r, kind)
      PROVE  x \in IdsIn(s, kind) \cup (IF Head(r).kind = kind THEN {Head(r).id} ELSE {})
  <2>1. PICK i \in 1 .. Len(r) : r[i].kind = kind /\ x = r[i].id
    BY <1>2 DEF IdsIn
  <2>2. CASE i = 1
    BY <1>1, <2>1, <2>2
  <2>3. CASE i # 1
    <3>1. i - 1 \in 1 .. Len(s) /\ s[i - 1] = r[i]
      BY <1>1, <2>3
    <3>2. QED
      BY <2>1, <3>1 DEF IdsIn
  <2>4. QED
    BY <2>2, <2>3
<1>3. ASSUME NEW x \in IdsIn(s, kind)
      PROVE  x \in IdsIn(r, kind)
  <2>1. PICK i \in 1 .. Len(s) : s[i].kind = kind /\ x = s[i].id
    BY <1>3 DEF IdsIn
  <2>2. i + 1 \in 1 .. Len(r) /\ r[i + 1] = s[i]
    BY <1>1
  <2>3. QED
    BY <2>1, <2>2 DEF IdsIn
<1>4. Head(r).kind = kind => Head(r).id \in IdsIn(r, kind)
  BY <1>1 DEF IdsIn
<1>5. QED
  BY <1>2, <1>3, <1>4 DEF s

\* A result may follow once its call is on the page or in the channel.
LEMMA OrderSent ==
  ASSUME NEW r \in Seq(Chunks), NEW c \in Chunks, NEW pg, InOrder(pg, r),
         c.kind = "result" => c.id \in Chips(pg, r)
  PROVE  InOrder(pg, Append(r, c))
<1> DEFINE s == Append(r, c)
<1>1. /\ Len(s) = Len(r) + 1 /\ Len(r) \in Nat
      /\ \A i \in 1 .. Len(r) : s[i] = r[i]
      /\ s[Len(r) + 1] = c
  OBVIOUS
<1> HIDE DEF s
<1>2. ASSUME NEW i \in 1 .. Len(s), s[i].kind = "result"
      PROVE  s[i].id \in pg.chips \/ \E j \in 1 .. i - 1 : s[j].kind = "call" /\ s[j].id = s[i].id
  <2>1. CASE i = Len(r) + 1
    <3>1. c.id \in pg.chips \/ \E j \in 1 .. Len(r) : r[j].kind = "call" /\ r[j].id = c.id
      BY <1>1, <1>2, <2>1 DEF Chips, IdsIn
    <3>2. QED
      BY <1>1, <2>1, <3>1
  <2>2. CASE i # Len(r) + 1
    <3>1. i \in 1 .. Len(r) /\ s[i] = r[i]
      BY <1>1, <2>2
    <3>2. r[i].id \in pg.chips \/ \E j \in 1 .. i - 1 : r[j].kind = "call" /\ r[j].id = r[i].id
      BY <1>2, <3>1 DEF InOrder
    <3>3. QED
      BY <1>1, <3>1, <3>2
  <2>3. QED
    BY <2>1, <2>2
<1>3. QED
  BY <1>2 DEF InOrder, s

\* The order holds of what is left when the head has been shown.
LEMMA OrderRead ==
  ASSUME NEW r \in Seq(Chunks), r # <<>>, NEW pg, NEW pg2, InOrder(pg, r),
         pg2.chips = pg.chips \cup (IF Head(r).kind = "call" THEN {Head(r).id} ELSE {})
  PROVE  /\ InOrder(pg2, Tail(r))
         /\ Head(r).kind = "result" => Head(r).id \in pg.chips
<1> DEFINE s == Tail(r)
<1>1. /\ Len(s) = Len(r) - 1 /\ Len(r) \in Nat \ {0}
      /\ \A i \in 1 .. Len(s) : s[i] = r[i + 1]
      /\ Head(r) = r[1]
  OBVIOUS
<1> HIDE DEF s
<1>2. ASSUME NEW i \in 1 .. Len(s), s[i].kind = "result"
      PROVE  s[i].id \in pg2.chips \/ \E j \in 1 .. i - 1 : s[j].kind = "call" /\ s[j].id = s[i].id
  <2>1. i + 1 \in 1 .. Len(r) /\ r[i + 1] = s[i]
    BY <1>1
  <2>2. CASE r[i + 1].id \in pg.chips
    BY <2>1, <2>2
  <2>3. CASE \E j \in 1 .. i : r[j].kind = "call" /\ r[j].id = r[i + 1].id
    <3>1. PICK j \in 1 .. i : r[j].kind = "call" /\ r[j].id = r[i + 1].id
      BY <2>3
    <3>2. CASE j = 1
      BY <1>1, <2>1, <3>1, <3>2
    <3>3. CASE j # 1
      <4>1. j - 1 \in 1 .. i - 1 /\ j - 1 \in 1 .. Len(s)
        BY <1>1, <3>3
      <4>2. s[j - 1] = r[j]
        BY <1>1, <4>1
      <4>3. QED
        BY <2>1, <3>1, <4>1, <4>2
    <3>4. QED
      BY <3>2, <3>3
  <2>4. QED
    <3>1. (i + 1) - 1 = i
      OBVIOUS
    <3>2. r[i + 1].id \in pg.chips \/ \E j \in 1 .. (i + 1) - 1 : r[j].kind = "call" /\ r[j].id = r[i + 1].id
      BY <1>2, <2>1 DEF InOrder
    <3>3. QED
      BY <2>2, <2>3, <3>1, <3>2
<1>3. Head(r).kind = "result" => Head(r).id \in pg.chips
  <2>1. 1 \in 1 .. Len(r)
    BY <1>1
  <2>2. 1 .. 1 - 1 = {}
    OBVIOUS
  <2>3. QED
    BY <1>1, <2>1, <2>2 DEF InOrder
<1>4. QED
  BY <1>2, <1>3 DEF InOrder, s

\* What the client makes of a chunk.
LEMMA ShowDoes ==
  ASSUME page \in Pages, NEW c \in Chunks, c.kind = "result" => c.id \in page.chips
  PROVE  /\ Show(c) \in Pages
         /\ Show(c).chips = page.chips \cup (IF c.kind = "call" THEN {c.id} ELSE {})
         /\ Show(c).results = page.results \cup (IF c.kind = "result" THEN {c.id} ELSE {})
         /\ Show(c).cited = page.cited \cup (IF c.kind = "done" THEN c.hits ELSE {})
         /\ Show(c).orphans = page.orphans /\ Show(c).done = page.done
<1>1. c.kind \in {"text", "call", "result", "done"} /\ c.id \in Ids /\ c.hits \in Hits /\ c.err \in BOOLEAN
  BY DEF Chunks
<1>2. CASE c.kind = "text"
  <2>1. Show(c) = [page EXCEPT !.text = TRUE]
    BY <1>2 DEF Show
  <2>2. QED
    BY <1>2, <2>1 DEF Pages
<1>3. CASE c.kind = "call"
  <2>1. Show(c) = [page EXCEPT !.chips = @ \cup {c.id}]
    BY <1>3 DEF Show
  <2>2. QED
    BY <1>1, <1>3, <2>1 DEF Pages
<1>4. CASE c.kind = "result"
  <2>1. Show(c) = [page EXCEPT !.results = @ \cup {c.id}]
    BY <1>4 DEF Show
  <2>2. QED
    BY <1>1, <1>4, <2>1 DEF Pages
<1>5. CASE c.kind = "done"
  <2>1. Show(c) = [page EXCEPT !.cited = @ \cup c.hits, !.told = @ \/ c.err]
    BY <1>5 DEF Show
  <2>2. (page.told \/ c.err) \in BOOLEAN /\ page.cited \cup c.hits \in Hits
    BY <1>1 DEF Pages, Hits
  <2>3. Show(c) \in Pages
    BY <2>1, <2>2, Zenon DEF Pages
  <2>4. /\ Show(c).chips = page.chips /\ Show(c).results = page.results /\ Show(c).cited = page.cited \cup c.hits
        /\ Show(c).orphans = page.orphans /\ Show(c).done = page.done
    BY <2>1 DEF Pages
  <2>5. QED
    BY <1>5, <2>3, <2>4
<1>6. c.kind = "text" \/ c.kind = "call" \/ c.kind = "result" \/ c.kind = "done"
  BY <1>1
<1>7. QED
  BY <1>2, <1>3, <1>4, <1>5, <1>6, Zenon

(***************************************************************************)
(* Sending: a chunk of the loop reaches a client that stays.               *)
(***************************************************************************)
Sender == loop \in {"provider", "tools", "ending"}

\* The four ways a chunk may go.
LEMMA PutDoes ==
  ASSUME NEW c, Put(c)
  PROVE  \/ turn.surface = "repl" /\ page' = Show(c) /\ queue' = queue /\ handler' = handler
         \/ turn.surface # "repl" /\ ~turn.streamed /\ UNCHANGED streamVars
         \/ turn.surface # "repl" /\ turn.streamed /\ queue' = Append(queue, c) /\ handler' = handler /\ page' = page
         \/ turn.surface # "repl" /\ turn.streamed /\ cancelled /\ UNCHANGED streamVars
<1>1. CASE turn.surface = "repl"
  BY <1>1 DEF Put
<1>2. CASE turn.surface # "repl" /\ ~turn.streamed
  BY <1>2 DEF Put
<1>3. CASE turn.surface # "repl" /\ turn.streamed
  BY <1>3 DEF Put, streamVars
<1>4. QED
  BY <1>1, <1>2, <1>3

\* While the loop runs it works on a turn of this client, and only the web chat
\* may have been cancelled behind the back of a client that stays.
LEMMA LoopRuns ==
  ASSUME ThreadsInv, Sender
  PROVE  /\ turn.surface = client /\ turn.surface \in Surfaces
         /\ turn.surface = "repl" => ~away /\ queue = <<>>
         /\ cancelled /\ ~away => turn.surface = "web"
         /\ turn.surface # "web" => handler \notin {"refusing", "closing", "returned"}
         /\ \A i \in 1 .. Len(queue) : queue[i].kind # "done"
BY DEF ThreadsInv, TurnTypes, Stages, Sender

\* What was said is on the page or in the channel, and stays in order.
LEMMA PutKeeps ==
  ASSUME ThreadsInv, Sender, NEW c \in Chunks, Put(c),
         c.kind \in {"call", "result"} => turn.surface # "web",
         c.kind = "result" /\ ~away /\ Shows => c.id \in Chips(page, queue)
  PROVE  /\ page' \in Pages /\ queue' \in Seq(Chunks) /\ handler' = handler
         /\ queue' = queue \/ (turn.streamed /\ turn.surface # "repl" /\ queue' = Append(queue, c))
         /\ page'.done = page.done
         /\ turn.surface # "repl" => page' = page
         /\ ~away /\ turn.surface = "admin" /\ turn.streamed => queue' = Append(queue, c)
         /\ page'.orphans = page.orphans
         /\ ~away =>
              /\ InOrder(page', queue')
              /\ Chips(page', queue') = Chips(page, queue) \cup (IF c.kind = "call" /\ Shows THEN {c.id} ELSE {})
              /\ Results(page', queue') = Results(page, queue) \cup (IF c.kind = "result" /\ Shows THEN {c.id} ELSE {})
<1>1. /\ turn.surface \in Surfaces /\ page \in Pages /\ queue \in Seq(Chunks)
      /\ turn.surface = "repl" => ~away /\ queue = <<>>
      /\ cancelled /\ ~away => turn.surface = "web"
      /\ ~away => InOrder(page, queue)
  BY LoopRuns DEF ThreadsInv, TurnTypes, EventsInv
<1>2. CASE turn.surface = "repl" /\ page' = Show(c) /\ queue' = queue /\ handler' = handler
  <2>1. queue = <<>> /\ \A kind : IdsIn(queue, kind) = {}
    BY <1>1, <1>2 DEF IdsIn
  <2>2. Chips(page, queue) = page.chips /\ Results(page, queue) = page.results
    BY <2>1 DEF Chips, Results
  <2>3. c.kind = "result" => c.id \in page.chips
    BY <1>1, <1>2, <2>2 DEF Shows
  <2>4. /\ page' \in Pages
        /\ page'.chips = page.chips \cup (IF c.kind = "call" THEN {c.id} ELSE {})
        /\ page'.results = page.results \cup (IF c.kind = "result" THEN {c.id} ELSE {})
        /\ page'.orphans = page.orphans /\ page'.done = page.done
    BY <1>1, <1>2, <2>3, ShowDoes
  <2>5. Chips(page', queue') = page'.chips /\ Results(page', queue') = page'.results
    BY <1>2, <2>1 DEF Chips, Results
  <2>6. InOrder(page', queue')
    BY <1>2, <2>1 DEF InOrder
  <2>7. QED
    BY <1>1, <1>2, <2>2, <2>4, <2>5, <2>6 DEF Shows
<1>3. CASE turn.surface # "repl" /\ turn.streamed /\ queue' = Append(queue, c) /\ handler' = handler /\ page' = page
  <2>1. queue' \in Seq(Chunks)
    BY <1>1, <1>3
  <2>2. \A kind : IdsIn(queue', kind) = IdsIn(queue, kind) \cup (IF c.kind = kind THEN {c.id} ELSE {})
    BY <1>1, <1>3, IdsAppended
  <2>3. c.kind \in {"call", "result"} => Shows
    BY <1>1, <1>3 DEF Shows, Surfaces
  <2>4. ~away => InOrder(page', queue')
    BY <1>1, <1>3, <2>3, OrderSent
  <2>5. /\ Chips(page', queue') = Chips(page, queue) \cup (IF c.kind = "call" /\ Shows THEN {c.id} ELSE {})
        /\ Results(page', queue') = Results(page, queue) \cup (IF c.kind = "result" /\ Shows THEN {c.id} ELSE {})
    BY <1>3, <2>2, <2>3 DEF Chips, Results
  <2>6. QED
    BY <1>1, <1>3, <2>1, <2>4, <2>5
<1>4. CASE turn.surface # "repl" /\ UNCHANGED streamVars /\ (~turn.streamed \/ cancelled)
  <2>1. page' = page /\ queue' = queue /\ handler' = handler
    BY <1>4 DEF streamVars
  <2>2. ~away /\ c.kind \in {"call", "result"} => ~Shows
    BY <1>1, <1>4 DEF Shows
  <2>3. ~away /\ turn.surface = "admin" => ~turn.streamed
    BY <1>1, <1>4
  <2>4. QED
    BY <1>1, <1>4, <2>1, <2>2, <2>3
<1>5. QED
  BY <1>2, <1>3, <1>4, PutDoes

(***************************************************************************)
(* The loop: what its steps have in common.                                *)
(***************************************************************************)
LoopMoves ==
  /\ Sender /\ Sender' /\ UNCHANGED <<turn, cancelled, away, client, found, handler>>
  /\ loop' = "tools" => turn.mode = "agent"
  /\ loop' # "tools" => calls' = <<>>
  /\ failed => failed'
  /\ page'.done = page.done /\ (turn.surface # "repl" => page' = page)
  /\ queue' \in Seq(Chunks)
  /\ \/ queue' = queue
     \/ /\ turn.streamed /\ turn.surface # "repl"
        /\ \E c \in Chunks : queue' = Append(queue, c) /\ c.kind # "done" /\ c.hits = {}

\* The stages stay in step, whatever is sent that is not the last chunk.
LEMMA LoopStages ==
  ASSUME ThreadsInv, LoopMoves
  PROVE  Stages' /\ \A i \in 1 .. Len(queue') : queue'[i].kind # "done"
<1>1. \A i \in 1 .. Len(queue) : queue[i].kind # "done"
  BY LoopRuns DEF LoopMoves
<1>2. \A i \in 1 .. Len(queue') : queue'[i].kind # "done"
  <2>1. CASE queue' = queue
    BY <1>1, <2>1
  <2>2. CASE \E c \in Chunks : queue' = Append(queue, c) /\ c.kind # "done"
    <3>1. queue \in Seq(Chunks)
      BY DEF ThreadsInv, TurnTypes
    <3>2. QED
      BY <1>1, <2>2, <3>1
  <2>3. QED
    BY <2>1, <2>2 DEF LoopMoves
<1>3. Stages'
  <2>1. turn.surface = client /\ (turn.surface # "web" => handler \notin {"refusing", "closing", "returned"})
    BY LoopRuns DEF LoopMoves
  <2>2. loop' # "retrieve" /\ loop' # "exited" /\ loop # "exited"
    BY DEF LoopMoves, Sender
  <2>3. ~turn.streamed \/ turn.surface = "repl" => queue' = queue
    BY DEF LoopMoves
  <2>4. QED
    BY <1>2, <2>1, <2>2, <2>3 DEF LoopMoves, Stages, ThreadsInv
<1>4. QED
  BY <1>2, <1>3

\* Before the loop ends, nothing of the agent's sources has been shown.
LEMMA LoopSources ==
  ASSUME ThreadsInv, LoopMoves
  PROVE  SourcesInv'
<1>1. /\ \A i \in 1 .. Len(queue') : queue'[i].kind # "done"
      /\ turn.surface # "web" => handler \notin {"refusing", "closing", "returned"}
      /\ loop # "exited" /\ loop' # "exited"
  BY LoopRuns, LoopStages DEF LoopMoves, Sender
<1>2. (\A i \in 1 .. Len(queue) : queue[i].hits = {}) => \A i \in 1 .. Len(queue') : queue'[i].hits = {}
  <2>1. CASE queue' = queue
    BY <2>1
  <2>2. CASE \E c \in Chunks : queue' = Append(queue, c) /\ c.hits = {}
    <3>1. queue \in Seq(Chunks)
      BY DEF ThreadsInv, TurnTypes
    <3>2. QED
      BY <2>2, <3>1
  <2>3. QED
    BY <2>1, <2>2 DEF LoopMoves
<1>3. /\ turn' = turn /\ away' = away /\ found' = found /\ handler' = handler
      /\ page'.done = page.done /\ (turn.surface = "admin" => page' = page)
      /\ ~failed' => ~failed
  BY DEF LoopMoves
<1>4. ASSUME ~away PROVE SourcesInv'
  <2>1. SourcesInv!2
    BY <1>4 DEF ThreadsInv, SourcesInv
  <2>2. turn.surface = "admin" /\ turn.streamed /\ turn.mode = "agent" /\ ~failed => page.cited = {}
    BY <1>1, <2>1
  <2>3. QED
    BY <1>1, <1>2, <1>3, <2>1, <2>2 DEF SourcesInv
<1>5. QED
  BY <1>3, <1>4 DEF SourcesInv

\* A step that sends nothing and leaves no call open or closed.
LEMMA EventsQuiet ==
  ASSUME EventsInv, UNCHANGED <<page, queue, turn, away>>, Unreported' = Unreported
  PROVE  EventsInv'
<1>1. page' = page /\ queue' = queue /\ turn' = turn /\ away' = away
  OBVIOUS
<1>2. (Shows <=> Shows') /\ InOrder(page', queue') = InOrder(page, queue)
      /\ Results(page', queue') = Results(page, queue) /\ Chips(page', queue') = Chips(page, queue)
  BY <1>1 DEF Shows
<1>3. QED
  BY <1>1, <1>2 DEF EventsInv

\* What is left to show of a step of the loop: the events it sends, and types.
LEMMA LoopKept ==
  ASSUME ThreadsInv, LoopMoves, EventsInv', page' \in Pages, failed' \in BOOLEAN,
         steps' \in Seq(Seq(Finished)), calls' \in Seq(Running)
  PROVE  ThreadsInv'
<1>1. Stages' /\ SourcesInv'
  BY LoopStages, LoopSources
<1>2. TurnTypes'
  BY DEF ThreadsInv, TurnTypes, LoopMoves, Sender
<1>3. QED
  BY <1>1, <1>2 DEF ThreadsInv

\* No calls: none of them is unreported.
LEMMA NoCalls ==
  ASSUME calls = <<>>
  PROVE  Unreported = {}
BY DEF Unreported

\* The provider sends text.
LEMMA SpeakKeeps ==
  ASSUME ThreadsInv, Speak, client' = client
  PROVE  ThreadsInv'
<1> DEFINE c == Chunk("text", <<0, 0>>)
<1>1. c \in Chunks /\ c.kind = "text" /\ c.hits = {}
  BY DEF Chunk, Chunks, Ids, Hits
<1>2. Put(c) /\ Sender /\ loop' = loop
  BY DEF Speak, Sender
<1> HIDE DEF c
<1>3. /\ page' \in Pages /\ queue' \in Seq(Chunks) /\ handler' = handler
      /\ queue' = queue \/ (turn.streamed /\ turn.surface # "repl" /\ queue' = Append(queue, c))
      /\ page'.done = page.done
      /\ turn.surface # "repl" => page' = page
      /\ page'.orphans = page.orphans
      /\ ~away =>
           /\ InOrder(page', queue')
           /\ Chips(page', queue') = Chips(page, queue)
           /\ Results(page', queue') = Results(page, queue)
  BY <1>1, <1>2, PutKeeps
<1>4. loop = "provider" /\ UNCHANGED <<turn, loop, steps, calls, failed, found, cancelled, away>>
  BY DEF Speak
<1>5. calls = <<>>
  BY <1>4 DEF ThreadsInv, Stages
<1>6. LoopMoves
  BY <1>1, <1>2, <1>3, <1>4, <1>5 DEF LoopMoves, Sender
<1>7. Unreported' = Unreported
  BY <1>4 DEF Unreported, Id
<1>8. EventsInv'
  <2>1. EventsInv /\ (Shows <=> Shows')
    BY <1>4 DEF ThreadsInv, Shows
  <2>2. QED
    BY <1>3, <1>4, <1>7, <2>1 DEF EventsInv
<1>9. QED
  BY <1>3, <1>4, <1>6, <1>8, LoopKept DEF ThreadsInv, TurnTypes

\* The steps of the loop that send nothing.
LEMMA SilentKeeps ==
  ASSUME ThreadsInv, Sender, Sender', Unreported' = Unreported,
         UNCHANGED <<turn, cancelled, away, client, found, streamVars>>,
         loop' = "tools" => turn.mode = "agent",
         loop' # "tools" => calls' = <<>>,
         failed => failed', failed' \in BOOLEAN,
         steps' \in Seq(Seq(Finished)), calls' \in Seq(Running)
  PROVE  ThreadsInv'
<1>1. UNCHANGED <<turn, cancelled, away, client, found, handler, page, queue>>
  BY DEF streamVars
<1>2. LoopMoves /\ page' \in Pages
  BY <1>1 DEF LoopMoves, ThreadsInv, TurnTypes
<1>3. EventsInv'
  BY <1>1, EventsQuiet DEF ThreadsInv
<1>4. QED
  BY <1>2, <1>3, LoopKept

\* The model commits calls.
LEMMA CommitKeeps ==
  ASSUME ThreadsInv, NEW plan \in Plans, Commit(plan), client' = client
  PROVE  ThreadsInv'
<1>1. /\ loop = "provider" /\ loop' = "tools" /\ turn.mode = "agent"
      /\ calls' = [i \in DOMAIN plan |-> [call |-> plan[i], st |-> "new", out |-> NoOutcome]]
      /\ UNCHANGED <<turn, steps, failed, found, streamVars, cancelled, away>>
  BY DEF Commit
<1>2. plan \in Seq(Call) /\ NoOutcome \in Outcomes
  BY PlansAssumption DEF NoOutcome, Outcomes, Hits
<1>3. calls' \in Seq(Running)
  <2>1. DOMAIN plan = 1 .. Len(plan) /\ Len(plan) \in Nat /\ \A i \in 1 .. Len(plan) : plan[i] \in Call
    BY <1>2
  <2>2. calls' \in [1 .. Len(plan) -> Running]
    BY <1>1, <1>2, <2>1 DEF Running
  <2>3. QED
    BY <2>1, <2>2
<1>4. Unreported' = {}
  <2>1. DOMAIN calls' = DOMAIN plan /\ \A k \in DOMAIN calls' : calls'[k].st = "new"
    BY <1>1
  <2>2. QED
    BY <2>1 DEF Unreported
<1>5. Unreported = {}
  BY <1>1, NoCalls DEF ThreadsInv, Stages
<1>6. failed \in BOOLEAN /\ steps \in Seq(Seq(Finished))
  BY DEF ThreadsInv, TurnTypes
<1>7. QED
  BY <1>1, <1>3, <1>4, <1>5, <1>6, SilentKeeps DEF Sender

\* Appending an element of a set to a sequence over it.
LEMMA AppendTypes ==
  ASSUME NEW S, NEW r \in Seq(S), NEW e \in S
  PROVE  Append(r, e) \in Seq(S)
OBVIOUS

\* The provider answers, or fails.
LEMMA AnswerKeeps ==
  ASSUME ThreadsInv, Answer \/ ProviderFails, client' = client
  PROVE  ThreadsInv'
<1>1. /\ loop = "provider" /\ loop' = "ending" /\ steps' \in {steps, Append(steps, <<>>)}
      /\ failed' \in {failed, TRUE}
      /\ UNCHANGED <<turn, calls, found, streamVars, cancelled, away>>
  BY DEF Answer, ProviderFails
<1>2. calls = <<>> /\ calls \in Seq(Running) /\ failed \in BOOLEAN /\ steps \in Seq(Seq(Finished))
  BY <1>1 DEF ThreadsInv, Stages, TurnTypes
<1>3. steps' \in Seq(Seq(Finished))
  <2>1. <<>> \in Seq(Finished)
    OBVIOUS
  <2>2. Append(steps, <<>>) \in Seq(Seq(Finished))
    BY <1>2, <2>1, AppendTypes
  <2>3. QED
    BY <1>1, <1>2, <2>2
<1>4. Unreported' = Unreported
  BY <1>1, <1>2 DEF Unreported
<1>5. QED
  BY <1>1, <1>2, <1>3, <1>4, SilentKeeps DEF Sender

\* The outcome of a tool.
LEMMA OutcomeTypes ==
  ASSUME ThreadsInv, loop = "tools", NEW ref
  PROVE  Searched(ref) \subseteq Outcomes /\ Gated \subseteq Outcomes
<1>1. turn.scope \in Projects \cup {All} /\ Findable \in Hits
  <2>1. turn.scope \in Projects \cup {All}
    BY DEF ThreadsInv, TurnTypes, Turns
  <2>2. QED
    BY <2>1 DEF Findable, Hits
<1>2. Searched(ref) \subseteq Outcomes
  BY <1>1 DEF Searched, Outcomes, Hits
<1>3. Gated \subseteq Outcomes
  <2> DEFINE kinds == CASE turn.policy = "propose" -> {"proposed"}
                        [] turn.policy = "confirm" /\ turn.surface = "repl" -> {"ran", "denied"}
                        [] turn.policy = "execute" -> {"ran"}
                        [] OTHER -> {"refused"}
  <2>1. kinds \subseteq {"proposed", "ran", "denied", "refused"}
    OBVIOUS
  <2>2. Gated = [kind : kinds, hits : {{}}]
    BY DEF Gated
  <2> HIDE DEF kinds
  <2>3. QED
    BY <2>1, <2>2 DEF Outcomes, Hits
<1>4. QED
  BY <1>2, <1>3

\* A tool runs.
LEMMA RunToolKeeps ==
  ASSUME ThreadsInv, NEW i \in DOMAIN calls, RunTool(i), client' = client
  PROVE  ThreadsInv'
<1>1. /\ loop = "tools" /\ calls[i].st = "called"
      /\ UNCHANGED <<turn, loop, steps, failed, found, streamVars, cancelled, away>>
  BY DEF RunTool
<1>2. PICK out \in Outcomes : calls' = [calls EXCEPT ![i].st = "reporting", ![i].out = out]
  BY <1>1, OutcomeTypes DEF RunTool
<1>3. calls \in Seq(Running) /\ failed \in BOOLEAN /\ steps \in Seq(Seq(Finished)) /\ turn.mode = "agent"
  BY <1>1 DEF ThreadsInv, TurnTypes, Stages
<1> DEFINE t == [calls[i] EXCEPT !.st = "reporting", !.out = out]
<1>4. calls' = [calls EXCEPT ![i] = t]
  BY <1>2
<1>5. calls[i] \in Running
  BY <1>3
<1>6. t \in Running /\ t.st = "reporting"
  BY <1>5 DEF Running
<1> HIDE DEF t
<1>7. calls' \in Seq(Running) /\ DOMAIN calls' = DOMAIN calls
  BY <1>3, <1>4, <1>6
<1>8. \A k \in DOMAIN calls : calls'[k].st \in {"called", "reporting"} <=> calls[k].st \in {"called", "reporting"}
  BY <1>1, <1>3, <1>4, <1>6
<1>9. Unreported' = Unreported
  <2>1. \A k : Id(k)' = Id(k)
    BY <1>1 DEF Id
  <2>2. QED
    BY <1>7, <1>8, <2>1 DEF Unreported
<1>10. QED
  BY <1>1, <1>3, <1>7, <1>9, SilentKeeps DEF Sender

\* A step ends when all its calls have reported.
LEMMA EndStepKeeps ==
  ASSUME ThreadsInv, EndStep, client' = client
  PROVE  ThreadsInv'
<1>1. /\ loop = "tools" /\ \A i \in DOMAIN calls : calls[i].st = "reported"
      /\ steps' = Append(steps, [i \in DOMAIN calls |-> [call |-> calls[i].call, out |-> calls[i].out]])
      /\ loop' \in {"ending", "provider"} /\ calls' = <<>>
      /\ UNCHANGED <<turn, failed, found, streamVars, cancelled, away>>
  BY DEF EndStep
<1>2. calls \in Seq(Running) /\ failed \in BOOLEAN /\ steps \in Seq(Seq(Finished))
  BY DEF ThreadsInv, TurnTypes
<1>3. [i \in DOMAIN calls |-> [call |-> calls[i].call, out |-> calls[i].out]] \in Seq(Finished)
  <2>1. DOMAIN calls = 1 .. Len(calls) /\ Len(calls) \in Nat /\ \A i \in 1 .. Len(calls) : calls[i] \in Running
    BY <1>2
  <2>2. [i \in DOMAIN calls |-> [call |-> calls[i].call, out |-> calls[i].out]] \in [1 .. Len(calls) -> Finished]
    BY <2>1 DEF Running, Finished
  <2>3. QED
    BY <2>1, <2>2
<1>4. steps' \in Seq(Seq(Finished)) /\ calls' \in Seq(Running)
  BY <1>1, <1>2, <1>3
<1>5. Unreported = {} /\ Unreported' = {}
  BY <1>1 DEF Unreported
<1>6. QED
  BY <1>1, <1>2, <1>4, <1>5, SilentKeeps DEF Sender

\* A call changes its stage, and its identity stays.
LEMMA StageChanges ==
  ASSUME calls \in Seq(Running), steps \in Seq(Seq(Finished)), NEW i \in DOMAIN calls, NEW st \in {"called", "reported"},
         calls' = [calls EXCEPT ![i].st = st], steps' = steps
  PROVE  /\ calls' \in Seq(Running)
         /\ Id(i) \in Ids
         /\ st = "called" => Unreported' = Unreported \cup {Id(i)}
         /\ st = "reported" => Unreported' = Unreported \ {Id(i)}
<1>1. calls[i] \in Running /\ i \in Nat
  OBVIOUS
<1> DEFINE t == [calls[i] EXCEPT !.st = st]
<1>2. t \in Running /\ t.st = st /\ calls' = [calls EXCEPT ![i] = t]
  BY <1>1 DEF Running
<1> HIDE DEF t
<1>3. /\ calls' \in Seq(Running) /\ DOMAIN calls' = DOMAIN calls
      /\ calls'[i].st = st /\ \A k \in DOMAIN calls \ {i} : calls'[k] = calls[k]
  BY <1>2
<1>4. /\ \A k : Id(k)' = Id(k)
      /\ \A k \in DOMAIN calls : Id(k) = Id(i) => k = i
      /\ Id(i) \in Ids
  BY <1>1 DEF Id, Ids
<1>5. Unreported' = {Id(j) : j \in {k \in DOMAIN calls : calls'[k].st \in {"called", "reporting"}}}
  BY <1>3, <1>4 DEF Unreported
<1>6. st = "called" => Unreported' = Unreported \cup {Id(i)}
  <2> SUFFICES ASSUME st = "called" PROVE Unreported' = Unreported \cup {Id(i)}
    OBVIOUS
  <2>1. {k \in DOMAIN calls : calls'[k].st \in {"called", "reporting"}}
          = {k \in DOMAIN calls : calls[k].st \in {"called", "reporting"}} \cup {i}
    BY <1>3
  <2>2. QED
    BY <1>5, <2>1 DEF Unreported
<1>7. st = "reported" => Unreported' = Unreported \ {Id(i)}
  <2> SUFFICES ASSUME st = "reported" PROVE Unreported' = Unreported \ {Id(i)}
    OBVIOUS
  <2>1. {k \in DOMAIN calls : calls'[k].st \in {"called", "reporting"}}
          = {k \in DOMAIN calls : calls[k].st \in {"called", "reporting"}} \ {i}
    BY <1>3
  <2>2. QED
    BY <1>4, <1>5, <2>1 DEF Unreported
<1>8. QED
  BY <1>3, <1>4, <1>6, <1>7

\* A call is announced before its tool runs.
LEMMA AnnounceKeeps ==
  ASSUME ThreadsInv, NEW i \in DOMAIN calls, Announce(i), client' = client
  PROVE  ThreadsInv'
<1>1. /\ loop = "tools" /\ calls' = [calls EXCEPT ![i].st = "called"] /\ Put(Chunk("call", Id(i)))
      /\ UNCHANGED <<turn, loop, steps, failed, found, cancelled, away>>
  BY DEF Announce
<1>2. /\ calls \in Seq(Running) /\ steps \in Seq(Seq(Finished)) /\ failed \in BOOLEAN
      /\ turn.mode = "agent" /\ turn.surface # "web"
  BY <1>1 DEF ThreadsInv, TurnTypes, Stages
<1>3. calls' \in Seq(Running) /\ Id(i) \in Ids /\ Unreported' = Unreported \cup {Id(i)}
  BY <1>1, <1>2, StageChanges
<1> DEFINE c == Chunk("call", Id(i))
<1>4. c \in Chunks /\ c.kind = "call" /\ c.id = Id(i) /\ c.hits = {}
  BY <1>3 DEF Chunk, Chunks, Hits
<1>5. Put(c) /\ Sender
  BY <1>1 DEF Sender
<1> HIDE DEF c
<1>6. /\ page' \in Pages /\ queue' \in Seq(Chunks) /\ handler' = handler
      /\ queue' = queue \/ (turn.streamed /\ turn.surface # "repl" /\ queue' = Append(queue, c))
      /\ page'.done = page.done
      /\ turn.surface # "repl" => page' = page
      /\ page'.orphans = page.orphans
      /\ ~away =>
           /\ InOrder(page', queue')
           /\ Chips(page', queue') = Chips(page, queue) \cup (IF Shows THEN {c.id} ELSE {})
           /\ Results(page', queue') = Results(page, queue)
  BY <1>2, <1>4, <1>5, PutKeeps
<1>7. LoopMoves
  BY <1>1, <1>2, <1>4, <1>5, <1>6 DEF LoopMoves, Sender
<1>8. EventsInv'
  <2>1. EventsInv /\ (Shows <=> Shows')
    BY <1>1 DEF ThreadsInv, Shows
  <2>2. QED
    BY <1>1, <1>3, <1>4, <1>6, <2>1 DEF EventsInv
<1>9. QED
  BY <1>1, <1>2, <1>3, <1>6, <1>7, <1>8, LoopKept

\* A result follows its call.
LEMMA ReportKeeps ==
  ASSUME ThreadsInv, NEW i \in DOMAIN calls, Report(i), client' = client
  PROVE  ThreadsInv'
<1>1. /\ loop = "tools" /\ calls[i].st = "reporting"
      /\ calls' = [calls EXCEPT ![i].st = "reported"] /\ Put(Chunk("result", Id(i)))
      /\ UNCHANGED <<turn, loop, steps, failed, found, cancelled, away>>
  BY DEF Report
<1>2. /\ calls \in Seq(Running) /\ steps \in Seq(Seq(Finished)) /\ failed \in BOOLEAN
      /\ turn.mode = "agent" /\ turn.surface # "web"
  BY <1>1 DEF ThreadsInv, TurnTypes, Stages
<1>3. calls' \in Seq(Running) /\ Id(i) \in Ids /\ Unreported' = Unreported \ {Id(i)}
  BY <1>1, <1>2, StageChanges
<1>4. Id(i) \in Unreported
  BY <1>1 DEF Unreported
<1> DEFINE c == Chunk("result", Id(i))
<1>5. c \in Chunks /\ c.kind = "result" /\ c.id = Id(i) /\ c.hits = {}
  BY <1>3 DEF Chunk, Chunks, Hits
<1>6. Put(c) /\ Sender
  BY <1>1 DEF Sender
<1> HIDE DEF c
<1>7. ~away /\ Shows => c.id \in Chips(page, queue)
  BY <1>4, <1>5 DEF ThreadsInv, EventsInv
<1>8. /\ page' \in Pages /\ queue' \in Seq(Chunks) /\ handler' = handler
      /\ queue' = queue \/ (turn.streamed /\ turn.surface # "repl" /\ queue' = Append(queue, c))
      /\ page'.done = page.done
      /\ turn.surface # "repl" => page' = page
      /\ page'.orphans = page.orphans
      /\ ~away =>
           /\ InOrder(page', queue')
           /\ Chips(page', queue') = Chips(page, queue)
           /\ Results(page', queue') = Results(page, queue) \cup (IF Shows THEN {c.id} ELSE {})
  BY <1>2, <1>5, <1>6, <1>7, PutKeeps
<1>9. LoopMoves
  BY <1>1, <1>2, <1>5, <1>6, <1>8 DEF LoopMoves, Sender
<1>10. EventsInv'
  <2>1. EventsInv /\ (Shows <=> Shows')
    BY <1>1 DEF ThreadsInv, Shows
  <2>2. QED
    BY <1>1, <1>3, <1>5, <1>7, <1>8, <2>1 DEF EventsInv
<1>11. QED
  BY <1>1, <1>2, <1>3, <1>8, <1>9, <1>10, LoopKept

\* What a search of the turn may cite, and what the searches of a turn cite.
LEMMA CitedTypes ==
  ASSUME ThreadsInv
  PROVE  Findable \in Hits /\ Cited(steps) \in Hits
<1>1. steps \in Seq(Seq(Finished)) /\ turn.scope \in Projects \cup {All}
  BY DEF ThreadsInv, TurnTypes, Turns
<1>2. Findable \in Hits
  BY <1>1 DEF Findable, Hits
<1>3. ASSUME NEW x \in Cited(steps) PROVE x \in Projects
  <2>1. PICK k \in DOMAIN steps : \E i \in DOMAIN steps[k] : x \in steps[k][i].out.hits
    BY <1>3 DEF Cited
  <2>2. PICK i \in DOMAIN steps[k] : x \in steps[k][i].out.hits
    BY <2>1
  <2>3. steps[k] \in Seq(Finished)
    BY <1>1
  <2>4. steps[k][i] \in Finished
    BY <2>3
  <2>5. QED
    BY <2>2, <2>4 DEF Finished, Outcomes, Hits
<1>4. QED
  BY <1>2, <1>3 DEF Hits

\* The search before a chat of the rag mode: its sources are shown first.
LEMMA RetrieveKeeps ==
  ASSUME ThreadsInv, Retrieve, client' = client
  PROVE  ThreadsInv'
<1>1. PICK ok \in BOOLEAN :
        /\ found' = IF ok THEN Findable ELSE {}
        /\ IF ok THEN loop' = "provider" /\ failed' = failed ELSE loop' = "exited" /\ failed' = TRUE
        /\ handler' = IF ~ok THEN "refusing" ELSE IF turn.streamed THEN "reading" ELSE handler
        /\ page' = IF ~ok \/ ~turn.streamed \/ away THEN page
                   ELSE IF turn.surface = "web" THEN [page EXCEPT !.opened = TRUE]
                   ELSE [page EXCEPT !.opened = TRUE, !.cited = Findable]
  BY DEF Retrieve
<1>2. loop = "retrieve" /\ UNCHANGED <<turn, steps, calls, said, queue, cancelled, away>>
  BY DEF Retrieve
<1>3. Findable \in Hits /\ {} \in Hits
  BY CitedTypes DEF Hits
<1>4. /\ turn.mode = "rag" /\ handler = "waiting" /\ queue = <<>> /\ found = {} /\ calls = <<>>
      /\ turn.surface = client /\ client \in Surfaces /\ page \in Pages
      /\ turn.streamed => turn.surface # "repl"
  BY <1>2 DEF ThreadsInv, Stages, TurnTypes
<1>5. /\ page' \in Pages
      /\ page'.chips = page.chips /\ page'.results = page.results
      /\ page'.orphans = page.orphans /\ page'.done = page.done
      /\ ok /\ turn.streamed /\ ~away /\ turn.surface = "admin" => page'.cited = Findable
      /\ ~ok => page' = page
  <2>1. CASE page' = page /\ (~ok \/ ~turn.streamed \/ away)
    BY <1>4, <2>1
  <2>2. CASE page' = [page EXCEPT !.opened = TRUE] /\ turn.surface = "web" /\ ok
    BY <1>4, <2>2 DEF Pages
  <2>3. CASE page' = [page EXCEPT !.opened = TRUE, !.cited = Findable] /\ ok
    BY <1>3, <1>4, <2>3 DEF Pages
  <2>4. QED
    BY <1>1, <1>4, <2>1, <2>2, <2>3
<1>6. TurnTypes'
  BY <1>1, <1>2, <1>3, <1>4, <1>5 DEF ThreadsInv, TurnTypes
<1>7. Stages'
  BY <1>1, <1>2, <1>4 DEF ThreadsInv, Stages
<1>8. EventsInv'
  <2>1. /\ IdsIn(queue', "call") = IdsIn(queue, "call") /\ IdsIn(queue', "result") = IdsIn(queue, "result")
        /\ Unreported' = Unreported /\ (Shows <=> Shows')
    BY <1>2, <1>4 DEF Unreported, Shows
  <2>2. Chips(page', queue') = Chips(page, queue) /\ Results(page', queue') = Results(page, queue)
    BY <1>5, <2>1 DEF Chips, Results
  <2>3. InOrder(page', queue')
    BY <1>2, <1>4 DEF InOrder
  <2>4. EventsInv /\ page'.orphans = page.orphans
    BY <1>5 DEF ThreadsInv
  <2>5. QED
    BY <1>2, <2>1, <2>2, <2>3, <2>4 DEF EventsInv
<1>9. SourcesInv'
  <2> SUFFICES ASSUME ~away PROVE SourcesInv'
    BY <1>2 DEF SourcesInv
  <2>1. turn.surface = "admin" => ~page.done
    BY <1>4 DEF ThreadsInv, SourcesInv
  <2>2. turn.surface = "admin" /\ turn.streamed => page.cited = {}
    BY <1>4 DEF ThreadsInv, SourcesInv
  <2>3. Len(queue') = 0
    BY <1>2, <1>4
  <2>4. handler' # "returned"
    BY <1>1, <1>4
  <2>5. turn.surface = "admin" /\ turn.streamed => page'.cited = found'
    BY <1>1, <1>5, <2>2
  <2>6. QED
    BY <1>2, <1>4, <1>5, <2>1, <2>3, <2>4, <2>5 DEF SourcesInv
<1>10. QED
  BY <1>6, <1>7, <1>8, <1>9 DEF ThreadsInv

\* The last chunk brings the sources of the turn.
LEMMA FinishKeeps ==
  ASSUME ThreadsInv, Finish, client' = client
  PROVE  ThreadsInv'
<1>1. loop = "ending" /\ loop' = "exited" /\ UNCHANGED <<turn, steps, calls, said, failed, found, cancelled, away>>
  BY DEF Finish, loopVars
<1>2. /\ calls = <<>> /\ turn.surface = client /\ page \in Pages /\ queue \in Seq(Chunks)
      /\ turn.surface # "web" => handler \notin {"refusing", "closing", "returned"}
      /\ \A i \in 1 .. Len(queue) : queue[i].kind # "done"
  BY <1>1, LoopRuns DEF ThreadsInv, Stages, TurnTypes, Sender
<1>3. Unreported' = Unreported /\ (Shows <=> Shows')
  BY <1>1, <1>2 DEF Unreported, Shows
<1>4. turn.surface = "admin" /\ ~away =>
        /\ ~page.done
        /\ turn.streamed /\ turn.mode = "agent" /\ ~failed => page.cited = {}
        /\ turn.streamed /\ turn.mode = "rag" => page.cited = found /\ \A i \in 1 .. Len(queue) : queue[i].hits = {}
  BY <1>1, <1>2 DEF ThreadsInv, SourcesInv
<1>5. CASE turn.streamed /\ turn.surface # "repl"
  <2> DEFINE c == Terminal
  <2>1. /\ c \in Chunks /\ c.kind = "done"
        /\ turn.mode = "rag" => c.hits = {}
        /\ ~failed /\ turn.mode # "rag" => c.hits = Cited(steps)
    <3>1. failed \in BOOLEAN /\ cancelled \in BOOLEAN
      BY DEF ThreadsInv, TurnTypes
    <3>2. QED
      BY <3>1, CitedTypes DEF Terminal, Chunks, Ids, Hits
  <2>2. Put(c) /\ Sender
    BY <1>1, <1>5 DEF Finish, Sender
  <2> HIDE DEF c
  <2>3. /\ page' = page /\ queue' \in Seq(Chunks) /\ handler' = handler
        /\ queue' = queue \/ queue' = Append(queue, c)
        /\ ~away /\ turn.surface = "admin" /\ turn.streamed => queue' = Append(queue, c)
        /\ ~away =>
             /\ InOrder(page', queue')
             /\ Chips(page', queue') = Chips(page, queue)
             /\ Results(page', queue') = Results(page, queue)
    BY <1>5, <2>1, <2>2, PutKeeps
  <2>4. \A i \in 1 .. Len(queue') : queue'[i].kind = "done" => i = Len(queue')
    BY <1>2, <2>3
  <2>5. TurnTypes'
    BY <1>1, <1>2, <2>3 DEF ThreadsInv, TurnTypes
  <2>6. Stages'
    BY <1>1, <1>2, <1>5, <2>3, <2>4 DEF ThreadsInv, Stages
  <2>7. EventsInv'
    BY <1>1, <1>3, <2>3 DEF ThreadsInv, EventsInv
  <2>8. SourcesInv'
    <3> SUFFICES ASSUME ~away, turn.surface = "admin" PROVE SourcesInv'
      BY <1>1 DEF SourcesInv
    <3>1. /\ Len(queue') = Len(queue) + 1 /\ Len(queue) \in Nat /\ queue'[Len(queue) + 1] = c
          /\ \A i \in 1 .. Len(queue) : queue'[i] = queue[i]
      BY <1>2, <1>5, <2>3
    <3>2. \A i \in 1 .. Len(queue') : i \in 1 .. Len(queue) \/ i = Len(queue) + 1
      BY <3>1
    <3>3. turn.mode = "rag" => \A i \in 1 .. Len(queue') : queue'[i].hits = {}
      BY <1>4, <1>5, <2>1, <3>1, <3>2
    <3>4. turn.mode = "agent" /\ ~failed => \A i \in 1 .. Len(queue') : queue'[i].kind = "done" => queue'[i].hits = Cited(steps)
      BY <1>2, <2>1, <3>1, <3>2
    <3>5. \E i \in 1 .. Len(queue') : queue'[i].kind = "done"
      BY <2>1, <3>1
    <3>6. Cited(steps)' = Cited(steps)
      BY <1>1 DEF Cited
    <3>7. handler' # "returned"
      BY <1>2, <2>3
    <3>8. QED
      BY <1>1, <1>4, <1>5, <2>3, <3>3, <3>4, <3>5, <3>6, <3>7 DEF SourcesInv
  <2>9. QED
    BY <2>5, <2>6, <2>7, <2>8 DEF ThreadsInv
<1>6. CASE ~(turn.streamed /\ turn.surface # "repl")
  <2>1. handler' = "closing" /\ queue' = queue /\ page' = page
    BY <1>6 DEF Finish
  <2>2. queue = <<>>
    BY <1>6 DEF ThreadsInv, Stages
  <2>3. TurnTypes'
    BY <1>1, <2>1 DEF ThreadsInv, TurnTypes
  <2>4. Stages'
    BY <1>1, <1>2, <1>6, <2>1, <2>2, LoopRuns DEF ThreadsInv, Stages, Sender
  <2>5. EventsInv'
    BY <1>1, <1>3, <2>1, EventsQuiet DEF ThreadsInv
  <2>6. SourcesInv'
    BY <1>1, <1>4, <1>6, <2>1 DEF SourcesInv
  <2>7. QED
    BY <2>3, <2>4, <2>5, <2>6 DEF ThreadsInv
<1>7. QED
  BY <1>5, <1>6

(***************************************************************************)
(* The handler                                                             *)
(***************************************************************************)

\* A chunk is read and shown.
LEMMA ReadKeeps ==
  ASSUME ThreadsInv, Read, client' = client
  PROVE  ThreadsInv'
<1>1. /\ handler = "reading" /\ queue # <<>> /\ queue' = Tail(queue)
      /\ page' = Shown(Written(Head(queue)))
      /\ handler' = IF Head(queue).kind = "done" THEN "closing" ELSE "reading"
      /\ UNCHANGED <<turn, loop, steps, calls, said, failed, found, cancelled, away>>
  BY DEF Read, loopVars
<1>2. queue \in Seq(Chunks) /\ page \in Pages /\ turn.streamed /\ turn.surface # "repl"
  BY <1>1 DEF ThreadsInv, Stages, TurnTypes
<1> DEFINE h == Head(queue)
           c == Written(h)
<1>3. /\ Len(queue) \in Nat \ {0} /\ Len(queue') = Len(queue) - 1 /\ queue' \in Seq(Chunks)
      /\ \A i \in 1 .. Len(queue') : queue'[i] = queue[i + 1] /\ i + 1 \in 1 .. Len(queue)
      /\ h = queue[1] /\ 1 \in 1 .. Len(queue) /\ h \in Chunks
  BY <1>1, <1>2
<1>4. c \in Chunks /\ c.kind = h.kind /\ c.id = h.id /\ c.hits = h.hits
  BY <1>3 DEF Written, Chunks
<1> HIDE DEF c
<1>5. h.kind = "done" => queue' = <<>> /\ loop = "exited"
  <2>1. h.kind = "done" => Len(queue) = 1 /\ loop = "exited"
    BY <1>3 DEF ThreadsInv, Stages
  <2>2. QED
    BY <1>1, <1>2, <2>1
<1> HIDE DEF h
<1>6. /\ page' \in Pages /\ page'.orphans = page.orphans
      /\ ~away =>
           /\ page'.chips = page.chips \cup (IF h.kind = "call" THEN {h.id} ELSE {})
           /\ page'.results = page.results \cup (IF h.kind = "result" THEN {h.id} ELSE {})
           /\ page'.cited = page.cited \cup (IF h.kind = "done" THEN h.hits ELSE {})
           /\ page'.done = page.done
  <2>1. CASE away
    BY <1>1, <1>2, <2>1 DEF Shown
  <2>2. CASE ~away
    <3>1. page' = Show(c)
      BY <1>1, <2>2 DEF Shown, c, h
    <3>2. c.kind = "result" => c.id \in page.chips
      <4>1. InOrder(page, queue)
        BY <2>2 DEF ThreadsInv, EventsInv
      <4> DEFINE pg2 == [chips |-> page.chips \cup (IF Head(queue).kind = "call" THEN {Head(queue).id} ELSE {})]
      <4>2. pg2.chips = page.chips \cup (IF Head(queue).kind = "call" THEN {Head(queue).id} ELSE {})
        OBVIOUS
      <4> HIDE DEF pg2
      <4>3. Head(queue).kind = "result" => Head(queue).id \in page.chips
        BY <1>1, <1>2, <4>1, <4>2, OrderRead
      <4>4. QED
        BY <1>4, <4>3 DEF h
    <3>3. QED
      BY <1>2, <1>4, <2>2, <3>1, <3>2, ShowDoes
  <2>3. QED
    BY <2>1, <2>2
<1>7. TurnTypes'
  BY <1>1, <1>3, <1>6 DEF ThreadsInv, TurnTypes
<1>8. Stages'
  <2>1. \A i \in 1 .. Len(queue') : queue'[i].kind = "done" => i = Len(queue') /\ loop = "exited"
    BY <1>3 DEF ThreadsInv, Stages
  <2>2. handler' \in {"reading", "closing"} /\ (handler' = "closing" => queue' = <<>> /\ loop = "exited")
    BY <1>1, <1>5 DEF h
  <2>3. QED
    BY <1>1, <1>2, <2>1, <2>2 DEF ThreadsInv, Stages
<1>9. EventsInv'
  <2> SUFFICES ASSUME ~away PROVE EventsInv'
    BY <1>1, <1>6 DEF ThreadsInv, EventsInv
  <2>1. InOrder(page', queue')
    BY <1>1, <1>2, <1>6, OrderRead DEF ThreadsInv, EventsInv, h
  <2>2. \A kind : IdsIn(queue, kind) = IdsIn(queue', kind) \cup (IF h.kind = kind THEN {h.id} ELSE {})
    BY <1>1, <1>2, IdsRead DEF h
  <2>3. Chips(page', queue') = Chips(page, queue) /\ Results(page', queue') = Results(page, queue)
    BY <1>6, <2>2 DEF Chips, Results
  <2>4. Unreported' = Unreported /\ (Shows <=> Shows')
    BY <1>1 DEF Unreported, Id, Shows
  <2>5. QED
    BY <1>1, <1>6, <2>1, <2>3, <2>4 DEF ThreadsInv, EventsInv
<1>10. SourcesInv'
  <2> SUFFICES ASSUME ~away, turn.surface = "admin" PROVE SourcesInv'
    BY <1>1 DEF SourcesInv
  <2>1. ~page.done /\ page'.done = page.done /\ handler' # "returned"
    BY <1>1, <1>6 DEF ThreadsInv, SourcesInv
  <2>2. Cited(steps)' = Cited(steps)
    BY <1>1 DEF Cited
  <2>3. turn.mode = "rag" => page'.cited = found /\ \A i \in 1 .. Len(queue') : queue'[i].hits = {}
    <3>1. turn.mode = "rag" => page.cited = found /\ \A i \in 1 .. Len(queue) : queue[i].hits = {}
      BY <1>2 DEF ThreadsInv, SourcesInv
    <3>2. QED
      BY <1>3, <1>6, <3>1 DEF h
  <2>4. turn.mode = "agent" /\ ~failed =>
          /\ page'.cited \in {{}, Cited(steps)} /\ (page'.cited # {} => loop = "exited")
          /\ \A i \in 1 .. Len(queue') : queue'[i].kind = "done" => queue'[i].hits = Cited(steps)
          /\ loop = "exited" => page'.cited = Cited(steps) \/ \E i \in 1 .. Len(queue') : queue'[i].kind = "done"
    <3> SUFFICES ASSUME turn.mode = "agent", ~failed PROVE <2>4!2
      OBVIOUS
    <3>1. /\ page.cited \in {{}, Cited(steps)} /\ (page.cited # {} => loop = "exited")
          /\ \A i \in 1 .. Len(queue) : queue[i].kind = "done" => queue[i].hits = Cited(steps)
          /\ loop = "exited" => page.cited = Cited(steps) \/ \E i \in 1 .. Len(queue) : queue[i].kind = "done"
      BY <1>2 DEF ThreadsInv, SourcesInv
    <3>2. CASE h.kind = "done"
      <4>1. h.hits = Cited(steps) /\ page'.cited = Cited(steps) /\ Len(queue') = 0 /\ loop = "exited"
        <5>1. h = queue[1] /\ 1 \in 1 .. Len(queue)
          BY <1>3 DEF h
        <5>2. h.hits = Cited(steps)
          BY <3>1, <3>2, <5>1
        <5>3. Len(queue') = 0 /\ loop = "exited"
          BY <1>5, <3>2
        <5>4. page'.cited = page.cited \cup h.hits
          BY <1>6, <3>2
        <5>5. QED
          BY <3>1, <5>2, <5>3, <5>4
      <4>2. QED
        BY <4>1
    <3>3. CASE h.kind # "done"
      <4>1. page'.cited = page.cited
        BY <1>6, <3>3
      <4>2. (\E i \in 1 .. Len(queue) : queue[i].kind = "done") => \E i \in 1 .. Len(queue') : queue'[i].kind = "done"
        <5>1. ASSUME NEW i \in 1 .. Len(queue), queue[i].kind = "done"
              PROVE  \E j \in 1 .. Len(queue') : queue'[j].kind = "done"
          <6>1. i - 1 \in 1 .. Len(queue')
            BY <1>3, <3>3, <5>1 DEF h
          <6>2. queue'[i - 1] = queue[i]
            BY <1>3, <6>1
          <6>3. QED
            BY <5>1, <6>1, <6>2
        <5>2. QED
          BY <5>1
      <4>3. QED
        BY <1>3, <3>1, <4>1, <4>2
    <3>4. QED
      BY <3>2, <3>3
  <2>5. QED
    BY <1>1, <2>1, <2>2, <2>3, <2>4 DEF SourcesInv
<1>11. QED
  BY <1>7, <1>8, <1>9, <1>10 DEF ThreadsInv

\* The channel is closed, or the request is refused: nothing new is shown.
LEMMA HandlerEnds ==
  ASSUME ThreadsInv, ReadClosed \/ GiveUp \/ Refuse, client' = client
  PROVE  ThreadsInv'
<1>1. /\ UNCHANGED <<turn, loop, steps, calls, said, failed, found, queue, away>>
      /\ \/ handler = "reading" /\ queue = <<>> /\ loop = "exited" /\ handler' = "closing" /\ page' = page /\ cancelled' = cancelled
         \/ /\ turn.surface = "web" /\ handler = "reading" /\ handler' = "returned" /\ cancelled' = cancelled
            /\ page' = IF away THEN page ELSE [page EXCEPT !.cited = found]
         \/ /\ handler = "refusing" /\ handler' = "returned" /\ cancelled' = TRUE
            /\ page' = IF away THEN page ELSE [page EXCEPT !.told = TRUE]
  BY DEF ReadClosed, GiveUp, Refuse, loopVars
<1>2. page \in Pages /\ found \in Hits /\ queue \in Seq(Chunks)
  BY DEF ThreadsInv, TurnTypes
<1>3. /\ page' \in Pages /\ page'.chips = page.chips /\ page'.results = page.results
      /\ page'.orphans = page.orphans /\ page'.done = page.done
      /\ turn.surface # "web" => page'.cited = page.cited
  <2>1. CASE page' = page
    BY <1>2, <2>1
  <2>2. CASE page' = [page EXCEPT !.cited = found] /\ turn.surface = "web"
    BY <1>2, <2>2 DEF Pages
  <2>3. CASE page' = [page EXCEPT !.told = TRUE]
    BY <1>2, <2>3 DEF Pages
  <2>4. QED
    BY <1>1, <2>1, <2>2, <2>3
<1>4. TurnTypes'
  BY <1>1, <1>3 DEF ThreadsInv, TurnTypes
<1>5. Stages'
  BY <1>1 DEF ThreadsInv, Stages
<1>6. EventsInv'
  <2>1. Unreported' = Unreported /\ (Shows <=> Shows')
    BY <1>1 DEF Unreported, Id, Shows
  <2>2. Chips(page', queue') = Chips(page, queue) /\ Results(page', queue') = Results(page, queue)
    BY <1>1, <1>3 DEF Chips, Results
  <2>3. InOrder(page, queue) => InOrder(page', queue')
    BY <1>1, <1>3 DEF InOrder
  <2>4. QED
    BY <1>1, <1>3, <2>1, <2>2, <2>3 DEF ThreadsInv, EventsInv
<1>7. SourcesInv'
  <2> SUFFICES ASSUME ~away, turn.surface = "admin" PROVE SourcesInv'
    BY <1>1 DEF SourcesInv
  <2>1. Cited(steps)' = Cited(steps)
    BY <1>1 DEF Cited
  <2>2. ~page.done
    BY <1>1 DEF ThreadsInv, SourcesInv
  <2>3. QED
    BY <1>1, <1>3, <2>1, <2>2 DEF ThreadsInv, SourcesInv
<1>8. QED
  BY <1>4, <1>5, <1>6, <1>7 DEF ThreadsInv

\* The last events, or the whole answer.
LEMMA ReturnKeeps ==
  ASSUME ThreadsInv, Return, client' = client
  PROVE  ThreadsInv'
<1>1. /\ handler = "closing" /\ handler' = "returned" /\ cancelled' = TRUE /\ page' = Answered
      /\ UNCHANGED <<turn, loop, steps, calls, said, failed, found, queue, away>>
  BY DEF Return, loopVars
<1>2. /\ page \in Pages /\ found \in Hits /\ Cited(steps) \in Hits /\ failed \in BOOLEAN
      /\ turn.surface = client /\ turn.surface \in Surfaces /\ turn.mode \in {"agent", "rag"}
      /\ turn.surface # "web" => loop = "exited" /\ queue = <<>>
  BY <1>1, CitedTypes DEF ThreadsInv, TurnTypes, Stages, Turns
<1>3. /\ page' \in Pages /\ page'.chips = page.chips /\ page'.results = page.results
      /\ page'.orphans = page.orphans
      /\ ~away /\ turn.surface = "admin" /\ turn.streamed => page'.cited = page.cited
      /\ ~away /\ turn.surface = "admin" /\ ~turn.streamed /\ ~failed => page'.cited = Sources
  <2>1. CASE away
    BY <1>1, <1>2, <2>1 DEF Answered
  <2>2. CASE ~away /\ turn.streamed /\ turn.surface = "admin"
    <3>1. page' = [page EXCEPT !.done = TRUE]
      BY <1>1, <2>2 DEF Answered
    <3>2. QED
      BY <1>2, <2>2, <3>1 DEF Pages
  <2>3. CASE ~away /\ turn.streamed /\ turn.surface = "web"
    <3>1. page' = [page EXCEPT !.done = TRUE, !.cited = found]
      BY <1>1, <2>3 DEF Answered
    <3>2. QED
      BY <1>2, <2>3, <3>1 DEF Pages
  <2>4. CASE ~away /\ turn.streamed /\ turn.surface = "repl"
    <3>1. page' = [page EXCEPT !.done = ~failed, !.told = failed]
      BY <1>1, <2>4 DEF Answered
    <3>2. QED
      BY <1>2, <2>4, <3>1 DEF Pages
  <2>5. CASE ~away /\ ~turn.streamed /\ failed
    <3>1. page' = [page EXCEPT !.told = TRUE]
      BY <1>1, <2>5 DEF Answered
    <3>2. QED
      BY <1>2, <2>5, <3>1 DEF Pages
  <2>6. CASE ~away /\ ~turn.streamed /\ ~failed
    <3>1. page' = [page EXCEPT !.text = TRUE, !.done = TRUE, !.cited = Sources]
      BY <1>1, <2>6 DEF Answered, Sources
    <3>2. Sources \in Hits
      BY <1>2 DEF Sources
    <3>3. QED
      BY <1>2, <2>6, <3>1, <3>2 DEF Pages
  <2>7. QED
    BY <1>2, <2>1, <2>2, <2>3, <2>4, <2>5, <2>6 DEF Surfaces
<1>4. TurnTypes'
  BY <1>1, <1>3 DEF ThreadsInv, TurnTypes
<1>5. Stages'
  BY <1>1, <1>2 DEF ThreadsInv, Stages
<1>6. EventsInv'
  <2>1. Unreported' = Unreported /\ (Shows <=> Shows')
    BY <1>1 DEF Unreported, Id, Shows
  <2>2. Chips(page', queue') = Chips(page, queue) /\ Results(page', queue') = Results(page, queue)
    BY <1>1, <1>3 DEF Chips, Results
  <2>3. InOrder(page, queue) => InOrder(page', queue')
    BY <1>1, <1>3 DEF InOrder
  <2>4. QED
    BY <1>1, <1>3, <2>1, <2>2, <2>3 DEF ThreadsInv, EventsInv
<1>7. SourcesInv'
  <2> SUFFICES ASSUME ~away, turn.surface = "admin" PROVE SourcesInv'
    BY <1>1 DEF SourcesInv
  <2>1. Cited(steps)' = Cited(steps) /\ Sources' = Sources
    BY <1>1 DEF Cited, Sources
  <2>2. loop = "exited" /\ Len(queue) = 0
    BY <1>2
  <2>3. turn.streamed /\ turn.mode = "rag" => page'.cited = found
    BY <1>3 DEF ThreadsInv, SourcesInv
  <2>4. turn.streamed /\ turn.mode = "agent" /\ ~failed => page'.cited = Cited(steps)
    BY <1>3, <2>2 DEF ThreadsInv, SourcesInv
  <2>5. ~failed => page'.cited = Sources
    BY <1>2, <1>3, <2>3, <2>4 DEF Sources
  <2>6. QED
    BY <1>1, <2>1, <2>2, <2>3, <2>4, <2>5 DEF SourcesInv
<1>8. QED
  BY <1>4, <1>5, <1>6, <1>7 DEF ThreadsInv

(***************************************************************************)
(* The client                                                              *)
(***************************************************************************)

\* A turn begins with a blank page and an empty channel.
LEMMA BeginKeeps ==
  ASSUME ThreadsInv, NEW t \in Turns, Begin(t), t.surface = client, client' = client,
         t.surface = "web" => t.mode = "rag",
         t.streamed /\ t.surface = "repl" => t.mode = "agent"
  PROVE  ThreadsInv'
<1>1. /\ turn' = t /\ steps' = <<>> /\ calls' = <<>> /\ failed' = FALSE /\ found' = {}
      /\ queue' = <<>> /\ cancelled' = FALSE /\ away' = FALSE
      /\ loop' = IF t.mode = "rag" THEN "retrieve" ELSE "provider"
      /\ handler' = IF t.mode = "agent" /\ t.streamed /\ t.surface # "repl" THEN "reading" ELSE "waiting"
      /\ page' \in {[Blank EXCEPT !.opened = TRUE], Blank}
  BY DEF Begin
<1>2. /\ page' \in Pages /\ page'.chips = {} /\ page'.results = {} /\ page'.cited = {}
      /\ page'.orphans = 0 /\ ~page'.done
  <2>1. /\ Blank \in Pages /\ Blank.chips = {} /\ Blank.results = {} /\ Blank.cited = {}
        /\ Blank.orphans = 0 /\ Blank.done = FALSE
    BY DEF Blank, Pages, Hits
  <2>2. CASE page' = Blank
    BY <2>1, <2>2
  <2>3. CASE page' = [Blank EXCEPT !.opened = TRUE]
    BY <2>1, <2>3 DEF Pages
  <2>4. QED
    BY <1>1, <2>2, <2>3
<1>3. t.mode \in {"agent", "rag"} /\ client \in Surfaces
  BY DEF Turns, ThreadsInv, TurnTypes
<1>4. TurnTypes'
  <2>1. <<>> \in Seq(Seq(Finished)) /\ <<>> \in Seq(Running) /\ <<>> \in Seq(Chunks) /\ {} \in Hits
    BY DEF Hits
  <2>2. /\ loop' \in {"retrieve", "provider"} /\ handler' \in {"reading", "waiting"}
        /\ FALSE \in BOOLEAN
    BY <1>1
  <2>3. QED
    BY <1>1, <1>2, <1>3, <2>1, <2>2, Zenon DEF TurnTypes
<1>5. Stages'
  BY <1>1, <1>3 DEF Stages
<1>6. EventsInv'
  <2>1. Unreported' = {} /\ \A kind : IdsIn(queue', kind) = {}
    BY <1>1 DEF Unreported, IdsIn
  <2>2. Chips(page', queue') = {} /\ Results(page', queue') = {} /\ InOrder(page', queue')
    BY <1>1, <1>2, <2>1 DEF Chips, Results, InOrder
  <2>3. QED
    BY <1>2, <2>1, <2>2 DEF EventsInv
<1>7. SourcesInv'
  <2>1. Len(queue') = 0 /\ loop' # "exited" /\ handler' # "returned"
    BY <1>1
  <2>2. QED
    BY <1>1, <1>2, <2>1 DEF SourcesInv
<1>8. QED
  BY <1>4, <1>5, <1>6, <1>7 DEF ThreadsInv

\* The client leaves: it is shown nothing more of the turn.
LEMMA LeavesKeeps ==
  ASSUME ThreadsInv, Leaves, client # "repl", client' = client
  PROVE  ThreadsInv'
<1>1. away' = TRUE /\ cancelled' = TRUE /\ UNCHANGED <<turn, loop, steps, calls, said, failed, found, queue, handler, page>>
  BY DEF Leaves, loopVars, streamVars
<1>2. TurnTypes' /\ Stages'
  BY <1>1 DEF ThreadsInv, TurnTypes, Stages
<1>3. EventsInv' /\ SourcesInv'
  BY <1>1 DEF ThreadsInv, EventsInv, SourcesInv
<1>4. QED
  BY <1>2, <1>3 DEF ThreadsInv

\* Its two minutes run out: only the web chat's, which has no calls to show.
LEMMA ExpireKeeps ==
  ASSUME ThreadsInv, Expire
  PROVE  ThreadsInv'
<1>1. /\ client = "web" /\ ~Ended /\ cancelled' = TRUE
      /\ UNCHANGED <<turn, loop, steps, calls, said, failed, found, queue, handler, page, away, client>>
  BY DEF Expire, loopVars, streamVars, threads
<1>2. turn.surface = "web"
  BY <1>1 DEF Ended, ThreadsInv, Stages
<1>3. TurnTypes' /\ Stages'
  BY <1>1, <1>2 DEF ThreadsInv, TurnTypes, Stages
<1>4. EventsInv'
  <2>1. Unreported' = Unreported
    BY <1>1 DEF Unreported, Id
  <2>2. QED
    BY <1>1, <2>1, EventsQuiet DEF ThreadsInv
<1>5. SourcesInv'
  BY <1>1, <1>2 DEF ThreadsInv, SourcesInv
<1>6. QED
  BY <1>3, <1>4, <1>5 DEF ThreadsInv

\* Nothing of a turn changes.
LEMMA OutsideKeeps ==
  ASSUME ThreadsInv, UNCHANGED <<turnVars, client>>
  PROVE  ThreadsInv'
<1>1. UNCHANGED <<turn, loop, steps, calls, said, failed, found, queue, handler, page, cancelled, away, client>>
  BY DEF turnVars, loopVars, streamVars
<1>2. TurnTypes' /\ Stages'
  BY <1>1 DEF ThreadsInv, TurnTypes, Stages
<1>3. EventsInv'
  <2>1. Unreported' = Unreported
    BY <1>1 DEF Unreported, Id
  <2>2. QED
    BY <1>1, <2>1, EventsQuiet DEF ThreadsInv
<1>4. SourcesInv'
  <2>1. Cited(steps)' = Cited(steps) /\ Sources' = Sources
    BY <1>1 DEF Cited, Sources
  <2>2. QED
    BY <1>1, <2>1 DEF ThreadsInv, SourcesInv
<1>5. QED
  BY <1>2, <1>3, <1>4 DEF ThreadsInv

\* In the initial states nothing has been asked.
LEMMA ThreadsInit == Init => ThreadsInv
<1> SUFFICES ASSUME Init PROVE ThreadsInv
  OBVIOUS
<1>1. /\ turn = Idle /\ loop = "idle" /\ steps = <<>> /\ calls = <<>> /\ failed = FALSE /\ found = {}
      /\ queue = <<>> /\ handler = "idle" /\ cancelled = FALSE /\ away = FALSE /\ page = Blank
      /\ client \in Surfaces
  BY KindsAssumption DEF Init, TurnInit
<1>2. /\ Blank \in Pages /\ Blank.chips = {} /\ Blank.results = {} /\ Blank.orphans = 0 /\ Blank.done = FALSE
  BY DEF Blank, Pages, Hits
<1>3. /\ Idle \in Turns /\ Idle.surface = "none" /\ Idle.mode = "agent" /\ Idle.streamed = FALSE
  BY DEF Idle, Turns, Policies
<1>4. TurnTypes
  <2>1. <<>> \in Seq(Seq(Finished)) /\ <<>> \in Seq(Running) /\ <<>> \in Seq(Chunks) /\ {} \in Hits
    BY DEF Hits
  <2>2. QED
    BY <1>1, <1>2, <1>3, <2>1, Zenon DEF TurnTypes
<1>5. Stages
  BY <1>1, <1>3 DEF Stages
<1>6. EventsInv
  <2>1. Unreported = {} /\ \A kind : IdsIn(queue, kind) = {}
    BY <1>1 DEF Unreported, IdsIn
  <2>2. Chips(page, queue) = {} /\ Results(page, queue) = {} /\ InOrder(page, queue)
    BY <1>1, <1>2, <2>1 DEF Chips, Results, InOrder
  <2>3. QED
    BY <1>1, <1>2, <2>1, <2>2 DEF EventsInv
<1>7. SourcesInv
  BY <1>1, <1>2, <1>3 DEF SourcesInv
<1>8. QED
  BY <1>4, <1>5, <1>6, <1>7 DEF ThreadsInv

\* Every step keeps the invariant: one case for each action.
LEMMA ThreadsNext == ThreadsInv /\ [Next]_vars => ThreadsInv'
<1> SUFFICES ASSUME ThreadsInv, [Next]_vars PROVE ThreadsInv'
  OBVIOUS
<1>1. CASE LoopStep /\ Outside
  <2>1. client' = client
    BY <1>1 DEF Outside, threads
  <2>2. QED
    BY <1>1, <2>1, RetrieveKeeps, SpeakKeeps, AnswerKeeps, EndStepKeeps, FinishKeeps, CommitKeeps,
       AnnounceKeeps, RunToolKeeps, ReportKeeps DEF LoopStep
<1>2. CASE HandlerStep /\ Outside
  <2>1. client' = client
    BY <1>2 DEF Outside, threads
  <2>2. QED
    BY <1>2, <2>1, ReadKeeps, HandlerEnds, ReturnKeeps DEF HandlerStep
<1>3. CASE Saving
  <2>1. UNCHANGED <<turnVars, client>>
    BY <1>3 DEF Saving, Created, Added, SaveFails
  <2>2. QED
    BY <2>1, OutsideKeeps
<1>4. CASE Moving
  <2>1. UNCHANGED <<turnVars, client>>
    BY <1>4 DEF Moving, NewChat, Clear, Open, Delete, Switch
  <2>2. QED
    BY <2>1, OutsideKeeps
<1>5. CASE Ask
  <2>1. PICK k \in Kinds : k.surface = client /\ Begin(Request(k))
    BY <1>5 DEF Ask
  <2>2. client' = client
    BY <1>5 DEF Ask
  <2>3. /\ k \in [surface : Surfaces, mode : {"agent", "rag"}, scope : Projects \cup {All}, policy : Policies]
        /\ k.surface = "web" => k.mode = "rag"
    BY KindsAssumption
  <2>4. /\ Request(k) \in Turns /\ Request(k).surface = k.surface /\ Request(k).mode = k.mode
        /\ Request(k).streamed = (k.surface # "repl" \/ k.mode = "agent")
    BY <2>3 DEF Request, Turns
  <2>5. QED
    BY <2>1, <2>2, <2>3, <2>4, BeginKeeps
<1>6. CASE Complete
  <2>1. UNCHANGED <<turnVars, client>>
    BY <1>6 DEF Complete, EndTurn
  <2>2. QED
    BY <2>1, OutsideKeeps
<1>7. CASE Stop \/ Break
  <2>1. Leaves /\ client # "repl" /\ client' = client
    BY <1>7 DEF Stop, Break, EndTurn
  <2>2. QED
    BY <2>1, LeavesKeeps
<1>8. CASE AskAgain
  <2> DEFINE t == [turn EXCEPT !.streamed = FALSE]
  <2>1. Begin(t) /\ turn.streamed /\ client' = client
    BY <1>8 DEF AskAgain, threads
  <2>2. turn \in Turns /\ turn # Idle
    BY <2>1 DEF ThreadsInv, TurnTypes, Idle
  <2>3. turn.surface = client /\ (turn.surface = "web" => turn.mode = "rag")
    BY <2>2 DEF ThreadsInv, Stages
  <2>4. t \in Turns /\ t.surface = turn.surface /\ t.mode = turn.mode /\ t.streamed = FALSE
    BY <2>2 DEF Turns
  <2> HIDE DEF t
  <2>5. QED
    BY <2>1, <2>3, <2>4, BeginKeeps
<1>9. CASE Expire
  BY <1>9, ExpireKeeps
<1>10. CASE UNCHANGED vars
  BY <1>10, OutsideKeeps DEF vars, threads
<1>11. QED
  BY <1>1, <1>2, <1>3, <1>4, <1>5, <1>6, <1>7, <1>8, <1>9, <1>10 DEF Next

\* When the handler has ended, nothing is left in the channel and no call open.
LEMMA EventsFollow == ThreadsInv => EventsMatch
<1> SUFFICES ASSUME ThreadsInv PROVE EventsMatch
  OBVIOUS
<1>1. page.orphans = 0
  BY DEF ThreadsInv, EventsInv
<1>2. ASSUME handler = "returned", ~away, page.done, turn.surface # "web"
      PROVE  /\ page.results = page.chips
             /\ ~failed /\ turn.surface = "admin" => page.cited = Sources
  <2>1. loop = "exited" /\ queue = <<>>
    BY <1>2 DEF ThreadsInv, Stages
  <2>2. calls = <<>> /\ Unreported = {}
    BY <2>1, NoCalls DEF ThreadsInv, Stages
  <2>3. IdsIn(queue, "call") = {} /\ IdsIn(queue, "result") = {}
    BY <2>1 DEF IdsIn
  <2>4. Chips(page, queue) = page.chips /\ Results(page, queue) = page.results
    BY <2>3 DEF Chips, Results
  <2>5. page.results = page.chips
    <3>1. page.results \subseteq page.chips /\ page.chips \subseteq page.results \cup {}
      BY <1>2, <2>2, <2>4, Zenon DEF ThreadsInv, EventsInv
    <3>2. QED
      BY <3>1
  <2>6. ~failed /\ turn.surface = "admin" => page.cited = Sources
    BY <1>2 DEF ThreadsInv, SourcesInv
  <2>7. QED
    BY <2>5, <2>6
<1>3. QED
  BY <1>1, <1>2 DEF EventsMatch, Sources

\* Tools run and report concurrently, their events pass a channel that may be
\* full, clients stop, break off and ask again: still a client that stays sees
\* every result after its call, no call without its result when the stream
\* ends, and exactly the sources that the searches of the turn found
\* (chat_api.go's stream chunks, agent.Runner's callbacks).
THEOREM EventsAreShown == Spec => []EventsMatch
<1>1. Spec => []ThreadsInv
  BY ThreadsInit, ThreadsNext, PTL DEF Spec
<1>2. QED
  BY <1>1, EventsFollow, PTL

(***************************************************************************)
(* What the terminal remembers.                                            *)
(***************************************************************************)

Said == [role : {"user", "assistant", "tool"}, calls : SUBSET (Nat \X Nat \X Nat)]
Line == [role : {"user", "assistant"}, n : Nat]

\* A memory begins with a question and has no more questions than turns are kept.
Opens(h) == h # <<>> => h[1].role = "user"
Fits(h) == IsFiniteSet(Users(h)) /\ (KeepTurns > 0 => Cardinality(Users(h)) <= KeepTurns)

\* Each tool result follows its call, with no question in between.
Follows(h, i) ==
  \E j \in 1 .. i - 1 : /\ h[j].role = "assistant" /\ h[i].calls \subseteq h[j].calls
                       /\ \A k \in j .. i : h[k].role # "user"
Paired(h) == \A i \in 1 .. Len(h) : h[i].role = "tool" => Follows(h, i)

\* Each answer follows its question, and each question but the last has one.
InTurns(h) ==
  /\ \A i \in 1 .. Len(h) : h[i].role = "assistant" => i > 1 /\ h[i - 1] = [role |-> "user", n |-> h[i].n]
  /\ \A i \in 1 .. Len(h) - 1 : h[i].role = "user" => h[i + 1].role = "assistant"

\* Both memories, of the turns that ended.
MemoryInv ==
  /\ asked \in Nat
  /\ convo \in Seq(Said) /\ Opens(convo) /\ Fits(convo) /\ Paired(convo)
  /\ history \in Seq(Line) /\ Fits(history) /\ InTurns(history)
  /\ history # <<>> => history[Len(history)].role = "assistant"

LEMMA Least ==
  ASSUME NEW S \in SUBSET Nat, S # {}
  PROVE  \E k \in S : \A j \in S : k <= j
<1> DEFINE R == OpToRel(<, Nat)
<1>1. IsWellFoundedOn(R, Nat)
  BY NatLessThanWellFounded
<1>2. \A x, y \in Nat : y < x => <<y, x>> \in R
  <2> SUFFICES ASSUME NEW x \in Nat, NEW y \in Nat, y < x PROVE <<y, x>> \in R
    OBVIOUS
  <2> DEFINE t == <<y, x>>
  <2>1. t \in Nat \X Nat /\ t[1] < t[2]
    OBVIOUS
  <2>2. QED
    BY <2>1, Zenon DEF OpToRel
<1> HIDE DEF R
<1>3. PICK x \in S : \A y \in S : ~ (<<y, x>> \in R)
  BY <1>1, WFMin
<1>4. ASSUME NEW y \in S PROVE x <= y
  <2>1. x \in Nat /\ y \in Nat
    OBVIOUS
  <2>2. ~ (y < x)
    BY <1>2, <1>3, <2>1, Zenon
  <2>3. QED
    BY <2>1, <2>2
<1>5. QED
  BY <1>4

\* FlattenSeq by its prefixes: there are such, found up to the first that would be missing.
Joins(f, ss, m) == f = [i \in 1 .. m |-> IF i = 1 THEN ss[i] ELSE f[i - 1] \o ss[i]]

LEMMA PrefixesExist ==
  ASSUME NEW ss, NEW n \in Nat
  PROVE  \E f : Joins(f, ss, n)
<1> DEFINE T == {m \in Nat : m <= n /\ ~ \E f : Joins(f, ss, m)}
<1> SUFFICES T = {}
  OBVIOUS
<1> SUFFICES ASSUME T # {} PROVE FALSE
  OBVIOUS
<1>1. PICK m \in T : \A j \in T : m <= j
  BY Least
<1>2. m \in Nat /\ m <= n /\ ~ \E f : Joins(f, ss, m)
  OBVIOUS
<1>3. CASE m = 0
  <2> DEFINE f == [i \in 1 .. 0 |-> 0]
  <2>1. Joins(f, ss, 0)
    BY DEF Joins
  <2>2. QED
    BY <1>2, <1>3, <2>1
<1>4. CASE m # 0
  <2>1. m - 1 \in Nat /\ m - 1 <= n /\ ~ (m <= m - 1)
    BY <1>2, <1>4
  <2>2. m - 1 \notin T
    BY <1>1, <2>1
  <2>3. PICK g : Joins(g, ss, m - 1)
    BY <2>1, <2>2
  <2> DEFINE f == [i \in 1 .. m |-> IF i < m THEN g[i] ELSE IF m = 1 THEN ss[1] ELSE g[m - 1] \o ss[m]]
  <2>4. ASSUME NEW i \in 1 .. m PROVE f[i] = IF i = 1 THEN ss[i] ELSE f[i - 1] \o ss[i]
    <3>1. CASE i < m
      <4>1. i \in 1 .. m - 1 /\ f[i] = g[i] /\ (i # 1 => f[i - 1] = g[i - 1])
        BY <1>2, <2>4, <3>1
      <4>2. g[i] = IF i = 1 THEN ss[i] ELSE g[i - 1] \o ss[i]
        BY <2>3, <4>1 DEF Joins
      <4>3. QED
        BY <4>1, <4>2
    <3>2. CASE i = m
      BY <1>2, <2>4, <3>2
    <3>3. QED
      BY <1>2, <2>4, <3>1, <3>2
  <2>5. f = [i \in 1 .. m |-> f[i]]
    OBVIOUS
  <2> HIDE DEF f
  <2>6. Joins(f, ss, m)
    BY <2>4, <2>5 DEF Joins
  <2>7. QED
    BY <1>2, <2>6
<1>5. QED
  BY <1>3, <1>4

LEMMA FlattenPrefixes ==
  ASSUME NEW ss, Len(ss) \in Nat \ {0}
  PROVE  \E f : Joins(f, ss, Len(ss)) /\ FlattenSeq(ss) = f[Len(ss)]
<1>1. \E f : f = [i \in 1 .. Len(ss) |-> IF i = 1 THEN ss[i] ELSE f[i - 1] \o ss[i]]
  BY PrefixesExist DEF Joins
<1> DEFINE f == CHOOSE f : f = [i \in 1 .. Len(ss) |-> IF i = 1 THEN ss[i] ELSE f[i - 1] \o ss[i]]
<1>2. Joins(f, ss, Len(ss))
  BY <1>1, Zenon DEF Joins
<1>3. FlattenSeq(ss) = f[Len(ss)]
  BY Zenon DEF FlattenSeq
<1>4. QED
  BY <1>2, <1>3

\* Two parts that are paired are paired one after the other.
LEMMA PairedJoin ==
  ASSUME NEW g \in Seq(Said), NEW b \in Seq(Said), Paired(g), Paired(b)
  PROVE  g \o b \in Seq(Said) /\ Paired(g \o b)
<1> DEFINE h == g \o b
<1>1. h \in Seq(Said) /\ Len(h) = Len(g) + Len(b) /\ Len(g) \in Nat /\ Len(b) \in Nat
  OBVIOUS
<1>2. \A i \in 1 .. Len(g) : h[i] = g[i]
  OBVIOUS
<1>3. \A i \in 1 .. Len(b) : h[Len(g) + i] = b[i]
  OBVIOUS
<1> HIDE DEF h
<1>4. ASSUME NEW i \in 1 .. Len(h), h[i].role = "tool" PROVE Follows(h, i)
  <2>1. CASE i <= Len(g)
    <3>1. i \in 1 .. Len(g) /\ g[i].role = "tool"
      BY <1>1, <1>2, <1>4, <2>1
    <3>2. PICK j \in 1 .. i - 1 : /\ g[j].role = "assistant" /\ g[i].calls \subseteq g[j].calls
                                  /\ \A k \in j .. i : g[k].role # "user"
      BY <3>1 DEF Paired, Follows
    <3>3. \A k \in j .. i : h[k] = g[k]
      BY <1>1, <1>2, <3>1, <3>2
    <3>4. j \in 1 .. i - 1 /\ h[j] = g[j] /\ h[i] = g[i]
      BY <3>1, <3>2, <3>3
    <3>5. h[j].role = "assistant" /\ h[i].calls \subseteq h[j].calls /\ \A k \in j .. i : h[k].role # "user"
      BY <3>2, <3>3, <3>4
    <3>6. QED
      BY <3>4, <3>5 DEF Follows
  <2>2. CASE i > Len(g)
    <3>1. PICK m \in 1 .. Len(b) : i = Len(g) + m
      <4>1. i - Len(g) \in 1 .. Len(b) /\ i = Len(g) + (i - Len(g))
        BY <1>1, <2>2
      <4>2. QED
        BY <4>1
    <3>2. b[m].role = "tool" /\ h[i] = b[m]
      BY <1>3, <1>4, <3>1
    <3>3. PICK j \in 1 .. m - 1 : /\ b[j].role = "assistant" /\ b[m].calls \subseteq b[j].calls
                                  /\ \A k \in j .. m : b[k].role # "user"
      BY <3>2 DEF Paired, Follows
    <3>4. \A k \in 1 .. m : h[Len(g) + k] = b[k]
      BY <1>1, <1>3, <3>1
    <3>5. ASSUME NEW k \in Len(g) + j .. i PROVE h[k].role # "user"
      <4>1. PICK d \in j .. m : k = Len(g) + d
        <5>1. k - Len(g) \in j .. m /\ k = Len(g) + (k - Len(g))
          BY <1>1, <3>1, <3>3
        <5>2. QED
          BY <5>1
      <4>2. d \in 1 .. m
        BY <3>3
      <4>3. h[k] = b[d] /\ b[d].role # "user"
        BY <3>3, <3>4, <4>1, <4>2
      <4>4. QED
        BY <4>3
    <3>6. Len(g) + j \in 1 .. i - 1 /\ h[Len(g) + j] = b[j]
      BY <1>1, <3>1, <3>3, <3>4
    <3>7. QED
      BY <3>2, <3>3, <3>5, <3>6 DEF Follows
  <2>3. QED
    BY <1>1, <2>1, <2>2
<1>5. QED
  BY <1>1, <1>4 DEF Paired, h

LEMMA UsersJoin ==
  ASSUME NEW S, NEW g \in Seq(S), NEW b \in Seq(S)
  PROVE  Users(g \o b) = Users(g) \cup {Len(g) + i : i \in Users(b)}
<1>1. Users(g) \subseteq Users(g \o b)
  BY DEF Users
<1>2. ASSUME NEW i \in Users(b) PROVE Len(g) + i \in Users(g \o b)
  BY DEF Users
<1>3. ASSUME NEW i \in Users(g \o b) PROVE i \in Users(g) \cup {Len(g) + k : k \in Users(b)}
  <2>1. i \in 1 .. Len(g) + Len(b) /\ (g \o b)[i].role = "user"
    BY DEF Users
  <2>2. CASE i <= Len(g)
    BY <2>1, <2>2 DEF Users
  <2>3. CASE i > Len(g)
    <3>1. PICK k \in 1 .. Len(b) : i = Len(g) + k
      <4>1. i - Len(g) \in 1 .. Len(b) /\ i = Len(g) + (i - Len(g))
        BY <2>1, <2>3
      <4>2. QED
        BY <4>1
    <3>2. (g \o b)[i] = b[k]
      BY <3>1
    <3>3. QED
      BY <2>1, <3>1, <3>2 DEF Users
  <2>4. QED
    BY <2>1, <2>2, <2>3
<1>4. QED
  BY <1>1, <1>2, <1>3

\* The questions of what is left from a cut on are those behind the cut.
LEMMA UsersCut ==
  ASSUME NEW S, NEW h \in Seq(S), IsFiniteSet(Users(h)), NEW c \in 1 .. Len(h) + 1
  PROVE  LET r == SubSeq(h, c, Len(h)) IN
           /\ r \in Seq(S) /\ Len(r) = Len(h) + 1 - c /\ \A i \in 1 .. Len(r) : r[i] = h[c - 1 + i]
           /\ IsFiniteSet(Users(r)) /\ Cardinality(Users(r)) = Cardinality({j \in Users(h) : j >= c})
<1> PICK r : r = SubSeq(h, c, Len(h))
  OBVIOUS
<1>1. r \in Seq(S) /\ Len(r) = Len(h) + 1 - c /\ \A i \in 1 .. Len(r) : r[i] = h[c - 1 + i]
  OBVIOUS
<1> DEFINE B == {j \in Users(h) : j >= c}
           f == [j \in B |-> j - c + 1]
<1>2. IsFiniteSet(B)
  <2>1. B \subseteq Users(h)
    OBVIOUS
  <2>2. QED
    BY <2>1, FS_Subset, Zenon
<1>3. ASSUME NEW j \in B PROVE f[j] \in Users(r)
  <2>1. j \in 1 .. Len(h) /\ h[j].role = "user" /\ j >= c
    BY DEF Users
  <2>2. f[j] = j - c + 1 /\ j - c + 1 \in 1 .. Len(r) /\ c - 1 + (j - c + 1) = j
    BY <1>1, <2>1
  <2>3. QED
    BY <1>1, <2>1, <2>2, SMTT(60) DEF Users
<1>4. ASSUME NEW i \in Users(r) PROVE \E j \in B : f[j] = i
  <2>1. i \in 1 .. Len(r) /\ r[i].role = "user"
    BY <1>1 DEF Users
  <2>2. PICK j \in Int : j = c - 1 + i
    BY <2>1
  <2>3. j \in 1 .. Len(h) /\ j >= c /\ j - c + 1 = i
    BY <1>1, <2>1, <2>2
  <2>3a. h[j].role = "user"
    BY <1>1, <2>1, <2>2
  <2>4. j \in B
    BY <2>3, <2>3a DEF Users
  <2>5. QED
    BY <2>3, <2>4
<1>5. ASSUME NEW j \in B, NEW k \in B, f[j] = f[k] PROVE j = k
  <2>1. j \in Int /\ k \in Int
    BY DEF Users
  <2>2. QED
    BY <1>5, <2>1
<1>6. f \in Bijection(B, Users(r))
  <2>1. f \in [B -> Users(r)]
    BY <1>3
  <2>2. DOMAIN f = B
    OBVIOUS
  <2> HIDE DEF f, B
  <2>3. f \in Injection(B, Users(r))
    BY <1>5, <2>1, <2>2 DEF Injection, IsInjective
  <2>4. f \in Surjection(B, Users(r))
    BY <1>4, <2>1 DEF Surjection
  <2>5. QED
    BY <2>3, <2>4 DEF Bijection
<1>7. IsFiniteSet(Users(r)) /\ Cardinality(Users(r)) = Cardinality(B)
  <2> HIDE DEF f, B
  <2>1. QED
    BY <1>2, <1>6, FS_Bijection, Zenon DEF ExistsBijection
<1>8. QED
  BY <1>1, <1>7

\* One more question: at most one too many.
LEMMA UsersAppend ==
  ASSUME NEW S, NEW h \in Seq(S), NEW u \in S, u.role = "user", Fits(h)
  PROVE  /\ Append(h, u) \in Seq(S) /\ Users(Append(h, u)) = Users(h) \cup {Len(h) + 1}
         /\ IsFiniteSet(Users(Append(h, u)))
         /\ Cardinality(Users(Append(h, u))) = Cardinality(Users(h)) + 1
<1>1. Append(h, u) \in Seq(S) /\ Len(Append(h, u)) = Len(h) + 1
  OBVIOUS
<1>2. \A i \in 1 .. Len(h) : Append(h, u)[i] = h[i]
  OBVIOUS
<1>3. Append(h, u)[Len(h) + 1] = u
  OBVIOUS
<1>4. Users(Append(h, u)) = Users(h) \cup {Len(h) + 1}
  BY <1>1, <1>2, <1>3 DEF Users
<1>5. Len(h) + 1 \notin Users(h)
  BY DEF Users
<1>6. QED
  BY <1>1, <1>4, <1>5, FS_AddElement DEF Fits

\* The messages of a step: the assistant's, then the results of its calls.
LEMMA StepIsPaired ==
  ASSUME NEW n \in Nat, NEW k \in Nat, NEW s, Len(s) \in Nat, DOMAIN s = 1 .. Len(s)
  PROVE  LET b == <<[role |-> "assistant", calls |-> {<<n, k, i>> : i \in DOMAIN s}]>> \o
                  [i \in DOMAIN s |-> [role |-> "tool", calls |-> {<<n, k, i>>}]]
         IN b \in Seq(Said) /\ Paired(b) /\ Users(b) = {}
<1> DEFINE a == [role |-> "assistant", calls |-> {<<n, k, i>> : i \in DOMAIN s}]
           t == [i \in DOMAIN s |-> [role |-> "tool", calls |-> {<<n, k, i>>}]]
           b == <<a>> \o t
<1>1. a \in Said /\ a.role = "assistant"
  <2>1. \A i \in DOMAIN s : <<n, k, i>> \in Nat \X Nat \X Nat
    OBVIOUS
  <2>2. {<<n, k, i>> : i \in DOMAIN s} \subseteq Nat \X Nat \X Nat
    BY <2>1
  <2>3. QED
    BY <2>2 DEF Said
<1>2. t \in Seq(Said) /\ Len(t) = Len(s)
  <2>1. ASSUME NEW i \in 1 .. Len(s) PROVE t[i] \in Said
    <3>1. <<n, k, i>> \in Nat \X Nat \X Nat
      OBVIOUS
    <3>2. {<<n, k, i>>} \subseteq Nat \X Nat \X Nat
      BY <3>1
    <3>3. QED
      BY <3>2 DEF Said
  <2>2. t \in [1 .. Len(s) -> Said]
    BY <2>1
  <2> HIDE DEF t
  <2>3. QED
    BY <2>2
<1>3. ASSUME NEW i \in 1 .. Len(s) PROVE t[i].role = "tool" /\ t[i].calls \subseteq a.calls
  OBVIOUS
<1> HIDE DEF a, t
<1>4. b \in Seq(Said) /\ Len(b) = Len(s) + 1 /\ b[1] = a
  BY <1>1, <1>2
<1>5. ASSUME NEW i \in 2 .. Len(b) PROVE b[i].role = "tool" /\ b[i].calls \subseteq b[1].calls
  <2>1. PICK d \in 1 .. Len(s) : i = 1 + d
    <3>1. i - 1 \in 1 .. Len(s) /\ i = 1 + (i - 1)
      BY <1>4
    <3>2. QED
      BY <3>1
  <2>2. b[i] = t[d]
    BY <1>1, <1>2, <2>1
  <2>3. QED
    BY <1>3, <1>4, <2>2
<1> HIDE DEF b
<1>6. \A i \in 1 .. Len(b) : b[i].role \in {"assistant", "tool"}
  <2>1. \A i \in 1 .. Len(b) : i = 1 \/ i \in 2 .. Len(b)
    BY <1>4
  <2>2. QED
    BY <1>1, <1>4, <1>5, <2>1
<1>7. Users(b) = {}
  BY <1>4, <1>6 DEF Users
<1>8. ASSUME NEW i \in 1 .. Len(b), b[i].role = "tool" PROVE Follows(b, i)
  <2>1. i \in 2 .. Len(b) /\ 1 \in 1 .. i - 1
    BY <1>1, <1>4, <1>8
  <2>2. b[1].role = "assistant" /\ b[i].calls \subseteq b[1].calls
    BY <1>1, <1>4, <1>5, <2>1
  <2>3. \A d \in 1 .. i : b[d].role # "user"
    BY <1>6
  <2>4. QED
    BY <2>1, <2>2, <2>3 DEF Follows
<1>9. QED
  BY <1>4, <1>7, <1>8 DEF Paired, b, a, t

\* The messages of a turn: no question, and each result after its call.
LEMMA TurnIsPaired ==
  ASSUME NEW n \in Nat, NEW S, NEW ss \in Seq(Seq(S))
  PROVE  MessagesOf(n, ss) \in Seq(Said) /\ Paired(MessagesOf(n, ss)) /\ Users(MessagesOf(n, ss)) = {}
<1> DEFINE p == [k \in DOMAIN ss |->
                  <<[role |-> "assistant", calls |-> {<<n, k, i>> : i \in DOMAIN ss[k]}]>> \o
                  [i \in DOMAIN ss[k] |-> [role |-> "tool", calls |-> {<<n, k, i>>}]]]
           Good(b) == b \in Seq(Said) /\ Paired(b) /\ Users(b) = {}
<1>1. ASSUME NEW k \in 1 .. Len(ss) PROVE Good(p[k])
  <2>1. k \in Nat /\ ss[k] \in Seq(S) /\ Len(ss[k]) \in Nat /\ DOMAIN ss[k] = 1 .. Len(ss[k])
    OBVIOUS
  <2>2. p[k] = <<[role |-> "assistant", calls |-> {<<n, k, i>> : i \in DOMAIN ss[k]}]>> \o
               [i \in DOMAIN ss[k] |-> [role |-> "tool", calls |-> {<<n, k, i>>}]]
    <3>1. k \in DOMAIN ss
      OBVIOUS
    <3>2. QED
      BY <3>1, Zenon
  <2>3. QED
    BY <2>1, <2>2, StepIsPaired, Zenon
<1>2. Len(p) = Len(ss) /\ Len(p) \in Nat /\ DOMAIN p = 1 .. Len(ss)
  OBVIOUS
<1>3. MessagesOf(n, ss) = FlattenSeq(p)
  BY Zenon DEF MessagesOf
<1> HIDE DEF p
<1>4. CASE Len(p) = 0
  <2>1. FlattenSeq(p) = p
    BY <1>4 DEF FlattenSeq
  <2>2. p \in Seq(Said) /\ Len(p) = 0
    <3>1. p \in [1 .. 0 -> Said]
      BY <1>2, <1>4
    <3>2. QED
      BY <3>1, <1>4
  <2>3. Good(p)
    BY <2>2 DEF Paired, Users
  <2>4. QED
    BY <1>3, <2>1, <2>3
<1>5. CASE Len(p) # 0
  <2>1. PICK f : Joins(f, p, Len(p)) /\ FlattenSeq(p) = f[Len(p)]
    BY <1>2, <1>5, FlattenPrefixes
  <2> DEFINE T == {i \in Nat : i \in 1 .. Len(p) /\ ~ Good(f[i])}
  <2>2. T = {}
    <3> SUFFICES ASSUME T # {} PROVE FALSE
      OBVIOUS
    <3>1. PICK m \in T : \A j \in T : m <= j
      BY Least
    <3>2. m \in 1 .. Len(p) /\ ~ Good(f[m])
      OBVIOUS
    <3>3. f[m] = IF m = 1 THEN p[m] ELSE f[m - 1] \o p[m]
      BY <2>1, <3>2 DEF Joins
    <3>4. Good(p[m])
      BY <1>1, <1>2, <3>2
    <3>5. m # 1
      BY <3>2, <3>3, <3>4
    <3>6. Good(f[m - 1])
      <4>1. m - 1 \in 1 .. Len(p) /\ ~ (m <= m - 1)
        BY <1>2, <3>2, <3>5
      <4>2. m - 1 \notin T
        BY <3>1, <4>1
      <4>3. QED
        BY <4>1, <4>2
    <3>7. f[m] = f[m - 1] \o p[m]
      BY <3>3, <3>5
    <3>8. f[m] \in Seq(Said) /\ Paired(f[m])
      BY <3>4, <3>6, <3>7, PairedJoin
    <3>9. Users(f[m]) = {}
      <4>1. Users(f[m - 1] \o p[m]) = Users(f[m - 1]) \cup {Len(f[m - 1]) + i : i \in Users(p[m])}
        <5>1. \A g, b \in Seq(Said) : Users(g \o b) = Users(g) \cup {Len(g) + i : i \in Users(b)}
          BY UsersJoin, Zenon
        <5>2. QED
          BY <3>4, <3>6, <5>1, Zenon
      <4>2. {Len(f[m - 1]) + i : i \in Users(p[m])} = {}
        BY <3>4, Zenon
      <4>3. QED
        BY <3>6, <3>7, <4>1, <4>2, Zenon
    <3>10. QED
      BY <3>2, <3>8, <3>9
  <2>3. Len(p) \in 1 .. Len(p)
    BY <1>2, <1>5
  <2>4. Good(f[Len(p)])
    BY <1>2, <2>2, <2>3
  <2>5. QED
    BY <1>3, <2>1, <2>4
<1>6. QED
  BY <1>4, <1>5

\* The first of the numbers of a finite set: the others are behind it.
LEMMA FirstOf ==
  ASSUME NEW U \in SUBSET Nat, IsFiniteSet(U), U # {}
  PROVE  \E m \in U : /\ {j \in U : j <= m} = {m} /\ {j \in U : j > m} = U \ {m}
                      /\ IsFiniteSet(U \ {m}) /\ Cardinality(U \ {m}) = Cardinality(U) - 1
                      /\ \A j \in U : m <= j
<1>1. PICK m \in U : \A j \in U : m <= j
  BY Least
<1>2. m \in Nat /\ \A j \in U : j \in Nat
  OBVIOUS
<1>3. {j \in U : j <= m} = {m} /\ {j \in U : j > m} = U \ {m}
  <2>1. \A j \in U : (j <= m <=> j = m) /\ (j > m <=> j # m)
    BY <1>1, <1>2
  <2>2. QED
    BY <2>1, Zenon
<1>4. IsFiniteSet(U \ {m}) /\ Cardinality(U \ {m}) = Cardinality(U) - 1
  BY FS_RemoveElement
<1>5. QED
  BY <1>1, <1>3, <1>4

\* With one question too many there is one that opens the turns to keep.
LEMMA OpeningExists ==
  ASSUME NEW U \in SUBSET Nat, IsFiniteSet(U), NEW K \in Nat \ {0}, Cardinality(U) = K + 1
  PROVE  \E i \in U : Cardinality({j \in U : j >= i}) = K
<1>1. U # {}
  BY FS_EmptySet
<1>2. PICK m \in U : IsFiniteSet(U \ {m}) /\ Cardinality(U \ {m}) = Cardinality(U) - 1 /\ \A j \in U : m <= j
  BY <1>1, FirstOf
<1> DEFINE V == U \ {m}
<1>3. V \in SUBSET Nat /\ IsFiniteSet(V) /\ Cardinality(V) = K
  BY <1>2
<1>4. V # {}
  BY <1>3, FS_EmptySet
<1>5. PICK i \in V : \A j \in V : i <= j
  BY <1>3, <1>4, Least
<1>6. {j \in U : j >= i} = V
  <2>1. i \in Nat /\ m \in Nat /\ i # m /\ m <= i /\ i \in U
    BY <1>2
  <2>2. ASSUME NEW j \in U PROVE j >= i <=> j # m
    <3>1. j \in Nat
      OBVIOUS
    <3>2. j # m => j \in V
      OBVIOUS
    <3>3. QED
      BY <1>5, <2>1, <3>1, <3>2
  <2>3. QED
    BY <2>2
<1>7. QED
  BY <1>3, <1>6

\* What is left from a question on is paired and begins with it.
LEMMA PairedCut ==
  ASSUME NEW h \in Seq(Said), Paired(h), NEW c \in Users(h)
  PROVE  Paired(SubSeq(h, c, Len(h))) /\ Opens(SubSeq(h, c, Len(h)))
<1>1. c \in 1 .. Len(h) /\ h[c].role = "user"
  BY DEF Users
<1> PICK r : r = SubSeq(h, c, Len(h))
  OBVIOUS
<1>2. Len(r) = Len(h) + 1 - c /\ \A i \in 1 .. Len(r) : r[i] = h[c - 1 + i]
  BY <1>1
<1>3. ASSUME NEW i \in 1 .. Len(r), r[i].role = "tool" PROVE Follows(r, i)
  <2>1. PICK d \in 1 .. Len(h) : d = c - 1 + i
    BY <1>1, <1>2
  <2>2. h[d] = r[i] /\ h[d].role = "tool"
    BY <1>2, <1>3, <2>1
  <2>3. PICK j \in 1 .. d - 1 : /\ h[j].role = "assistant" /\ h[d].calls \subseteq h[j].calls
                                /\ \A k \in j .. d : h[k].role # "user"
    BY <2>2 DEF Paired, Follows
  <2>4. j > c
    <3>1. c \notin j .. d
      BY <1>1, <2>3
    <3>2. QED
      BY <1>1, <2>1, <2>3, <3>1
  <2>5. PICK l \in 1 .. i - 1 : j = c - 1 + l
    <3>1. j - c + 1 \in 1 .. i - 1 /\ j = c - 1 + (j - c + 1)
      BY <1>1, <2>1, <2>3, <2>4
    <3>2. QED
      BY <3>1
  <2>6. r[l] = h[j]
    BY <1>1, <1>2, <2>5
  <2>7. ASSUME NEW k \in l .. i PROVE r[k].role # "user"
    <3>1. k \in 1 .. Len(r) /\ c - 1 + k \in j .. d
      BY <1>1, <1>2, <2>1, <2>5
    <3>2. r[k] = h[c - 1 + k]
      BY <1>2, <3>1
    <3>3. QED
      BY <2>3, <3>1, <3>2
  <2>8. QED
    BY <2>2, <2>3, <2>5, <2>6, <2>7 DEF Follows
<1>4. Opens(r)
  <2>1. 1 \in 1 .. Len(r) /\ c - 1 + 1 = c
    BY <1>1, <1>2
  <2>2. QED
    BY <1>1, <1>2, <2>1 DEF Opens
<1>5. QED
  BY <1>3, <1>4 DEF Paired

\* A question is added: at most the turns to keep are left, the last is the new one.
LEMMA TrimAsks ==
  ASSUME NEW h \in Seq(Said), Opens(h), Fits(h), Paired(h)
  PROVE  LET r == Trim(Append(h, UserMessage)) IN
           r \in Seq(Said) /\ r # <<>> /\ Opens(r) /\ Fits(r) /\ Paired(r)
<1> PICK g : g = Append(h, UserMessage)
  OBVIOUS
<1>1. UserMessage \in Said /\ UserMessage.role = "user"
  BY DEF UserMessage, Said
<1>2. /\ g \in Seq(Said) /\ Users(g) = Users(h) \cup {Len(h) + 1} /\ IsFiniteSet(Users(g))
      /\ Cardinality(Users(g)) = Cardinality(Users(h)) + 1
  BY <1>1, UsersAppend
<1>3. Len(g) = Len(h) + 1 /\ Len(h) \in Nat /\ g[Len(h) + 1] = UserMessage /\ \A i \in 1 .. Len(h) : g[i] = h[i]
  OBVIOUS
<1>4. Paired(g)
  <2>1. ASSUME NEW i \in 1 .. Len(g), g[i].role = "tool" PROVE Follows(g, i)
    <3>1. i \in 1 .. Len(h) /\ h[i].role = "tool"
      BY <1>1, <1>3, <2>1
    <3>2. PICK j \in 1 .. i - 1 : /\ h[j].role = "assistant" /\ h[i].calls \subseteq h[j].calls
                                  /\ \A k \in j .. i : h[k].role # "user"
      BY <3>1 DEF Paired, Follows
    <3>3. \A k \in j .. i : g[k] = h[k]
      BY <1>3, <3>1, <3>2
    <3>4. g[j] = h[j] /\ g[i] = h[i]
      BY <3>1, <3>2, <3>3
    <3>5. g[j].role = "assistant" /\ g[i].calls \subseteq g[j].calls /\ \A k \in j .. i : g[k].role # "user"
      BY <3>2, <3>3, <3>4
    <3>6. QED
      BY <3>5 DEF Follows
  <2>2. QED
    BY <2>1 DEF Paired
<1>5. Opens(g)
  <2>1. CASE h = <<>>
    BY <1>1, <1>3, <2>1 DEF Opens
  <2>2. CASE h # <<>>
    BY <1>3, <2>2 DEF Opens
  <2>3. QED
    BY <2>1, <2>2
<1>6. CASE KeepTurns = 0 \/ Cardinality(Users(g)) <= KeepTurns
  <2>1. Trim(g) = g
    BY <1>6, Zenon DEF Trim
  <2>2. Fits(g) /\ g # <<>>
    BY <1>2, <1>3, <1>6 DEF Fits
  <2>3. QED
    BY <1>2, <1>4, <1>5, <2>1, <2>2
<1>7. CASE ~ (KeepTurns = 0 \/ Cardinality(Users(g)) <= KeepTurns)
  <2>1. KeepTurns \in Nat \ {0} /\ Cardinality(Users(g)) = KeepTurns + 1
    <3>1. KeepTurns \in Nat /\ KeepTurns > 0 /\ Cardinality(Users(h)) \in Nat /\ Cardinality(Users(h)) <= KeepTurns
      BY <1>7, BoundsAssumption, FS_CardinalityType DEF Fits
    <3>2. QED
      BY <1>2, <1>7, <3>1
  <2>2. Users(g) \in SUBSET Nat
    BY <1>2 DEF Users
  <2>3. \E i \in Users(g) : Cardinality({j \in Users(g) : j >= i}) = KeepTurns
    BY <1>2, <2>1, <2>2, OpeningExists, Zenon
  <2>4. PICK c \in Users(g) : /\ Cardinality({j \in Users(g) : j >= c}) = KeepTurns
                              /\ c = CHOOSE i \in Users(g) : Cardinality({j \in Users(g) : j >= i}) = KeepTurns
    BY <2>3, Zenon
  <2>5. Trim(g) = SubSeq(g, c, Len(g))
    BY <1>7, <2>4, Zenon DEF Trim
  <2> PICK r : r = SubSeq(g, c, Len(g))
    OBVIOUS
  <2>6. c \in 1 .. Len(g) + 1 /\ c \in 1 .. Len(g)
    BY <1>2, <1>3 DEF Users
  <2>7. /\ r \in Seq(Said) /\ Len(r) = Len(g) + 1 - c
        /\ IsFiniteSet(Users(r)) /\ Cardinality(Users(r)) = Cardinality({j \in Users(g) : j >= c})
    <3>1. \A f \in Seq(Said) : IsFiniteSet(Users(f)) => \A d \in 1 .. Len(f) + 1 :
            /\ SubSeq(f, d, Len(f)) \in Seq(Said) /\ Len(SubSeq(f, d, Len(f))) = Len(f) + 1 - d
            /\ IsFiniteSet(Users(SubSeq(f, d, Len(f))))
            /\ Cardinality(Users(SubSeq(f, d, Len(f)))) = Cardinality({j \in Users(f) : j >= d})
      BY UsersCut, Zenon
    <3>2. QED
      BY <1>2, <2>6, <3>1, Zenon
  <2>8. Paired(r) /\ Opens(r)
    BY <1>2, <1>4, PairedCut
  <2>9. r # <<>> /\ Fits(r)
    <3>1. Cardinality(Users(r)) = KeepTurns
      BY <2>4, <2>7, Zenon
    <3>2. Len(r) # 0
      BY <1>3, <2>6, <2>7
    <3>3. Cardinality(Users(r)) <= KeepTurns /\ IsFiniteSet(Users(r))
      BY <2>1, <2>7, <3>1
    <3>4. Fits(r)
      BY <3>3, Zenon DEF Fits
    <3>5. r # <<>>
      <4>1. Len(<<>>) = 0
        OBVIOUS
      <4>2. Len(r) # 0
        BY <3>2
      <4>3. QED
        BY <4>1, <4>2, Zenon
    <3>6. QED
      BY <3>4, <3>5
  <2>10. QED
    BY <2>5, <2>7, <2>8, <2>9
<1>8. QED
  BY <1>6, <1>7

\* What the terminal remembers with tool calls stays whole.
LEMMA RememberedWhole ==
  ASSUME NEW h \in Seq(Said), Opens(h), Fits(h), Paired(h), NEW n \in Nat, NEW S, NEW ss \in Seq(Seq(S))
  PROVE  LET r == Remembered(h, n, ss) IN r \in Seq(Said) /\ Opens(r) /\ Fits(r) /\ Paired(r)
<1> PICK a : a = Trim(Append(h, UserMessage))
  OBVIOUS
<1> PICK b : b = MessagesOf(n, ss)
  OBVIOUS
<1>1. a \in Seq(Said) /\ a # <<>> /\ Opens(a) /\ Fits(a) /\ Paired(a)
  BY TrimAsks
<1>2. b \in Seq(Said) /\ Paired(b) /\ Users(b) = {}
  BY TurnIsPaired
<1> PICK r : r = a \o b
  OBVIOUS
<1>3. r \in Seq(Said) /\ Paired(r)
  BY <1>1, <1>2, PairedJoin
<1>4. Users(r) = Users(a)
  <2>1. \A g, d \in Seq(Said) : Users(g \o d) = Users(g) \cup {Len(g) + i : i \in Users(d)}
    BY UsersJoin, Zenon
  <2>2. {Len(a) + i : i \in Users(b)} = {}
    BY <1>2, Zenon
  <2>3. Users(a \o b) = Users(a) \cup {Len(a) + i : i \in Users(b)}
    BY <1>1, <1>2, <2>1, Zenon
  <2>4. QED
    BY <2>2, <2>3
<1>5. Fits(r)
  BY <1>1, <1>4 DEF Fits
<1>6. Opens(r)
  BY <1>1, <1>2 DEF Opens
<1>7. Trim(r) = r
  <2>1. KeepTurns = 0 \/ Cardinality(Users(r)) <= KeepTurns
    BY <1>5, BoundsAssumption DEF Fits
  <2>2. QED
    BY <2>1, Zenon DEF Trim
<1>8. Remembered(h, n, ss) = r
  BY <1>7, Zenon DEF Remembered
<1>9. QED
  BY <1>3, <1>5, <1>6, <1>8

\* Memory in RAG mode: with one question too many, the first goes with its answer.
LEMMA HistoryAsks ==
  ASSUME NEW h \in Seq(Line), NEW u \in Line, u.role = "user", Fits(h), InTurns(h),
         h # <<>> => h[Len(h)].role = "assistant"
  PROVE  LET r == TrimHistory(Append(h, u)) IN
           r \in Seq(Line) /\ r # <<>> /\ r[Len(r)] = u /\ Fits(r) /\ InTurns(r)
<1> PICK g : g = Append(h, u)
  OBVIOUS
<1>1. /\ g \in Seq(Line) /\ Users(g) = Users(h) \cup {Len(h) + 1} /\ IsFiniteSet(Users(g))
      /\ Cardinality(Users(g)) = Cardinality(Users(h)) + 1
  BY UsersAppend
<1>2. Len(g) = Len(h) + 1 /\ Len(h) \in Nat /\ g[Len(g)] = u /\ \A i \in 1 .. Len(h) : g[i] = h[i] /\ g[i] \in Line
  OBVIOUS
<1>3. InTurns(g)
  <2>1. ASSUME NEW i \in 1 .. Len(g), g[i].role = "assistant" PROVE i > 1 /\ g[i - 1] = [role |-> "user", n |-> g[i].n]
    <3>1. i \in 1 .. Len(h) /\ h[i] = g[i]
      BY <1>2, <2>1
    <3>2. i > 1 /\ h[i - 1] = [role |-> "user", n |-> h[i].n]
      BY <2>1, <3>1 DEF InTurns
    <3>3. i - 1 \in 1 .. Len(h)
      BY <3>1, <3>2
    <3>4. QED
      BY <1>2, <3>1, <3>2, <3>3
  <2>2. ASSUME NEW i \in 1 .. Len(g) - 1, g[i].role = "user" PROVE g[i + 1].role = "assistant"
    <3>1. i \in 1 .. Len(h) /\ h[i].role = "user" /\ h # <<>>
      BY <1>2, <2>2
    <3>2. i # Len(h)
      BY <3>1
    <3>3. i \in 1 .. Len(h) - 1 /\ i + 1 \in 1 .. Len(h)
      BY <1>2, <3>1, <3>2
    <3>4. h[i + 1].role = "assistant"
      BY <3>1, <3>3 DEF InTurns
    <3>5. QED
      BY <1>2, <3>3, <3>4
  <2>3. QED
    BY <2>1, <2>2 DEF InTurns
<1>4. KeepTurns \in Nat /\ Cardinality(Users(h)) \in Nat /\ (KeepTurns > 0 => Cardinality(Users(h)) <= KeepTurns)
  BY BoundsAssumption, FS_CardinalityType DEF Fits
<1> DEFINE Excess == Cardinality(Users(g)) - KeepTurns
<1>5. CASE KeepTurns = 0 \/ Excess <= 0
  <2>1. TrimHistory(g) = g
    BY <1>5, Zenon DEF TrimHistory
  <2>2. Fits(g) /\ g # <<>>
    BY <1>1, <1>2, <1>4, <1>5 DEF Fits
  <2>3. QED
    BY <1>1, <1>2, <1>3, <2>1, <2>2
<1>6. CASE ~ (KeepTurns = 0 \/ Excess <= 0)
  <2>1. KeepTurns > 0 /\ Excess = 1 /\ Cardinality(Users(g)) = KeepTurns + 1
    BY <1>1, <1>4, <1>6
  <2> DEFINE One(i) == Cardinality({j \in Users(g) : j <= i}) = Excess
  <2>2. Users(g) \in SUBSET Nat /\ Users(g) # {}
    <3>1. Users(g) \subseteq Nat
      BY <1>1 DEF Users
    <3>2. QED
      BY <1>1, <3>1
  <2>3. \E m \in Users(g) : One(m)
    <3>1. PICK m \in Users(g) : {j \in Users(g) : j <= m} = {m}
      BY <1>1, <2>2, FirstOf
    <3>2. Cardinality({m}) = 1
      BY FS_Singleton
    <3>3. One(m)
      BY <2>1, <3>1, <3>2
    <3>4. QED
      BY <3>3
  <2>4. PICK last \in Users(g) : One(last) /\ last = CHOOSE i \in Users(g) : One(i)
    BY <2>3, Zenon
  <2>5. last \in 1 .. Len(g) /\ g[last].role = "user"
    BY <1>1 DEF Users
  <2>6. \A j \in Users(g) : j = last \/ j > last
    <3> DEFINE A == {j \in Users(g) : j <= last}
    <3>1. A \subseteq Users(g)
      OBVIOUS
    <3>2. IsFiniteSet(A) /\ Cardinality(A) = 1
      BY <1>1, <2>1, <2>4, <3>1, FS_Subset
    <3>3. PICK x : A = {x}
      BY <3>2, FS_Singleton
    <3>4. last \in A
      BY <2>5
    <3>5. ASSUME NEW j \in Users(g), j # last PROVE j > last
      <4>1. j \notin A
        BY <3>3, <3>4, <3>5
      <4>2. j \in Nat /\ last \in Nat
        BY <2>2
      <4>3. QED
        BY <4>1, <4>2
    <3>6. QED
      BY <3>5
  <2>7. last <= Len(h)
    <3>1. last # Len(g)
      <4> SUFFICES ASSUME last = Len(g) PROVE FALSE
        OBVIOUS
      <4>1. Users(g) = {last}
        <5>1. ASSUME NEW j \in Users(g) PROVE j = last
          <6>1. j \in 1 .. Len(g)
            BY <1>1 DEF Users
          <6>2. QED
            BY <1>2, <2>6, <6>1
        <5>2. QED
          BY <5>1
      <4>2. Cardinality(Users(g)) = 1
        BY <4>1, FS_Singleton
      <4>3. QED
        BY <1>4, <2>1, <4>2
    <3>2. QED
      BY <1>2, <2>5, <3>1
  <2>8. last < Len(h) /\ g[last + 1].role = "assistant"
    <3>1. h[last].role = "user" /\ h # <<>>
      BY <1>2, <2>5, <2>7
    <3>2. last # Len(h)
      BY <3>1
    <3>3. last \in 1 .. Len(g) - 1
      BY <1>2, <2>5, <2>7
    <3>4. QED
      BY <1>2, <1>3, <2>5, <2>7, <3>2, <3>3 DEF InTurns
  <2>9. TrimHistory(g) = SubSeq(g, last + 2, Len(g))
    <3>1. last < Len(g) /\ g[last + 1].role = "assistant"
      BY <1>2, <2>5, <2>8
    <3>2. QED
      BY <1>6, <2>4, <3>1, Zenon DEF TrimHistory
  <2> PICK c : c = last + 2
    OBVIOUS
  <2>10. c \in 1 .. Len(g) /\ c \in 1 .. Len(g) + 1 /\ c = last + 2
    BY <1>2, <2>5, <2>8
  <2> PICK r : r = SubSeq(g, c, Len(g))
    OBVIOUS
  <2>11. /\ r \in Seq(Line) /\ Len(r) = Len(g) + 1 - c /\ \A i \in 1 .. Len(r) : r[i] = g[c - 1 + i]
         /\ IsFiniteSet(Users(r)) /\ Cardinality(Users(r)) = Cardinality({j \in Users(g) : j >= c})
    <3>1. \A f \in Seq(Line) : IsFiniteSet(Users(f)) => \A d \in 1 .. Len(f) + 1 :
            /\ SubSeq(f, d, Len(f)) \in Seq(Line) /\ Len(SubSeq(f, d, Len(f))) = Len(f) + 1 - d
            /\ \A i \in 1 .. Len(SubSeq(f, d, Len(f))) : SubSeq(f, d, Len(f))[i] = f[d - 1 + i]
            /\ IsFiniteSet(Users(SubSeq(f, d, Len(f))))
            /\ Cardinality(Users(SubSeq(f, d, Len(f)))) = Cardinality({j \in Users(f) : j >= d})
      BY UsersCut, Zenon
    <3>2. QED
      BY <1>1, <2>10, <3>1, Zenon
  <2>12. Cardinality(Users(r)) = KeepTurns
    <3>1. {j \in Users(g) : j >= c} = Users(g) \ {last}
      <4>1. ASSUME NEW j \in Users(g) PROVE j >= c <=> j # last
        <5>1. j \in 1 .. Len(g) /\ g[j].role = "user"
          BY <1>1 DEF Users
        <5>2. j # last + 1
          BY <2>8, <5>1
        <5>3. QED
          BY <2>5, <2>6, <2>10, <5>1, <5>2
      <4>2. QED
        BY <4>1
    <3>2. Cardinality(Users(g) \ {last}) = Cardinality(Users(g)) - 1
      BY <1>1, FS_RemoveElement
    <3>3. Cardinality(Users(r)) = Cardinality(Users(g)) - 1
      BY <2>11, <3>1, <3>2, Zenon
    <3>4. QED
      BY <1>4, <2>1, <3>3
  <2>13. Fits(r) /\ r # <<>> /\ r[Len(r)] = u
    <3>1. Len(r) > 0 /\ Len(r) \in 1 .. Len(r) /\ c - 1 + Len(r) = Len(g)
      BY <1>2, <2>10, <2>11, SMTT(60)
    <3>2. r[Len(r)] = u
      BY <1>2, <2>11, <3>1
    <3>3. Fits(r)
      <4>1. Cardinality(Users(r)) <= KeepTurns
        BY <1>4, <2>12
      <4>2. QED
        BY <2>11, <4>1 DEF Fits
    <3>4. r # <<>>
      <4>1. Len(r) # 0
        BY <3>1
      <4>2. Len(<<>>) = 0
        OBVIOUS
      <4>3. QED
        BY <4>1, <4>2, Zenon
    <3>5. QED
      BY <3>2, <3>3, <3>4
  <2>14. InTurns(r)
    <3>1. ASSUME NEW i \in 1 .. Len(r), r[i].role = "assistant" PROVE i > 1 /\ r[i - 1] = [role |-> "user", n |-> r[i].n]
      <4>1. PICK d \in 1 .. Len(g) : d = c - 1 + i
        <5>1. PICK y \in Nat : y = Len(g)
          BY <1>2
        <5>2. c \in 1 .. y /\ Len(r) = y + 1 - c
          BY <2>10, <2>11, <5>1, Zenon
        <5>3. i \in 1 .. (y + 1 - c)
          BY <5>2, Zenon
        <5>4. c - 1 + i \in 1 .. y
          BY <5>2, <5>3
        <5>5. QED
          BY <5>1, <5>4
      <4>2. r[i] = g[d]
        BY <2>11, <4>1
      <4>3. d > 1 /\ g[d - 1] = [role |-> "user", n |-> g[d].n]
        BY <1>3, <3>1, <4>2 DEF InTurns
      <4>4. i # 1
        <5>1. i = 1 => d - 1 = last + 1
          BY <2>5, <2>10, <4>1
        <5>2. g[d - 1].role = "user"
          BY <4>3
        <5>3. i = 1 => g[d - 1].role = g[last + 1].role
          BY <5>1
        <5>4. QED
          BY <2>8, <5>2, <5>3
      <4>5. i - 1 \in 1 .. Len(r) /\ c - 1 + (i - 1) = d - 1 /\ i > 1
        <5>1. Len(r) \in Nat /\ c \in Nat /\ i \in 1 .. Len(r)
          BY <2>10, <2>11
        <5>2. i > 1 /\ i - 1 \in 1 .. Len(r)
          BY <4>4, <5>1
        <5>3. c - 1 + (i - 1) = d - 1
          BY <4>1, <5>1
        <5>4. QED
          BY <5>2, <5>3
      <4>6. r[i - 1] = g[c - 1 + (i - 1)]
        BY <2>11, <4>5, Zenon
      <4>7. QED
        BY <4>2, <4>3, <4>5, <4>6
    <3>2. ASSUME NEW i \in 1 .. Len(r) - 1, r[i].role = "user" PROVE r[i + 1].role = "assistant"
      <4>1. /\ i \in 1 .. Len(r) /\ i + 1 \in 1 .. Len(r) /\ c - 1 + (i + 1) = (c - 1 + i) + 1
            /\ c - 1 + i \in 1 .. Len(g) - 1
        BY <1>2, <2>10, <2>11, SMTT(60)
      <4>2. r[i] = g[c - 1 + i] /\ r[i + 1] = g[(c - 1 + i) + 1]
        BY <2>11, <4>1
      <4>3. \A d \in 1 .. Len(g) - 1 : g[d].role = "user" => g[d + 1].role = "assistant"
        BY <1>3 DEF InTurns
      <4>4. g[c - 1 + i].role = "user"
        BY <3>2, <4>2
      <4>5. g[(c - 1 + i) + 1].role = "assistant"
        BY <4>1, <4>3, <4>4, Zenon
      <4>6. QED
        BY <4>2, <4>5
    <3>3. /\ \A i \in 1 .. Len(r) : r[i].role = "assistant" =>
               i > 1 /\ r[i - 1] = [role |-> "user", n |-> r[i].n]
          /\ \A i \in 1 .. Len(r) - 1 : r[i].role = "user" => r[i + 1].role = "assistant"
      BY <3>1, <3>2, Zenon
    <3>4. QED
      BY <3>3, Zenon DEF InTurns
  <2>15. QED
    BY <2>9, <2>10, <2>11, <2>13, <2>14
<1>7. QED
  BY <1>5, <1>6

\* What the terminal remembers in RAG mode stays whole.
LEMMA HistoryWhole ==
  ASSUME NEW h \in Seq(Line), NEW m \in Nat, Fits(h), InTurns(h), h # <<>> => h[Len(h)].role = "assistant"
  PROVE  LET r == TrimHistory(TrimHistory(Append(h, [role |-> "user", n |-> m])) \o <<[role |-> "assistant", n |-> m]>>)
         IN r \in Seq(Line) /\ Fits(r) /\ InTurns(r) /\ r[Len(r)].role = "assistant"
<1> PICK u : u = [role |-> "user", n |-> m]
  OBVIOUS
<1> PICK x : x = [role |-> "assistant", n |-> m]
  OBVIOUS
<1> PICK a : a = TrimHistory(Append(h, u))
  OBVIOUS
<1>1. u \in Line /\ u.role = "user" /\ x \in Line /\ x.role = "assistant" /\ x.n = m
  BY DEF Line
<1>2. a \in Seq(Line) /\ a # <<>> /\ a[Len(a)] = u /\ Fits(a) /\ InTurns(a)
  BY <1>1, HistoryAsks
<1> PICK r : r = a \o <<x>>
  OBVIOUS
<1>3. r \in Seq(Line) /\ Len(r) = Len(a) + 1 /\ Len(a) \in Nat /\ Len(a) > 0 /\ r[Len(a) + 1] = x
      /\ \A i \in 1 .. Len(a) : r[i] = a[i]
  BY <1>1, <1>2
<1>4. Users(r) = Users(a)
  <2>1. \A i \in 1 .. Len(r) : i = Len(a) + 1 \/ i \in 1 .. Len(a)
    BY <1>3
  <2>2. QED
    BY <1>1, <1>2, <1>3, <2>1, SMTT(60) DEF Users
<1>5. Fits(r)
  BY <1>2, <1>4 DEF Fits
<1>6. InTurns(r)
  <2>1. ASSUME NEW i \in 1 .. Len(r), r[i].role = "assistant" PROVE i > 1 /\ r[i - 1] = [role |-> "user", n |-> r[i].n]
    <3>1. CASE i = Len(a) + 1
      BY <1>1, <1>2, <1>3, <3>1
    <3>2. CASE i # Len(a) + 1
      <4>1. i \in 1 .. Len(a) /\ a[i] = r[i]
        BY <1>3, <3>2
      <4>2. i > 1 /\ a[i - 1] = [role |-> "user", n |-> a[i].n]
        BY <1>2, <2>1, <4>1 DEF InTurns
      <4>3. i - 1 \in 1 .. Len(a)
        BY <4>1, <4>2
      <4>4. QED
        BY <1>3, <4>1, <4>2, <4>3
    <3>3. QED
      BY <3>1, <3>2
  <2>2. ASSUME NEW i \in 1 .. Len(r) - 1, r[i].role = "user" PROVE r[i + 1].role = "assistant"
    <3>1. CASE i = Len(a)
      BY <1>1, <1>3, <3>1
    <3>2. CASE i # Len(a)
      <4>1. i \in 1 .. Len(a) - 1 /\ i \in 1 .. Len(a) /\ i + 1 \in 1 .. Len(a)
        BY <1>3, <3>2
      <4>2. a[i].role = "user" /\ r[i + 1] = a[i + 1]
        BY <1>3, <2>2, <4>1
      <4>3. QED
        BY <1>2, <4>1, <4>2 DEF InTurns
    <3>3. QED
      BY <3>1, <3>2
  <2>3. QED
    BY <2>1, <2>2 DEF InTurns
<1>7. TrimHistory(r) = r
  <2>1. KeepTurns = 0 \/ Cardinality(Users(r)) - KeepTurns <= 0
    <3>1. Cardinality(Users(r)) \in Nat
      BY <1>5, FS_CardinalityType DEF Fits
    <3>2. QED
      BY <1>5, <3>1, BoundsAssumption DEF Fits
  <2>2. QED
    BY <2>1, Zenon DEF TrimHistory
<1>8. TrimHistory(TrimHistory(Append(h, [role |-> "user", n |-> m])) \o <<[role |-> "assistant", n |-> m]>>) = r
  BY <1>7
<1>9. r[Len(r)].role = "assistant"
  BY <1>1, <1>3
<1>10. QED
  BY <1>3, <1>5, <1>6, <1>8, <1>9, Zenon

\* An empty memory is whole.
LEMMA NothingIsWhole ==
  ASSUME NEW h, h = <<>>
  PROVE  (\A S : h \in Seq(S)) /\ Opens(h) /\ Fits(h) /\ Paired(h) /\ InTurns(h)
<1>1. \A S : h \in Seq(S)
  OBVIOUS
<1>2. Len(h) = 0 /\ DOMAIN h = {}
  OBVIOUS
<1>3. Opens(h) /\ Paired(h) /\ InTurns(h)
  BY <1>2 DEF Opens, Paired, InTurns
<1>4. Fits(h)
  <2>1. Users(h) = {}
    BY <1>2 DEF Users
  <2>2. IsFiniteSet(Users(h)) /\ Cardinality(Users(h)) = 0
    BY <2>1, FS_EmptySet, Zenon
  <2>3. KeepTurns > 0 => 0 <= KeepTurns
    BY BoundsAssumption
  <2>4. QED
    BY <2>2, <2>3, Zenon DEF Fits
<1>5. QED
  BY <1>1, <1>3, <1>4

\* In the initial states nothing is remembered.
LEMMA MemoryInit == Init => MemoryInv
<1> SUFFICES ASSUME Init PROVE MemoryInv
  OBVIOUS
<1>1. convo = <<>> /\ history = <<>> /\ asked = 0
  BY DEF Init
<1>2. /\ convo \in Seq(Said) /\ Opens(convo) /\ Fits(convo) /\ Paired(convo)
      /\ history \in Seq(Line) /\ Fits(history) /\ InTurns(history)
  BY <1>1, NothingIsWhole, Zenon
<1>3. asked \in Nat
  BY <1>1
<1>4. QED
  BY <1>1, <1>2, <1>3, Zenon DEF MemoryInv

\* A turn that the terminal keeps.
LEMMA KeepKeeps ==
  ASSUME MemoryInv, TurnTypes, client = "repl", turn.surface = client, Keep, asked' = asked
  PROVE  MemoryInv'
<1>1. turn.mode \in {"agent", "rag"} /\ turn.surface = "repl"
  BY DEF TurnTypes, Turns
<1>2. CASE turn.mode = "agent"
  <2>1. convo' = Remembered(convo, asked, steps) /\ history' = history
    BY <1>1, <1>2, Zenon DEF Keep
  <2>2. /\ Remembered(convo, asked, steps) \in Seq(Said) /\ Opens(Remembered(convo, asked, steps))
        /\ Fits(Remembered(convo, asked, steps)) /\ Paired(Remembered(convo, asked, steps))
    BY RememberedWhole, Zenon DEF MemoryInv, TurnTypes
  <2>3. QED
    BY <2>1, <2>2 DEF MemoryInv
<1>3. CASE turn.mode = "rag"
  <2> PICK r : r = TrimHistory(TrimHistory(Append(history, Item("user"))) \o <<Item("assistant")>>)
    OBVIOUS
  <2>1. history' = r /\ convo' = convo
    BY <1>1, <1>3 DEF Keep
  <2>2. r \in Seq(Line) /\ Fits(r) /\ InTurns(r) /\ r[Len(r)].role = "assistant"
    BY HistoryWhole DEF MemoryInv, Item
  <2>3. QED
    BY <2>1, <2>2 DEF MemoryInv
<1>4. QED
  BY <1>1, <1>2, <1>3

\* A turn comes to its end, kept or not.
LEMMA EndTurnKeeps ==
  ASSUME MemoryInv, ThreadsInv, NEW broken \in BOOLEAN, EndTurn(broken), asked' = asked,
         client = "repl" => handler = "returned"
  PROVE  MemoryInv'
<1>1. client \in Surfaces /\ (UNCHANGED memory \/ Keep)
  BY DEF EndTurn, ThreadsInv, TurnTypes
<1>2. CASE UNCHANGED memory
  BY <1>2 DEF memory, MemoryInv
<1>3. CASE Keep /\ client # "repl"
  <2>1. client = "admin" \/ client = "web"
    BY <1>1, <1>3 DEF Surfaces
  <2>2. turn.surface # "repl"
    BY <1>3 DEF ThreadsInv, Stages, Idle
  <2>3. UNCHANGED memory
    BY <1>3, <2>1, <2>2 DEF Keep
  <2>4. QED
    BY <1>2, <2>3
<1>4. CASE Keep /\ client = "repl"
  <2>1. turn.surface = client
    BY <1>4 DEF ThreadsInv, Stages
  <2>2. QED
    BY <1>4, <2>1, KeepKeeps DEF ThreadsInv
<1>5. QED
  BY <1>1, <1>2, <1>3, <1>4

\* Every step keeps the memory whole.
LEMMA MemoryNext == MemoryInv /\ ThreadsInv /\ [Next]_vars => MemoryInv'
<1> SUFFICES ASSUME MemoryInv, ThreadsInv, [Next]_vars PROVE MemoryInv'
  OBVIOUS
<1>1. CASE UNCHANGED <<convo, history>> /\ asked' \in {asked, asked + 1}
  BY <1>1 DEF MemoryInv
<1>2. CASE (LoopStep \/ HandlerStep) /\ Outside
  BY <1>1, <1>2 DEF Outside, threads, memory, bounds
<1>3. CASE Saving
  <2>1. UNCHANGED <<convo, history, asked>>
    BY <1>3 DEF Saving, Created, Added, SaveFails, memory, bounds
  <2>2. QED
    BY <1>1, <2>1
<1>4. CASE Moving
  <2>1. CASE Clear
    <3>1. convo' = <<>> /\ history' = <<>> /\ asked' = asked
      BY <2>1 DEF Clear
    <3>2. (\A S : convo' \in Seq(S)) /\ Opens(convo') /\ Fits(convo') /\ Paired(convo')
      BY <3>1, NothingIsWhole, Zenon
    <3>3. (\A S : history' \in Seq(S)) /\ Fits(history') /\ InTurns(history')
      BY <3>1, NothingIsWhole, Zenon
    <3>4. QED
      BY <3>1, <3>2, <3>3 DEF MemoryInv
  <2>2. CASE NewChat \/ \E c \in Conversations : Open(c) \/ Delete(c)
    <3>1. UNCHANGED <<convo, history, asked>>
      BY <2>2 DEF NewChat, Open, Delete, Switch, memory
    <3>2. QED
      BY <1>1, <3>1
  <2>3. QED
    BY <1>4, <2>1, <2>2 DEF Moving
<1>5. CASE Ask
  BY <1>1, <1>5 DEF Ask, memory
<1>6. CASE Complete
  <2>1. EndTurn(FALSE) /\ asked' = asked /\ handler = "returned"
    BY <1>6 DEF Complete, bounds
  <2>2. QED
    BY <2>1, EndTurnKeeps
<1>7. CASE Stop
  <2>1. EndTurn(FALSE) /\ asked' = asked /\ client # "repl"
    BY <1>7 DEF Stop, bounds
  <2>2. QED
    BY <2>1, EndTurnKeeps
<1>8. CASE Break
  <2>1. EndTurn(TRUE) /\ asked' = asked /\ client # "repl"
    BY <1>8 DEF Break
  <2>2. QED
    BY <2>1, EndTurnKeeps
<1>9. CASE AskAgain
  BY <1>1, <1>9 DEF AskAgain, threads, memory, bounds
<1>10. CASE Expire
  BY <1>1, <1>10 DEF Expire, threads, memory
<1>11. CASE UNCHANGED vars
  BY <1>1, <1>11 DEF vars, threads, memory, bounds
<1>12. QED
  BY <1>2, <1>3, <1>4, <1>5, <1>6, <1>7, <1>8, <1>9, <1>10, <1>11 DEF Next

\* What is kept of both memories is what the talk needs.
LEMMA MemoryFollows == MemoryInv => MemoryWhole
<1> SUFFICES ASSUME MemoryInv PROVE MemoryWhole
  OBVIOUS
<1>1. ASSUME history # <<>> PROVE history[1].role = "user"
  <2>1. history \in Seq(Line) /\ InTurns(history)
    BY DEF MemoryInv
  <2>2. 1 \in 1 .. Len(history) /\ history[1] \in Line
    BY <1>1, <2>1
  <2>3. history[1].role # "assistant"
    <3> SUFFICES ASSUME history[1].role = "assistant" PROVE FALSE
      OBVIOUS
    <3>1. 1 > 1
      BY <2>1, <2>2, Zenon DEF InTurns
    <3>2. QED
      BY <3>1
  <2>4. QED
    BY <2>2, <2>3 DEF Line
<1>2. \A h \in {convo, history} : h # <<>> => Head(h).role = "user"
  <2>1. convo # <<>> => Head(convo) = convo[1] /\ convo[1].role = "user"
    BY DEF MemoryInv, Opens
  <2>2. history # <<>> => Head(history) = history[1]
    BY DEF MemoryInv
  <2>3. QED
    BY <1>1, <2>1, <2>2
<1>3. KeepTurns > 0 => \A h \in {convo, history} : Cardinality(Users(h)) <= KeepTurns
  BY DEF MemoryInv, Fits
<1>4. ASSUME NEW i \in DOMAIN convo, convo[i].role = "tool"
      PROVE  \E j \in 1 .. i - 1 : /\ convo[j].role = "assistant" /\ convo[i].calls \subseteq convo[j].calls
                                  /\ Users(convo) \cap j .. i = {}
  <2>1. i \in 1 .. Len(convo) /\ DOMAIN convo = 1 .. Len(convo)
    BY DEF MemoryInv
  <2>2. PICK j \in 1 .. i - 1 : /\ convo[j].role = "assistant" /\ convo[i].calls \subseteq convo[j].calls
                                /\ \A k \in j .. i : convo[k].role # "user"
    BY <1>4, <2>1 DEF MemoryInv, Paired, Follows
  <2>3. Users(convo) \cap j .. i = {}
    BY <2>2 DEF Users
  <2>4. QED
    BY <2>2, <2>3
<1>5. ASSUME NEW i \in DOMAIN history, history[i].role = "assistant"
      PROVE  i > 1 /\ history[i - 1] = [role |-> "user", n |-> history[i].n]
  <2>1. i \in 1 .. Len(history)
    BY DEF MemoryInv
  <2>2. QED
    BY <1>5, <2>1 DEF MemoryInv, InTurns
<1>6. QED
  BY <1>2, <1>3, <1>4, <1>5 DEF MemoryWhole

\* However many questions the terminal is asked and whatever is forgotten of
\* them, what it hands to the model begins with a question, has no more
\* questions than turns are kept, and each result of a tool follows the call
\* it answers, each answer its question (trim of agent.Conversation and of
\* chat.History).
THEOREM MemoryStaysWhole == Spec => []MemoryWhole
<1>1. Spec => []ThreadsInv
  BY ThreadsInit, ThreadsNext, PTL DEF Spec
<1>2. Spec => []MemoryInv
  BY <1>1, MemoryInit, MemoryNext, PTL DEF Spec
<1>3. QED
  BY <1>2, MemoryFollows, PTL
================================================================================
