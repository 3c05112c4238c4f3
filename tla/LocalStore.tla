------------------------------- MODULE LocalStore -------------------------------
(***************************************************************************)
(* The SQLite store (internal/localstore/localstore.go): the tables of one *)
(* project, the statements that change them, and the two kinds of search.  *)
(* A process has one connection (SetMaxOpenConns(1)); who reads rows or is *)
(* in a transaction keeps it, everybody else waits.  Several processes     *)
(* share the file, in which one transaction writes at a time.              *)
(*                                                                         *)
(* A version is a (path, hash) pair.  Its text, and with it the vector and *)
(* the words of each of its chunks, is determined by it.                   *)
(***************************************************************************)
EXTENDS Integers, Sequences, FiniteSets

CONSTANTS
  Clients,     \* goroutines that call the store
  Procs,       \* processes
  Of,          \* client to process
  Versions,    \* file versions
  LastChunk,   \* the last chunk_index of a version
  VectorOf,    \* text to the hash of its embedding; NoVector for text-only chunks
  NoVector,    \* NULL
  Score,       \* hash of an embedding to its similarity to the query
  Words,       \* texts in which FTS finds a word of the query
  Substrings,  \* texts in which LIKE finds one
  TopK,        \* results asked for
  NoClient,        \* nobody
  Ops,         \* operations clients may start
  MaxOps,      \* bound: operations
  MaxErrs      \* bound: statements that fail, and crashes

Positions == 0 .. LastChunk
Texts == Versions \X Positions
Vectors == DOMAIN Score

ASSUME ClientsAssumption == Of \in [Clients -> Procs] /\ NoClient \notin Clients
ASSUME LastChunkAssumption == LastChunk \in Nat
ASSUME VectorAssumption ==
  /\ NoVector \notin Vectors /\ VectorOf \in [Texts -> Vectors \cup {NoVector}]
  /\ Score \in [Vectors -> Int]
ASSUME WordsAssumption == Words \subseteq Texts /\ Substrings \subseteq Texts
ASSUME TopKAssumption == TopK \in Nat \ {0}
ASSUME OpsAssumption == Ops \subseteq {"index", "search", "keywords", "delete", "manifest", "sweep", "gc"}
ASSUME StoreBounds == MaxOps \in Nat /\ MaxErrs \in Nat

VARIABLES
  files,      \* rows of files: id and version
  chunks,     \* rows of chunks
  fts,        \* rows of chunks_fts: rowid and content
  dict,       \* unique_embeddings
  manifest,   \* worktree_files of the worktree
  ids,        \* the last id given to a file, to a chunk (AUTOINCREMENT)
  conn,       \* per process: who has the connection
  mu,         \* per process: who has fillMu
  prepared,   \* per process: is the content lookup prepared?
  writer,     \* the client whose transaction writes
  task,       \* what each client is doing
  ops, errs

tables == <<files, chunks, fts, dict, manifest, ids>>
locks == <<conn, mu, prepared, writer>>
storeBounds == <<ops, errs>>
storeVars == <<tables, locks, task, storeBounds>>

Row == [id : Nat, file : Nat, text : Texts, vec : Vectors \cup {NoVector}]
NoText == <<>>
Resting == [op |-> "none", st |-> "idle", ver |-> CHOOSE v \in Versions : TRUE, file |-> 0,
         rows |-> <<>>, top |-> <<>>, hits |-> <<>>, seen |-> {}]

StoreTypeOK ==
  /\ files \subseteq [id : Nat, ver : Versions]
  /\ chunks \subseteq Row
  /\ fts \subseteq Nat \X Texts
  /\ dict \subseteq Vectors
  /\ manifest \subseteq Versions
  /\ ids \in [file : Nat, chunk : Nat]
  /\ conn \in [Procs -> Clients \cup {NoClient}] /\ mu \in [Procs -> Clients \cup {NoClient}]
  /\ prepared \in [Procs -> BOOLEAN]
  /\ writer \in Clients \cup {NoClient}
  /\ ops \in 0 .. MaxOps /\ errs \in 0 .. MaxErrs
  /\ \A r, s \in files : (r.id = s.id \/ r.ver = s.ver) => r = s
  /\ \A r, s \in chunks : (r.id = s.id \/ (r.file = s.file /\ r.text = s.text)) => r = s
  /\ \A r \in chunks : \E f \in files : f.id = r.file /\ f.ver = r.text[1]

Orders(S) == {o \in [1 .. Cardinality(S) -> S] :
                \A i, j \in 1 .. Cardinality(S) : o[i] = o[j] => i = j}

\* An index run has stored some versions, one after the other.
IndexedRows(o) ==
  LET Id(k, i) == (k - 1) * (LastChunk + 1) + i + 1
  IN {[id |-> Id(k, i), file |-> k, text |-> <<o[k], i>>, vec |-> VectorOf[<<o[k], i>>]] :
       k \in DOMAIN o, i \in Positions}

Indexed(o) ==
  /\ files = {[id |-> k, ver |-> o[k]] : k \in DOMAIN o}
  /\ chunks = IndexedRows(o)
  /\ fts = {<<r.id, r.text>> : r \in chunks}
  /\ dict = {r.vec : r \in chunks} \ {NoVector}
  /\ manifest = {o[k] : k \in DOMAIN o}
  /\ ids = [file |-> Cardinality(DOMAIN o), chunk |-> Cardinality(chunks)]

StoreInit ==
  /\ \E S \in SUBSET Versions : \E o \in Orders(S) : Indexed(o)
  /\ conn = [p \in Procs |-> NoClient] /\ mu = [p \in Procs |-> NoClient]
  /\ prepared = [p \in Procs |-> FALSE]
  /\ writer = NoClient
  /\ task = [c \in Clients |-> Resting]
  /\ ops = 0 /\ errs = 0

------------------------------------------------------------------------------
Doing(c, st) == task[c].st = st
Turns(c, st) == task' = [task EXCEPT ![c].st = st]
Quit(c) == task' = [task EXCEPT ![c] = Resting]

\* The connection of the client's process is free; a write also needs the file.
Connected(c) == conn[Of[c]] = NoClient
Writable(c) == Connected(c) /\ writer = NoClient

Err == errs < MaxErrs /\ errs' = errs + 1

TakeConn(c) ==
  /\ Doing(c, "idle") /\ ops < MaxOps /\ ops' = ops + 1
  /\ \E op \in Ops, v \in Versions :
       task' = [task EXCEPT ![c] = [Resting EXCEPT !.op = op, !.ver = v,
                  !.st = IF op = "index" THEN "upsert" ELSE op]]
  /\ UNCHANGED <<tables, locks, errs>>

\* Triggers: chunks_fts follows every insert, update and delete, also those of
\* a cascade.
Mirror(S) == {<<r.id, r.text>> : r \in S}

\* Rows of files go, and by cascade their chunks.
Removed(F) ==
  LET gone == {r \in chunks : \E f \in F : f.id = r.file}
  IN /\ files' = files \ F
     /\ chunks' = chunks \ gone
     /\ fts' = fts \ Mirror(gone)

------------------------------------------------------------------------------
(* Indexing a version: UpsertFile, DeleteChunksForFile, InsertChunks. *)
Upsert(c) ==
  /\ Doing(c, "upsert") /\ Writable(c)
  /\ LET old == {f \in files : f.ver = task[c].ver}
         id == IF old = {} THEN ids.file + 1 ELSE (CHOOSE f \in old : TRUE).id
     IN /\ files' = files \cup {[id |-> id, ver |-> task[c].ver]}
        /\ ids' = IF old = {} THEN [ids EXCEPT !.file = id] ELSE ids
        /\ task' = [task EXCEPT ![c].st = "clear", ![c].file = id]
  /\ UNCHANGED <<chunks, fts, dict, manifest, locks, storeBounds>>

ClearChunks(c) ==
  /\ Doing(c, "clear") /\ Writable(c)
  /\ LET gone == {r \in chunks : r.file = task[c].file}
     IN chunks' = chunks \ gone /\ fts' = fts \ Mirror(gone)
  /\ Turns(c, "model")
  /\ UNCHANGED <<files, dict, manifest, ids, locks, storeBounds>>

\* projectModel reads before the transaction has the connection.
ReadModel(c) ==
  /\ Doing(c, "model") /\ Connected(c)
  /\ Turns(c, "begin")
  /\ UNCHANGED <<tables, locks, storeBounds>>

\* Mutant of StartOp: the model is read inside the transaction.
BeginEarly(c) ==
  /\ Doing(c, "begin") /\ Connected(c)
  /\ conn' = [conn EXCEPT ![Of[c]] = c]
  /\ Turns(c, "model")
  /\ UNCHANGED <<tables, mu, prepared, writer, storeBounds>>

StartOp(c) ==
  /\ Doing(c, "begin") /\ Connected(c)
  /\ conn' = [conn EXCEPT ![Of[c]] = c]
  /\ Turns(c, "insert")
  /\ UNCHANGED <<tables, mu, prepared, writer, storeBounds>>

\* The first row takes the right to write.
Write(c) ==
  /\ Doing(c, "insert") /\ writer = NoClient
  /\ writer' = c /\ Turns(c, "commit")
  /\ UNCHANGED <<tables, conn, mu, prepared, storeBounds>>

NextId(k) == ids.chunk + 1 + k

\* A chunk that is there already keeps its id and takes the new values.
Stored(c) ==
  LET n == task[c].file
      Old(i) == {r \in chunks : r.file = n /\ r.text = <<task[c].ver, i>>}
      fresh == {i \in Positions : Old(i) = {}}
      Number(i) == Cardinality({j \in fresh : j < i})
  IN {[id |-> IF i \in fresh THEN NextId(Number(i)) ELSE (CHOOSE r \in Old(i) : TRUE).id,
       file |-> n, text |-> <<task[c].ver, i>>, vec |-> VectorOf[<<task[c].ver, i>>]] :
        i \in Positions}

Release(c) ==
  /\ conn' = [conn EXCEPT ![Of[c]] = NoClient]
  /\ writer' = IF writer = c THEN NoClient ELSE writer
  /\ UNCHANGED <<mu, prepared>>

CommitTx(c) ==
  /\ Doing(c, "commit")
  /\ \E f \in files : f.id = task[c].file            \* the foreign key
  /\ LET new == Stored(c)
         old == {r \in chunks : \E s \in new : s.id = r.id}
     IN /\ chunks' = (chunks \ old) \cup new
        /\ fts' = (fts \ Mirror(old)) \cup Mirror(new)
        /\ dict' = dict \cup ({r.vec : r \in new} \ {NoVector})
        /\ ids' = [ids EXCEPT !.chunk = @ + Cardinality(new \ old)]
  /\ Release(c) /\ Quit(c)
  /\ UNCHANGED <<files, manifest, storeBounds>>

\* The row is gone, or a statement fails: the transaction is rolled back.
RollBack(c) ==
  /\ Doing(c, "insert") \/ Doing(c, "commit")
  /\ \/ Doing(c, "commit") /\ (\A f \in files : f.id # task[c].file) /\ UNCHANGED errs
     \/ Err
  /\ Release(c) /\ Quit(c)
  /\ UNCHANGED <<tables, ops>>

------------------------------------------------------------------------------
(* Deletions and collections: one statement each. *)
\* DeleteFileByPath, DeleteFileByID, PruneFileVersions.
DeleteVersion(c) ==
  /\ Doing(c, "delete") /\ Writable(c)
  /\ Removed({f \in files : f.ver = task[c].ver})
  /\ Quit(c)
  /\ UNCHANGED <<dict, manifest, ids, locks, storeBounds>>

SetManifest(c) ==
  /\ Doing(c, "manifest") /\ Writable(c)
  /\ manifest' \in {manifest \cup {task[c].ver}, manifest \ {task[c].ver}}
  /\ Quit(c)
  /\ UNCHANGED <<files, chunks, fts, dict, ids, locks, storeBounds>>

\* PruneUnreferencedFiles.
Sweep(c) ==
  /\ Doing(c, "sweep") /\ Writable(c)
  /\ Removed({f \in files : f.ver \notin manifest})
  /\ Quit(c)
  /\ UNCHANGED <<dict, manifest, ids, locks, storeBounds>>

\* Mutant of Used: the vectors of the referenced versions only.
UsedInTree == {r.vec : r \in {q \in chunks : q.text[1] \in manifest}}

\* PruneOrphanEmbeddings.
Used == {r.vec : r \in chunks}
Collect(c) ==
  /\ Doing(c, "gc") /\ Writable(c)
  /\ dict' = dict \cap Used
  /\ Quit(c)
  /\ UNCHANGED <<files, chunks, fts, manifest, ids, locks, storeBounds>>

------------------------------------------------------------------------------
(* SearchSimilarWorktree. *)
InScope(r) == r.text[1] \in manifest
Embedded(r) == r.vec \in dict           \* the join with unique_embeddings

ById(S) == CHOOSE o \in Orders(S) : \A i, j \in DOMAIN o : i < j => o[i].id < o[j].id

\* The rows are read one by one, from one snapshot, on the connection, by id
\* (idx_chunks_project).
Scan(c) ==
  /\ Doing(c, "search") /\ Connected(c)
  /\ conn' = [conn EXCEPT ![Of[c]] = c]
  /\ LET rows == {r \in chunks : InScope(r) /\ Embedded(r)}
     IN task' = [task EXCEPT ![c].st = "rows", ![c].rows = ById(rows), ![c].seen = rows]
  /\ UNCHANGED <<tables, mu, prepared, writer, storeBounds>>

\* siftDownHits on a heap whose root is the worst hit.
Sim(r) == Score[r.vec]
Swap(s, i, j) == [s EXCEPT ![i] = s[j], ![j] = s[i]]
SmallestChild(s, i) ==
  LET kids == {k \in {i, 2 * i, 2 * i + 1} : k <= Len(s)}
  IN CHOOSE k \in kids : \A j \in kids : /\ Sim(s[k]) <= Sim(s[j])
                                         /\ Sim(s[k]) = Sim(s[j]) => k <= j
SiftDown(s, from) ==
  LET sift[k \in 0 .. Len(s)] ==     \* after k levels: the slice and the place
        IF k = 0 THEN <<s, from>>
        ELSE LET t == sift[k - 1][1] i == sift[k - 1][2] j == SmallestChild(t, i)
             IN <<Swap(t, i, j), j>>
  IN sift[Len(s)][1]
Heapify(s) ==
  LET half == Len(s) \div 2
      heap[k \in 0 .. half] == IF k = 0 THEN s ELSE SiftDown(heap[k - 1], half - k + 1)
  IN heap[half]

\* pushSimilarHitTopK.
PushTopK(top, r) ==
  IF Len(top) < TopK
  THEN IF Len(top) + 1 = TopK THEN Heapify(Append(top, r)) ELSE Append(top, r)
  ELSE IF Sim(r) <= Sim(top[1]) THEN top ELSE SiftDown([top EXCEPT ![1] = r], 1)

PushHit(c) ==
  /\ Doing(c, "rows") /\ task[c].rows # <<>>
  /\ task' = [task EXCEPT ![c].rows = Tail(@), ![c].top = PushTopK(@, Head(task[c].rows))]
  /\ UNCHANGED <<tables, locks, storeBounds>>

\* The last row closes the rows and gives the connection back.
EndScan(c) ==
  /\ Doing(c, "rows") /\ task[c].rows = <<>>
  /\ Release(c)
  /\ Turns(c, IF task[c].top = <<>> THEN "done" ELSE "lock")
  /\ UNCHANGED <<tables, storeBounds>>

\* fillContentsStmt: the statement is prepared once, under fillMu.
LockFill(c) ==
  /\ Doing(c, "lock") /\ mu[Of[c]] = NoClient
  /\ IF prepared[Of[c]] THEN Turns(c, "fill") /\ UNCHANGED mu
     ELSE Turns(c, "prepare") /\ mu' = [mu EXCEPT ![Of[c]] = c]
  /\ UNCHANGED <<tables, conn, prepared, writer, storeBounds>>

Prepare(c) ==
  /\ Doing(c, "prepare") /\ Connected(c)
  /\ prepared' = [prepared EXCEPT ![Of[c]] = TRUE]
  /\ mu' = [mu EXCEPT ![Of[c]] = NoClient]
  /\ Turns(c, "fill")
  /\ UNCHANGED <<tables, conn, writer, storeBounds>>

\* The contents of the hits, by id, as they are now; then a stable sort.
TextNow(r) == LET now == {q \in chunks : q.id = r.id}
              IN IF now = {} THEN NoText ELSE (CHOOSE q \in now : TRUE).text
SortedHits(s) ==
  CHOOSE o \in [DOMAIN s -> DOMAIN s] :
    /\ \A i, j \in DOMAIN s : o[i] = o[j] => i = j
    /\ \A i, j \in DOMAIN s : i < j => \/ Sim(s[o[i]]) > Sim(s[o[j]])
                                       \/ Sim(s[o[i]]) = Sim(s[o[j]]) /\ o[i] < o[j]
Fill(c) ==
  /\ Doing(c, "fill") /\ Connected(c)
  /\ LET s == task[c].top o == SortedHits(s)
     IN task' = [task EXCEPT ![c].st = "done", ![c].top = <<>>,
                   ![c].hits = [i \in DOMAIN s |-> [row |-> s[o[i]], text |-> TextNow(s[o[i]])]]]
  /\ UNCHANGED <<tables, locks, storeBounds>>

------------------------------------------------------------------------------
(* searchKeywords: the ranked words, then, if they are too few, substrings. *)
Matching(S) == {r \in chunks : /\ InScope(r) /\ r.text \in S
                               /\ <<r.id, r.text>> \in fts}
HitsOf(s) == [i \in DOMAIN s |-> [row |-> s[i], text |-> s[i].text]]
SmallerOf(m, n) == IF m < n THEN m ELSE n
Upto(s, n) == [i \in 1 .. SmallerOf(Len(s), n) |-> s[i]]

MatchWords(c) ==
  /\ Doing(c, "keywords") /\ Connected(c)
  /\ \E o \in Orders(Matching(Words)) :
       LET found == Upto(o, TopK)
       IN task' = [task EXCEPT ![c].hits = HitsOf(found),
                     ![c].st = IF Len(found) >= TopK THEN "done" ELSE "like"]
  /\ UNCHANGED <<tables, locks, storeBounds>>

\* keywordResultKey: what a result shows, not its row.
Merged(found, more) ==
  Upto(found \o SelectSeq(more, LAMBDA h : \A i \in DOMAIN found : found[i].text # h.text), TopK)

MatchSubstrings(c) ==
  /\ Doing(c, "like") /\ Connected(c)
  /\ LET like == {r \in chunks : InScope(r) /\ r.text \in Substrings}
     IN task' = [task EXCEPT ![c].st = "done",
                   ![c].hits = Merged(@, HitsOf(Upto(ById(like), TopK)))]
  /\ UNCHANGED <<tables, locks, storeBounds>>

------------------------------------------------------------------------------
Replies(c) == Doing(c, "done") /\ Quit(c) /\ UNCHANGED <<tables, locks, storeBounds>>

\* Any statement, or reading the rows, may fail; what it holds is given back.
StoreFails(c) ==
  /\ task[c].st \in {"upsert", "clear", "begin", "search", "rows", "lock", "prepare", "fill",
                     "keywords", "like", "delete", "manifest", "sweep", "gc"}
  /\ Err /\ Quit(c)
  /\ conn' = IF conn[Of[c]] = c THEN [conn EXCEPT ![Of[c]] = NoClient] ELSE conn
  /\ mu' = IF mu[Of[c]] = c THEN [mu EXCEPT ![Of[c]] = NoClient] ELSE mu
  /\ UNCHANGED <<tables, prepared, writer, ops>>

\* A process ends; its transaction is rolled back and a new one has no statement.
KillStore(p) ==
  /\ Err
  /\ task' = [c \in Clients |-> IF Of[c] = p THEN Resting ELSE task[c]]
  /\ conn' = [conn EXCEPT ![p] = NoClient] /\ mu' = [mu EXCEPT ![p] = NoClient]
  /\ prepared' = [prepared EXCEPT ![p] = FALSE]
  /\ writer' = IF writer # NoClient /\ Of[writer] = p THEN NoClient ELSE writer
  /\ UNCHANGED <<tables, ops>>

Work(c) ==
  \/ Upsert(c) \/ ClearChunks(c) \/ ReadModel(c) \/ StartOp(c) \/ Write(c) \/ CommitTx(c) \/ RollBack(c)
  \/ DeleteVersion(c) \/ SetManifest(c) \/ Sweep(c) \/ Collect(c)
  \/ Scan(c) \/ PushHit(c) \/ EndScan(c) \/ LockFill(c) \/ Prepare(c) \/ Fill(c)
  \/ MatchWords(c) \/ MatchSubstrings(c) \/ Replies(c)

StoreNext == \/ \E c \in Clients : TakeConn(c) \/ Work(c) \/ StoreFails(c)
        \/ \E p \in Procs : KillStore(p)

StoreSpec == StoreInit /\ [][StoreNext]_storeVars

------------------------------------------------------------------------------
(* The dictionary of vectors is shared by chunks and never cascaded into     *)
(* (ADR-7), so whatever is collected while versions come and go, a chunk     *)
(* that was embedded keeps its vector: otherwise the join would silently     *)
(* drop it from every semantic search.                                       *)
DictionaryCovers == \A r \in chunks : r.vec = NoVector \/ r.vec \in dict

(* chunks_fts holds a row for every chunk, with its content, and no other:   *)
(* what a cascade deletes is found no more and a rewritten chunk only by its *)
(* new words.  And no chunk is left behind by its file.                      *)
IndexMirrors ==
  /\ fts = Mirror(chunks)
  /\ \A r \in chunks : \E f \in files : f.id = r.file

(* The heap keeps the best rows: a semantic search shows TopK of the chunks  *)
(* its scan saw, or all of them, best first, and none it leaves out is       *)
(* better than one it shows; no chunk is shown twice, not even when the      *)
(* legs of a keyword search see the same one.                                *)
HitsAreBest ==
  \A c \in Clients : Doing(c, "done") =>
    LET h == task[c].hits
        shown == {h[i].row : i \in DOMAIN h}
    IN /\ Len(h) <= TopK
       /\ \A i, j \in DOMAIN h : h[i].row = h[j].row => i = j
       /\ task[c].op = "search" =>
            /\ Len(h) = SmallerOf(TopK, Cardinality(task[c].seen))
            /\ \A i, j \in DOMAIN h : i < j => Sim(h[i].row) >= Sim(h[j].row)
            /\ \A r \in task[c].seen \ shown : \A i \in DOMAIN h : Sim(r) <= Sim(h[i].row)

(* The content of a hit is read by id after the scan.  It is that of the     *)
(* chunk that was scored, or empty when the chunk has gone: never that of    *)
(* another one, since an id is not given twice (AUTOINCREMENT).              *)
ContentBelongs ==
  \A c \in Clients : Doing(c, "done") =>
    \A i \in DOMAIN task[c].hits :
      task[c].hits[i].text \in {NoText, task[c].hits[i].row.text}

(* Nobody waits for ever: who cannot go on waits for somebody who can, or    *)
(* who waits for a third one who can.  A scan and a transaction keep the     *)
(* connection, and under fillMu a statement is prepared on it.               *)
CanMove(c) ==
  \/ task[c].st \in {"rows", "commit", "done"}
  \/ Doing(c, "insert") /\ writer = NoClient
  \/ Doing(c, "lock") /\ mu[Of[c]] = NoClient
  \/ task[c].st \in {"model", "begin", "search", "prepare", "fill", "keywords", "like"} /\ Connected(c)
  \/ task[c].st \in {"upsert", "clear", "delete", "manifest", "sweep", "gc"} /\ Writable(c)
WaitsFor(c) == {d \in Clients \ {c} : d \in {conn[Of[c]], mu[Of[c]], writer}}
NobodyStuck ==
  \A c \in Clients : ~Doing(c, "idle") =>
    \/ CanMove(c)
    \/ \E d \in WaitsFor(c) : CanMove(d) \/ \E e \in WaitsFor(d) : CanMove(e)
==============================================================================
