------------------------------- MODULE Extract -------------------------------
(***************************************************************************)
(* From the bytes of a file to the units that are indexed                  *)
(* (internal/extract, and indexContent, indexExtracted, IndexEncryptedFile *)
(* and tryPasswordOnFiles around it).  A document is a sequence of parts   *)
(* of which a decoder shows some; an archive is a list of entries, some of *)
(* which are archives again.  One step dispatches a file, takes one entry, *)
(* closes one archive or tries one password.                               *)
(***************************************************************************)
EXTENDS Integers, FiniteSets, Sequences, FiniteSetsExt

CONSTANTS
  Files,       \* the files to be indexed: of Inputs
  Archives,    \* the archives they are or hold, by name
  Limit,       \* maxArchiveEntries: 50, and maxJarEntries: 5000
  EntryCap,    \* maxArchiveEntrySize: 10 MiB, and maxArchiveEntry: 1 MiB
  TotalCap,    \* maxArchiveTotalSize and maxJarTotalSize
  MaxDepth,    \* maxArchiveDepth: 2
  MaxTries     \* bound: passwords that are tried

ArchiveForms == {"zip", "tar", "jar"}
Office == {"docx", "pptx", "xlsx"}
Annotated == {"annotated"}
Forms == ArchiveForms \cup Office \cup Annotated \cup
         {"pdf", "odf", "epub", "ipynb", "rtf", "eml", "html", "text", "raw", "xml", "rst",
          "vue", "template", "lock", "openapi", "plain"}

\* A file is an archive of a name or a document of parts; ciphers are
\* "password", "strong" (beyond the first PDF library), "odd" (an error that
\* speaks of encryption and of nothing unsupported) and "shell" (an OLE
\* container that is no encrypted document).
Ciphers == {"none", "password", "strong", "odd", "shell"}
EntryKinds == {"dir", "text", "blank", "other", "unread", "class", "badclass", "outside", "nested", "torn"}
Entries == [kind : EntryKinds, size : Nat, holds : DOMAIN Archives]

ASSUME ArchivesAssumption ==
  \A a \in DOMAIN Archives :
    /\ Archives[a].form \in ArchiveForms /\ Archives[a].broken \in BOOLEAN
    /\ Archives[a].entries \in Seq(Entries)
ASSUME ArchivesAreFinite == IsFiniteSet(DOMAIN Archives)
ASSUME FilesAssumption ==
  \A f \in Files : f.form \in Forms /\ f.cipher \in Ciphers /\ f.archive \in DOMAIN Archives
ASSUME CapsAssumption ==
  /\ Limit \in [ArchiveForms -> Nat] /\ EntryCap \in [ArchiveForms -> Nat] /\ TotalCap \in Nat
  /\ MaxDepth \in Nat /\ MaxTries \in Nat

VARIABLES
  file,
  status,   \* "off", "new", "open", or how it ended
  frames,   \* the archives that are open, the innermost last
  units,    \* the documents found: where they are, what they show
  guesses     \* passwords tried: were they right?

extractVars == <<file, status, frames, units, guesses>>

Endings == {"indexed", "encrypted", "skipped", "soft", "unlocked"}
ExtractTypeOK ==
  /\ file.form \in Forms
  /\ status \in {"off", "new", "open"} \cup Endings
  /\ \A i \in DOMAIN frames :
       /\ frames[i].archive \in DOMAIN Archives
       /\ frames[i].next \in Nat /\ frames[i].seen \in Nat /\ frames[i].total \in Nat
  /\ guesses \in Seq(BOOLEAN) /\ Len(guesses) <= MaxTries

------------------------------------------------------------------------------
(* The decoders: which parts of a document they show, in which order.        *)
Each(parts) == DOMAIN parts
Of(parts, kinds) == {i \in DOMAIN parts : parts[i] \in kinds}
Has(parts, kind) == Of(parts, {kind}) # {}

\* rtfParser: the depth of groups, and the depth at which skipping ends, -1 if
\* nothing is skipped.
RTFState(parts) ==
  LET after[i \in 0 .. Len(parts)] ==
        IF i = 0 THEN [depth |-> 0, skip |-> -1]
        ELSE LET s == after[i - 1]
             IN CASE parts[i] = "begin" -> [s EXCEPT !.depth = @ + 1]
                  [] parts[i] = "end" -> [depth |-> s.depth - 1,
                                        skip |-> IF s.skip = s.depth THEN -1 ELSE s.skip]
                  [] parts[i] \in {"star", "dest"} -> [s EXCEPT !.skip = IF @ < 0 THEN s.depth ELSE @]
                  [] OTHER -> s
  IN after

\* Mutant of RTFShown: the end of any group ends the skipping.
RTFShownEarly(parts) ==
  LET after[i \in 0 .. Len(parts)] ==
        IF i = 0 THEN FALSE
        ELSE IF parts[i] \in {"star", "dest"} THEN TRUE
        ELSE IF parts[i] = "end" THEN FALSE ELSE after[i - 1]
  IN {i \in Of(parts, {"text"}) : ~after[i - 1]}

RTFShown(parts) == {i \in Of(parts, {"text"}) : RTFState(parts)[i - 1].skip < 0}

\* extractRST: a directive takes what follows until a line that is neither
\* blank nor indented; without a line left the raw text is shown.
RSTShown(parts) ==
  LET within[i \in 0 .. Len(parts)] ==
        IF i = 0 THEN FALSE
        ELSE parts[i] = "directive" \/ (within[i - 1] /\ parts[i] \in {"blank", "body"})
      out == {i \in DOMAIN parts : ~within[i]}
  IN IF out \cap Of(parts, {"text", "body"}) = {} THEN Each(parts) ELSE out

\* extractJSONLock: a pair is a name and the last version before the next name.
Names == {"nameA", "nameB"}
Versions == {"version"}
LockPairs(parts) ==
  {p \in (DOMAIN parts) \X (DOMAIN parts) :
     /\ parts[p[1]] \in Names /\ parts[p[2]] \in Versions /\ p[1] < p[2]
     /\ \A k \in (p[1] + 1) .. (p[2] - 1) : parts[k] \notin Names
     /\ \A k \in DOMAIN parts :
          parts[k] \in Versions /\ p[2] < k => \E n \in p[2] .. k : parts[n] \in Names}
LockShown(parts) == IF LockPairs(parts) = {} THEN Each(parts)
                    ELSE {p[1] : p \in LockPairs(parts)} \cup {p[2] : p \in LockPairs(parts)}

\* extractEmailMultipartBody: the first plain text, taken also from what an
\* inner multipart shows, else the first HTML.  A part is a letter: "p"lain and
\* "h"tml, "e"mpty plain text, an "o"ther type; an inner multipart is a word.
Inner(part) == CASE part = "in:p" -> "p" [] part = "in:h" -> "h" [] part = "in:hp" -> "p" [] OTHER -> "none"
FirstOf(S) == IF S = {} THEN {} ELSE {CHOOSE i \in S : \A j \in S : i <= j}
EmailShown(parts) ==
  LET plain == {i \in DOMAIN parts : parts[i] = "p" \/ Inner(parts[i]) # "none"}
  IN IF plain # {} THEN FirstOf(plain) ELSE FirstOf(Of(parts, {"h"}))

\* walkHTMLText, which templates and XML resemble: the text between the marks.
WithoutMarkup(parts) == Of(parts, {"text"})
NotebookShown(parts) == Of(parts, {"code", "markdown"})
VueShown(parts) ==
  LET spoken == Of(parts, {"script", "markup"}) IN IF spoken = {} THEN Each(parts) ELSE spoken
OpenAPIShown(parts) == IF Has(parts, "spec") THEN Of(parts, {"info", "endpoint"}) ELSE Each(parts)

Shown(form, parts) ==
  CASE form = "rtf" -> RTFShown(parts)
    [] form = "rst" -> RSTShown(parts)
    [] form = "lock" -> LockShown(parts)
    [] form = "eml" -> EmailShown(parts)
    [] form = "ipynb" -> NotebookShown(parts)
    [] form \in {"html", "template", "xml", "epub"} -> WithoutMarkup(parts)
    [] form = "vue" -> VueShown(parts)
    [] form = "openapi" -> OpenAPIShown(parts)
    [] OTHER -> Each(parts)

\* Decoders that give up: a document whose parts cannot be read, a book
\* without a chapter, text that is no UTF-8 or holds a zero byte.
Malformed(form, parts) == form \in Office \cup {"pdf", "odf", "ipynb"} /\ Has(parts, "bad")
NoChapter(form, parts) == form = "epub" /\ Has(parts, "unread")
AsText == {"raw", "xml", "rst", "vue", "template", "lock", "openapi"} \cup Annotated
NotText(form, parts) ==
  \/ form \in AsText \cup {"text"} /\ Has(parts, "nul")
  \/ form \in AsText /\ Has(parts, "legacy")
Refused(form, parts) == Malformed(form, parts) \/ NoChapter(form, parts) \/ NotText(form, parts)

------------------------------------------------------------------------------
(* Outcomes. *)
Unit(path, shown) == [path |-> path, shown |-> shown]
Finish(found, how) == units' = found /\ status' = how /\ frames' = <<>>

\* indexExtracted and mergeOutcome: indexed if a unit is not blank.
Outcome(found) == IF \E i \in DOMAIN found : found[i].shown # {} THEN "indexed" ELSE "skipped"

CanBeEncrypted(form) == form \in Office \cup {"pdf"}
Encrypted(f) == CASE f.form = "pdf" -> f.cipher \in {"password", "strong", "odd"}
                  [] f.form \in Office -> f.cipher # "none"
                  [] OTHER -> FALSE

New == status = "new"
ReadDocument ==
  /\ New /\ file.form \notin ArchiveForms \cup {"plain"} /\ ~Encrypted(file)
  /\ IF Refused(file.form, file.parts) THEN Finish(<<>>, "soft")
     ELSE LET found == <<Unit(<<>>, Shown(file.form, file.parts))>>
          IN Finish(found, Outcome(found))
  /\ UNCHANGED <<file, guesses>>

ReadEncrypted ==
  /\ New /\ Encrypted(file)
  /\ Finish(<<>>, IF CanBeEncrypted(file.form) THEN "encrypted" ELSE "skipped")
  /\ UNCHANGED <<file, guesses>>

\* Not Supported: the content itself is the unit.
ReadPlain ==
  /\ New /\ file.form = "plain"
  /\ Finish(<<Unit(<<>>, Each(file.parts))>>, "indexed")
  /\ UNCHANGED <<file, guesses>>

\* tryPasswordOnFiles: a password opens a file, does not, or meets an error.
Opens(right) ==
  CASE file.cipher = "odd" -> "error"
    [] file.cipher = "shell" -> "wrong"
    [] ~right -> "wrong"
    [] Refused(file.form, file.parts) -> IF file.form = "pdf" THEN "error" ELSE "wrong"
    [] OTHER -> "opened"

Unlock(right) ==
  /\ status = "encrypted" /\ Len(guesses) < MaxTries /\ guesses' = Append(guesses, right)
  /\ IF Opens(right) = "opened"
     THEN Finish(<<Unit(<<>>, Shown(file.form, file.parts))>>, "unlocked")
     ELSE UNCHANGED <<status, units, frames>>
  /\ UNCHANGED file

------------------------------------------------------------------------------
(* Archives. *)
Frame(a) == [archive |-> a, next |-> 1, seen |-> 0, total |-> 0, docs |-> <<>>]
OpenArchive ==
  /\ New /\ file.form \in ArchiveForms
  /\ IF Archives[file.archive].broken THEN Finish(<<>>, "soft")
     ELSE frames' = <<Frame(file.archive)>> /\ status' = "open" /\ UNCHANGED units
  /\ UNCHANGED <<file, guesses>>

Top == frames[Len(frames)]
Form(fr) == Archives[fr.archive].form
EntriesOf(fr) == Archives[fr.archive].entries
Entry == EntriesOf(Top)[Top.next]
Replace(fr) == [frames EXCEPT ![Len(frames)] = fr]

\* Where the entry of a frame is: the positions in the archives above it.
PathTo(i) == [k \in 1 .. Len(frames) |-> IF k = Len(frames) THEN i ELSE frames[k].next]

\* A zip and a jar count the documents they have given, a tar its entries.
Counted(fr) == IF Form(fr) = "tar" THEN fr.seen ELSE Len(fr.docs)
Spent(fr) ==
  fr.next <= Len(EntriesOf(fr)) =>
    \/ EntriesOf(fr)[fr.next].kind = "torn"
    \/ /\ EntriesOf(fr)[fr.next].kind # "dir" \/ Form(fr) = "jar"
       /\ Counted(fr) >= Limit[Form(fr)] \/ fr.total >= TotalCap

Nested(e) == Form(Top) # "jar" /\ e.kind = "nested" /\ Len(frames) <= MaxDepth
Cut(e) == e.size > EntryCap[Form(Top)]
ReadSize(e) == IF Cut(e) THEN EntryCap[Form(Top)] ELSE e.size

\* What one entry gives: text whose read was cut off may not be UTF-8.
GivesText(e) ==
  IF Form(Top) = "jar" THEN e.kind \in {"text", "class"}
  ELSE e.kind \in {"text", "outside"} /\ Top.total + ReadSize(e) <= TotalCap

Took(fr, found, size) ==
  [fr EXCEPT !.next = @ + 1, !.seen = @ + (IF EntriesOf(fr)[fr.next].kind = "dir" THEN 0 ELSE 1),
             !.docs = @ \o found, !.total = @ + size]

TakeText ==
  /\ status = "open" /\ ~Spent(Top) /\ ~Nested(Entry) /\ GivesText(Entry)
  /\ \/ frames' = Replace(Took(Top, <<Unit(PathTo(Top.next), {1})>>, ReadSize(Entry)))
     \/ Cut(Entry) /\ Entry.kind # "class" /\ frames' = Replace(Took(Top, <<>>, 0))
  /\ UNCHANGED <<file, status, units, guesses>>

TakeNothing ==
  /\ status = "open" /\ ~Spent(Top)
  /\ IF Nested(Entry) THEN Archives[Entry.holds].broken ELSE ~GivesText(Entry)
  /\ frames' = Replace(Took(Top, <<>>, 0))
  /\ UNCHANGED <<file, status, units, guesses>>

\* extractArchiveEntries again, with budgets of its own.
TakeNested ==
  /\ status = "open" /\ ~Spent(Top) /\ Nested(Entry) /\ ~Archives[Entry.holds].broken
  /\ frames' = Append(frames, Frame(Entry.holds))
  /\ UNCHANGED <<file, status, units, guesses>>

CloseArchive ==
  /\ status = "open" /\ Spent(Top)
  /\ IF Len(frames) = 1 THEN Finish(Top.docs, Outcome(Top.docs))
     ELSE /\ frames' = [SubSeq(frames, 1, Len(frames) - 1) EXCEPT
                          ![Len(frames) - 1] = Took(@, Top.docs, 0)]
          /\ UNCHANGED <<status, units>>
  /\ UNCHANGED <<file, guesses>>

------------------------------------------------------------------------------
ExtractInit ==
  /\ file \in Files /\ status = "new"
  /\ frames = <<>> /\ units = <<>> /\ guesses = <<>>
Settle ==
  \/ ReadDocument \/ ReadEncrypted \/ ReadPlain
  \/ OpenArchive \/ TakeText \/ TakeNothing \/ TakeNested \/ CloseArchive
ExtractNext == Settle \/ \E right \in BOOLEAN : Unlock(right)
ExtractSpec == ExtractInit /\ [][ExtractNext]_extractVars /\ WF_extractVars(Settle)

------------------------------------------------------------------------------
(* Properties. *)
\* What a document says, form by form: the text of an RTF that no open group
\* with a destination holds, the lines of an RST that begin no directive, the
\* packages of a lock file, and so on.
Groups(parts, k) == Cardinality(Of(parts, {"begin"}) \cap (1 .. k)) - Cardinality(Of(parts, {"end"}) \cap (1 .. k))
Ignored(parts, i) ==
  \E j \in Of(parts, {"star", "dest"}) :
    j < i /\ \A k \in j .. (i - 1) : Groups(parts, k) >= Groups(parts, j)
Authored(form, parts) ==
  CASE form = "rtf" -> {i \in Of(parts, {"text"}) : ~Ignored(parts, i)}
    [] form = "lock" -> {i \in Of(parts, Names) : i + 1 \in Of(parts, Versions)}
    [] form = "eml" -> {}
    [] form = "openapi" -> Of(parts, {"info", "endpoint"}) \cup (IF Has(parts, "spec") THEN {} ELSE Of(parts, {"note"}))
    [] OTHER -> Of(parts, {"text", "code", "markdown", "script", "markup"})
Unseen(form, parts) ==
  CASE form = "rtf" -> {i \in Of(parts, {"text"}) : Ignored(parts, i)}
    [] form = "lock" -> {}
    [] OTHER -> Of(parts, {"hidden", "output"})

\* What the documents of each form consist of; a group of an RTF ends after it began.
Marks(form) ==
  (CASE form = "rtf" -> {"begin", "end", "star", "dest", "text"}
     [] form = "rst" -> {"text", "directive", "blank", "body"}
     [] form = "lock" -> Names \cup Versions \cup {"other"}
     [] form = "eml" -> {"p", "h", "e", "o", "in:p", "in:h", "in:hp"}
     [] form = "ipynb" -> {"code", "markdown", "output", "bad"}
     [] form \in {"html", "xml", "template"} -> {"text", "hidden"}
     [] form = "epub" -> {"text", "hidden", "unread"}
     [] form = "vue" -> {"script", "markup", "hidden"}
     [] form = "openapi" -> {"spec", "info", "endpoint", "note"}
     [] OTHER -> {"text", "bad"})
  \cup (IF form \in AsText \cup {"text"} THEN {"legacy", "nul"} ELSE {})
ASSUME DocumentsAreWritten ==
  \A f \in Files :
    /\ f.parts \in Seq(Marks(f.form))
    /\ f.form = "rtf" => \A k \in DOMAIN f.parts : Groups(f.parts, k) >= 0

PlainFirst(parts) ==
  \E i \in DOMAIN parts : parts[i] = "p" /\ \A j \in 1 .. (i - 1) : parts[j] # "in:h"

\* A document that is read shows what its author wrote and nothing that is
\* hidden from a reader (of a Vue file with nothing but styles, the styles); a mail shows its plain text unless an inner multipart
\* that has none comes first ("text/plain is preferred over text/html").
TextKept ==
  file.form \notin ArchiveForms =>
    \A k \in DOMAIN units :
      LET shown == units[k].shown
      IN /\ Authored(file.form, file.parts) \subseteq shown
         /\ \/ Unseen(file.form, file.parts) \cap shown = {}
            \/ file.form = "vue" /\ Authored(file.form, file.parts) = {}
         /\ file.form = "eml" => /\ PlainFirst(file.parts) => \A i \in shown : file.parts[i] \in {"p", "in:p", "in:hp"}
                                 /\ Of(file.parts, {"p", "h"}) # {} => shown # {}

\* A file recorded as pending opens with its password, at the first attempt
\* that has it and not before, unless no decoder can read it.
Unreadable == file.cipher \in {"odd", "shell"} \/ Refused(file.form, file.parts)
PasswordDecides ==
  /\ status = "unlocked" => guesses[Len(guesses)] /\ \A i \in 1 .. (Len(guesses) - 1) : ~guesses[i]
  /\ status = "encrypted" => Unreadable \/ \A i \in DOMAIN guesses : ~guesses[i]

\* The entries of an archive and of those in it, by the way that leads there.
Longest == Max({Len(Archives[a].entries) : a \in DOMAIN Archives} \cup {1})
Holder(root, p, k) ==
  LET at[i \in 1 .. k] == IF i = 1 THEN root
                          ELSE IF p[i - 1] \in DOMAIN Archives[at[i - 1]].entries
                               THEN Archives[at[i - 1]].entries[p[i - 1]].holds ELSE at[i - 1]
  IN Archives[at[k]]
Leads(root, p) ==
  \A k \in DOMAIN p :
    /\ p[k] \in DOMAIN Holder(root, p, k).entries
    /\ k < Len(p) => /\ Holder(root, p, k).form # "jar"
                     /\ Holder(root, p, k).entries[p[k]].kind = "nested"
                     /\ ~Holder(root, p, k + 1).broken
Ways(root) == {p \in UNION {[1 .. n -> 1 .. Longest] : n \in 1 .. (MaxDepth + 1)} : Leads(root, p)}
EntryAt(root, p) == Holder(root, p, Len(p)).entries[p[Len(p)]]
CapAt(root, p) == EntryCap[Holder(root, p, Len(p)).form]
Readable(root, p) == EntryAt(root, p).kind \in (IF Holder(root, p, Len(p)).form = "jar" THEN {"text", "class"} ELSE {"text", "outside"})
SizeAt(root, p) == Min({EntryAt(root, p).size, CapAt(root, p)})
SizeOf(root, S) == MapThenSumSet(LAMBDA p : SizeAt(root, p), S)

Small(root) ==
  /\ \A f \in ArchiveForms : Cardinality(Ways(root)) <= Limit[f]
  /\ SizeOf(root, {p \in Ways(root) : Readable(root, p)}) < TotalCap
  /\ \A p \in Ways(root) : EntryAt(root, p).kind # "torn" /\ EntryAt(root, p).size <= CapAt(root, p)

\* A small archive is kept whole, with the archives in it down to the limit of
\* depth; of a large one no archive gives more documents or text of its own
\* than its limits say.
Beside(found, p) == {q \in found : Len(q) = Len(p) /\ \A i \in 1 .. (Len(p) - 1) : q[i] = p[i]}
ArchivesFit ==
  file.form \in ArchiveForms /\ status \in {"indexed", "skipped"} =>
    LET root == file.archive
        found == {units[k].path : k \in DOMAIN units}
    IN /\ Cardinality(found) = Len(units)
       /\ found \subseteq {p \in Ways(root) : Readable(root, p)}
       /\ Small(root) => found = {p \in Ways(root) : Readable(root, p)}
       /\ \A p \in found :
            LET form == Holder(root, p, Len(p)).form
            IN /\ Cardinality(Beside(found, p)) <= Limit[form]
               /\ SizeOf(root, Beside(found, p)) <= TotalCap + (IF form = "jar" THEN EntryCap[form] ELSE 0)

\* What goes into the index is what a reader with the password would see, of a
\* document and of every entry of an archive.
UnitsFaithful == TextKept /\ ArchivesFit /\ PasswordDecides
==============================================================================
