------------------------------ MODULE SelfUpgrade ------------------------------
(***************************************************************************)
(* `semidx upgrade` (cmd/semidx/upgrade.go): which release is taken, what  *)
(* is checked of the archive, and the steps in which the running binary is *)
(* replaced, with a kill or a failing call between any two of them.        *)
(***************************************************************************)
EXTENDS Integers, Sequences, FiniteSets

CONSTANTS
  Tags,       \* release tags, each <<major, minor, patch>> or a word
  Drafts,     \* tags of releases that are not published
  Running,    \* the tag of the binary that runs; "dev" for a local build
  MaxTries    \* bound: upgrades started

ASSUME ReleasesAssumption == Drafts \subseteq Tags
ASSUME TriesAssumption == MaxTries \in Nat

VARIABLES
  windows,   \* a running binary cannot be replaced there
  root,      \* the user may write a file of mode 0500
  exe,       \* what the path of the binary holds
  tmp,       \* what .semidx.upgrade.tmp holds, and whether it is still writable
  old,       \* what <binary>.old holds
  up,        \* the upgrade that runs
  tries

gvars == <<windows, root, exe, tmp, old, up, tries>>

\* A file holds a whole release, the beginning of one, bytes that are none, or is not there.
Whole(tag) == [tag |-> tag, is |-> "whole"]
Part(tag) == [tag |-> tag, is |-> "part"]
Foreign(tag) == [tag |-> tag, is |-> "foreign"]
Gone == [tag |-> Running, is |-> "gone"]
Quiet == [st |-> "idle", tag |-> Running, bin |-> Gone]

UpgradeTypeOK ==
  /\ windows \in BOOLEAN /\ root \in BOOLEAN
  /\ \A f \in {exe, tmp.file, old, up.bin} : f.is \in {"whole", "part", "foreign", "gone"}
  /\ tmp.open \in BOOLEAN /\ tries \in 0 .. MaxTries

UpgradeInit ==
  /\ windows \in BOOLEAN /\ root \in BOOLEAN
  /\ exe = Whole(Running) /\ tmp = [file |-> Gone, open |-> TRUE] /\ old = Gone
  /\ up = Quiet /\ tries = 0

(***************************************************************************)
(* The release that is wanted.                                             *)
(***************************************************************************)

Less(a, b) == \/ a[1] < b[1]
              \/ a[1] = b[1] /\ a[2] < b[2]
              \/ a[1] = b[1] /\ a[2] = b[2] /\ a[3] < b[3]

\* A host without /releases/latest is asked for the list, of which the greatest is taken.
Latest == {t \in Tags \ Drafts : \A s \in Tags \ Drafts : ~Less(t, s)}

\* `--version` is taken as it is; the release that runs is not installed again.
Wanted(asked) == IF asked = <<>> THEN Latest \ {Running} ELSE {asked}

(***************************************************************************)
(* The upgrade.                                                            *)
(***************************************************************************)

\* A managed install refuses before; `sums` says what checksums.txt has for the archive.
Download(asked, tag, bytes, sums) ==
  /\ up.st = "idle" /\ exe.is = "whole" /\ tries < MaxTries
  /\ tag \in Wanted(asked)
  /\ sums = "listed" => bytes = Whole(tag)
  /\ up' = [st |-> "got", tag |-> tag, bin |-> bytes]
  /\ tries' = tries + 1
  /\ UNCHANGED <<windows, root, exe, tmp, old>>

\* os.WriteFile empties the file first; a leftover of mode 0500 cannot be opened.
OpenTmp ==
  /\ up.st = "got" /\ (tmp.open \/ root)
  /\ tmp' = [tmp EXCEPT !.file = Part(up.tag)]
  /\ up' = [up EXCEPT !.st = "writing"]
  /\ UNCHANGED <<windows, root, exe, old, tries>>

WriteTmp ==
  /\ up.st = "writing"
  /\ tmp' = [tmp EXCEPT !.file = up.bin]
  /\ up' = [up EXCEPT !.st = "written"]
  /\ UNCHANGED <<windows, root, exe, old, tries>>

Chmod ==
  /\ up.st = "written"
  /\ tmp' = [tmp EXCEPT !.open = FALSE]
  /\ up' = [up EXCEPT !.st = "ready"]
  /\ UNCHANGED <<windows, root, exe, old, tries>>

Dropped == [file |-> Gone, open |-> TRUE]

\* Mutant of Rename: the binary is removed first.
RemoveThenRename(fails) ==
  /\ up.st = "ready" /\ ~windows
  /\ exe' = IF fails THEN Gone ELSE tmp.file
  /\ tmp' = Dropped
  /\ up' = Quiet
  /\ UNCHANGED <<windows, root, old, tries>>

\* POSIX: a rename over the running binary; when it fails the temporary file goes.
Rename(fails) ==
  /\ up.st = "ready" /\ ~windows
  /\ exe' = IF fails THEN exe ELSE tmp.file
  /\ tmp' = Dropped
  /\ up' = Quiet
  /\ UNCHANGED <<windows, root, old, tries>>

\* Windows: the binary moves aside, the new one takes its place.
RemoveOld ==
  /\ up.st = "ready" /\ windows
  /\ old' = Gone
  /\ up' = [up EXCEPT !.st = "cleared"]
  /\ UNCHANGED <<windows, root, exe, tmp, tries>>

MoveAside(fails) ==
  /\ up.st = "cleared"
  /\ IF fails THEN tmp' = Dropped /\ up' = Quiet /\ UNCHANGED <<exe, old>>
     ELSE old' = exe /\ exe' = Gone /\ up' = [up EXCEPT !.st = "aside"] /\ UNCHANGED tmp
  /\ UNCHANGED <<windows, root, tries>>

MoveIn(fails) ==
  /\ up.st = "aside"
  /\ IF fails THEN up' = [up EXCEPT !.st = "back"] /\ UNCHANGED <<exe, tmp>>
     ELSE exe' = tmp.file /\ tmp' = Dropped /\ up' = Quiet
  /\ UNCHANGED <<windows, root, old, tries>>

\* Best effort: nobody looks whether it worked.
MoveBack(fails) ==
  /\ up.st = "back"
  /\ IF fails THEN UNCHANGED <<exe, old>> ELSE exe' = old /\ old' = Gone
  /\ up' = Quiet
  /\ UNCHANGED <<windows, root, tmp, tries>>

\* An error of a write or a chmod, or a kill: whatever is on disk stays.
Stops ==
  /\ up.st # "idle"
  /\ up' = Quiet
  /\ UNCHANGED <<windows, root, exe, tmp, old, tries>>

UpgradeNext ==
  \/ \E asked \in Tags \cup {<<>>}, tag \in Tags, sums \in {"listed", "unlisted"} :
       \E bytes \in {Whole(tag), Foreign(tag)} : Download(asked, tag, bytes, sums)
  \/ OpenTmp \/ WriteTmp \/ Chmod \/ RemoveOld \/ Stops
  \/ \E fails \in BOOLEAN : Rename(fails) \/ MoveAside(fails) \/ MoveIn(fails) \/ MoveBack(fails)

UpgradeSpec == UpgradeInit /\ [][UpgradeNext]_gvars

(***************************************************************************)
(* Properties.                                                             *)
(***************************************************************************)

\* The "atomic" replacement: at any moment, and after a kill or an error at any
\* step, a complete file stands at the binary's path; on Windows, where the
\* binary moves aside first, there or beside it.
BinaryKept ==
  \/ exe.is \in {"whole", "foreign"}
  \/ windows /\ exe.is = "gone" /\ old.is \in {"whole", "foreign"}
================================================================================
