---------------------------- MODULE Commands_proofs ----------------------------
(***************************************************************************)
(* Proofs about the commands: the set-up of another program, the upgrade   *)
(* of the binary, the choice of a store, the push of files to a server,    *)
(* the lists of the user and the migration of an index.  They share no     *)
(* state; each has its own specification.                                  *)
(***************************************************************************)
EXTENDS ClientSetup, SelfUpgrade, Backend, BatchPush, UserLists, Migrate, FiniteSetTheorems,
        WellFoundedInduction, TLAPS

------------------------------------------------------------------------------
(* mcp install *)

InstallSteps == {"idle", "merged", "saved"}
Installs == [st : InstallSteps, name : Servers \cup {Resting.name}, value : Values \cup {Resting.value},
             read : SUBSET Pairs]
Confs == [entries : SUBSET Pairs, ok : BOOLEAN]
Baks == [at : Nat, entries : SUBSET Pairs]

SetupTypes ==
  /\ conf \in Confs /\ baks \subseteq Baks /\ inst \in [Installers -> Installs]
  /\ \A i \in Installers : inst[i].st # "idle" => inst[i].name \in Servers /\ inst[i].value \in Values
  /\ everHeld \subseteq Pairs /\ forgone \subseteq Pairs /\ clock \in Nat

Backed(p) == \E b \in baks : p \in b.entries

(* What an install is about to replace has a backup by then, or somebody    *)
(* took the second it was made in.                                         *)
ReadIsBacked == \A i \in Installers : inst[i].st = "saved" => \A p \in inst[i].read : p \in forgone \/ Backed(p)

SetupInv == SetupTypes /\ ReadIsBacked /\ EntriesKept

LEMMA RestingInstalls == Resting \in Installs /\ Resting.st = "idle"
  <1>1. Resting.st = "idle" /\ Resting.read = {}
    BY DEF Resting
  <1>2. Resting = [st |-> Resting.st, name |-> Resting.name, value |-> Resting.value, read |-> Resting.read]
    BY DEF Resting
  <1>3. Resting.st \in InstallSteps /\ Resting.read \in SUBSET Pairs
    BY <1>1 DEF InstallSteps
  <1>4. QED
    BY <1>1, <1>2, <1>3 DEF Installs

\* Replacing an entry yields entries.
LEMMA MergedPairs ==
  ASSUME NEW e \in SUBSET Pairs, NEW s \in Servers, NEW v \in Values
  PROVE  Merged(e, s, v) \in SUBSET Pairs
  BY DEF Merged, Pairs

LEMMA SetupNextInv == SetupInv /\ [SetupNext]_svars => SetupInv'
  <1> SUFFICES ASSUME SetupInv, [SetupNext]_svars PROVE SetupInv'
    OBVIOUS
  <1> USE DEF SetupInv
  <1>1. SetupTypes /\ ReadIsBacked /\ EntriesKept
    OBVIOUS
  <1>2. ASSUME UNCHANGED <<conf, baks, inst, everHeld, forgone>>, clock' \in Nat PROVE SetupInv'
    BY <1>1, <1>2 DEF SetupTypes, ReadIsBacked, EntriesKept, Backed
  <1>3. CASE UNCHANGED svars
    BY <1>1, <1>2, <1>3 DEF svars, SetupTypes
  <1>4. ASSUME NEW i \in Installers, NEW t \in Transports, NEW s \in Servers, NEW v \in Values, NEW r \in BOOLEAN,
               Apply(i, t, s, v, r)
        PROVE  SetupInv'
    <2> DEFINE new == [st |-> "merged", name |-> s, value |-> v, read |-> IF r THEN conf.entries ELSE {}]
    <2>1. new \in Installs /\ new.st = "merged" /\ new.name \in Servers /\ new.value \in Values
      BY <1>1 DEF SetupTypes, Installs, InstallSteps, Confs
    <2>2. /\ inst' = [inst EXCEPT ![i] = new] /\ UNCHANGED <<conf, baks, clock, everHeld>>
          /\ forgone' = IF r THEN forgone ELSE forgone \cup conf.entries
      BY <1>4 DEF Apply
    <2> HIDE DEF new
    <2>3. forgone \subseteq forgone' /\ forgone' \subseteq Pairs
      BY <1>1, <2>2 DEF SetupTypes, Confs
    <2>4. SetupTypes'
      BY <1>1, <2>1, <2>2, <2>3 DEF SetupTypes
    <2>5. ReadIsBacked'
      BY <1>1, <2>1, <2>2, <2>3 DEF ReadIsBacked, Backed, SetupTypes
    <2>6. EntriesKept'
      BY <1>1, <2>2, <2>3 DEF EntriesKept
    <2>7. QED
      BY <2>4, <2>5, <2>6
  <1>5. ASSUME NEW i \in Installers, BackUp(i) PROVE SetupInv'
    <2> DEFINE same == {b \in baks : b.at = clock}
               new == [at |-> clock, entries |-> inst[i].read]
    <2>1. /\ inst' = [inst EXCEPT ![i].st = "saved"] /\ UNCHANGED <<conf, clock, everHeld>>
          /\ \/ inst[i].read = {} /\ UNCHANGED <<baks, forgone>>
             \/ baks' = (baks \ same) \cup {new} /\ forgone' = forgone \cup UNION {b.entries : b \in same}
      BY <1>5 DEF BackUp
    <2>2. new \in Baks /\ new.entries = inst[i].read
      BY <1>1 DEF SetupTypes, Baks, Installs
    <2>3. baks' \subseteq Baks /\ forgone \subseteq forgone' /\ forgone' \subseteq Pairs
      BY <1>1, <2>1, <2>2 DEF SetupTypes, Baks
    <2>4. /\ inst' \in [Installers -> Installs] /\ inst'[i].read = inst[i].read
          /\ inst[i].st = "merged" /\ inst'[i].name = inst[i].name /\ inst'[i].value = inst[i].value
          /\ \A j \in Installers : j # i => inst'[j] = inst[j]
      BY <1>1, <1>5, <2>1 DEF SetupTypes, Installs, InstallSteps, BackUp
    <2>5. \A p \in inst[i].read : Backed(p)'
      BY <2>1, <2>2 DEF Backed
    <2>6. \A p : Backed(p) => Backed(p)' \/ p \in forgone'
      BY <2>1 DEF Backed
    <2> HIDE DEF same, new
    <2>7. ReadIsBacked'
      <3>1. ASSUME NEW j \in Installers, inst'[j].st = "saved", NEW p \in inst'[j].read
            PROVE  p \in forgone' \/ Backed(p)'
        BY <1>1, <2>3, <2>4, <2>5, <2>6, <3>1 DEF ReadIsBacked
      <3>2. QED
        BY <3>1 DEF ReadIsBacked
    <2>8. EntriesKept'
      <3>1. ASSUME NEW p \in everHeld \ forgone' PROVE p \in conf.entries \/ Backed(p)'
        BY <1>1, <2>3, <2>6 DEF EntriesKept, Backed
      <3>2. QED
        BY <2>1, <3>1 DEF EntriesKept, Backed
    <2>9. SetupTypes'
      BY <1>1, <2>1, <2>3, <2>4 DEF SetupTypes
    <2>10. QED
      BY <2>7, <2>8, <2>9
  <1>6. ASSUME NEW i \in Installers, Replace(i) PROVE SetupInv'
    <2> DEFINE new == Merged(inst[i].read, inst[i].name, inst[i].value)
    <2>1. /\ inst[i].st = "saved" /\ UNCHANGED <<baks, clock>>
          /\ conf' = [conf EXCEPT !.entries = new, !.ok = @ \/ ReadsJSON]
          /\ everHeld' = everHeld \cup new /\ forgone' = forgone \cup (conf.entries \ inst[i].read)
          /\ inst' = [inst EXCEPT ![i] = Resting]
      BY <1>6 DEF Replace
    <2>2. PICK n : n = new
      OBVIOUS
    <2>3. inst[i].name \in Servers /\ inst[i].value \in Values /\ inst[i].read \in SUBSET Pairs
      BY <1>1, <2>1 DEF SetupTypes, Installs
    <2>4. n \in SUBSET Pairs
      BY <2>2, <2>3, MergedPairs
    <2> HIDE DEF new
    <2>5. conf' \in Confs /\ conf'.entries = n
      BY <1>1, <2>1, <2>2, <2>4 DEF SetupTypes, Confs, ReadsJSON
    <2>6. /\ inst' \in [Installers -> Installs] /\ inst'[i].st = "idle"
          /\ \A j \in Installers : j # i => inst'[j] = inst[j]
      BY <1>1, <2>1, RestingInstalls DEF SetupTypes
    <2>7. forgone \subseteq forgone' /\ forgone' \subseteq Pairs
      BY <1>1, <2>1 DEF SetupTypes, Confs
    <2>8. SetupTypes'
      BY <1>1, <2>1, <2>2, <2>4, <2>5, <2>6, <2>7 DEF SetupTypes
    <2>9. ReadIsBacked'
      BY <1>1, <2>1, <2>6, <2>7 DEF ReadIsBacked, Backed
    <2>10. EntriesKept'
      <3>1. ASSUME NEW p \in everHeld' \ forgone' PROVE p \in n \/ Backed(p)
        <4>1. p \in n \/ p \in conf.entries \/ Backed(p)
          BY <1>1, <2>1, <2>2, <2>7, <3>1 DEF EntriesKept, Backed
        <4>2. CASE p \in conf.entries
          BY <1>1, <2>1, <3>1, <4>2 DEF ReadIsBacked
        <4>3. QED
          BY <4>1, <4>2
      <3>2. QED
        BY <2>1, <2>5, <3>1 DEF EntriesKept, Backed
    <2>11. QED
      BY <2>8, <2>9, <2>10
  <1>7. ASSUME NEW e \in SUBSET Pairs, NEW ok \in BOOLEAN, OthersEdit(e, ok) PROVE SetupInv'
    <2>1. /\ UNCHANGED <<baks, clock, inst>> /\ conf' = [entries |-> e, ok |-> ok]
          /\ everHeld' = everHeld \cup e /\ forgone' = forgone \cup (conf.entries \ e)
      BY <1>7 DEF OthersEdit
    <2>2. conf' \in Confs /\ conf'.entries = e
      BY <2>1 DEF Confs
    <2>3. SetupTypes' /\ ReadIsBacked'
      BY <1>1, <2>1, <2>2 DEF SetupTypes, ReadIsBacked, Backed, Confs
    <2>4. EntriesKept'
      BY <1>1, <2>1, <2>2 DEF EntriesKept
    <2>5. QED
      BY <2>3, <2>4
  <1>8. ASSUME NEW i \in Installers, InstallEnds(i) PROVE SetupInv'
    <2>1. inst' = [inst EXCEPT ![i] = Resting] /\ UNCHANGED <<conf, baks, clock, everHeld, forgone>>
      BY <1>8 DEF InstallEnds
    <2>2. /\ inst' \in [Installers -> Installs] /\ inst'[i].st = "idle"
          /\ \A j \in Installers : j # i => inst'[j] = inst[j]
      BY <1>1, <2>1, RestingInstalls DEF SetupTypes
    <2>3. SetupTypes' /\ ReadIsBacked' /\ EntriesKept'
      BY <1>1, <2>1, <2>2 DEF SetupTypes, ReadIsBacked, EntriesKept, Backed
    <2>4. QED
      BY <2>3
  <1>9. ASSUME Tick \/ KillSkills \/ \E f \in Skills : WriteSkill(f) \/ \E b \in BOOLEAN : EmptySkill(f, b)
        PROVE  SetupInv'
    <2>1. UNCHANGED <<conf, baks, inst, everHeld, forgone>> /\ clock' \in Nat
      BY <1>1, <1>9 DEF Tick, KillSkills, WriteSkill, EmptySkill, SetupTypes
    <2>2. QED
      BY <1>2, <2>1
  <1>10. CASE SetupNext
    <2>1. conf.entries \in SUBSET Pairs
      BY <1>1 DEF SetupTypes, Confs
    <2>2. \A s \in Servers, v \in Values : Merged(conf.entries, s, v) \in SUBSET Pairs
      BY <2>1, MergedPairs
    <2>3. QED
      BY <1>4, <1>5, <1>6, <1>7, <1>8, <1>9, <1>10, <2>1, <2>2 DEF SetupNext
  <1>11. QED
    BY <1>3, <1>10

\* `mcp install --apply` loses no entry of another program's configuration, however
\* many installs and rewrites by others overlap and wherever an install ends: what
\* is no longer in the file is in a backup, but for the cases the property names
\* (mcpinstall.go Apply, writeConfigFile).
THEOREM InstallsKeepEntries == SetupSpec => []EntriesKept
  <1>1. SetupInit => SetupInv
    <2> SUFFICES ASSUME SetupInit PROVE SetupInv
      OBVIOUS
    <2>1. PICK e \in SUBSET Pairs : conf = [entries |-> e, ok |-> TRUE] /\ everHeld = e
      BY DEF SetupInit
    <2>2. SetupTypes /\ ReadIsBacked
      BY <2>1, RestingInstalls DEF SetupInit, SetupTypes, ReadIsBacked, Confs, Baks
    <2>3. EntriesKept
      BY <2>1 DEF EntriesKept
    <2>4. QED
      BY <2>2, <2>3 DEF SetupInv
  <1>2. SetupInv => EntriesKept
    BY DEF SetupInv
  <1>3. QED
    BY <1>1, <1>2, SetupNextInv, PTL DEF SetupSpec

------------------------------------------------------------------------------
(* upgrade *)

TagsKnown == Tags \cup {Running}
Binaries == [tag : TagsKnown, is : {"whole", "part", "foreign", "gone"}]
Runs(f) == f.is \in {"whole", "foreign"}

UpgradeSteps == {"idle", "got", "writing", "written", "ready", "cleared", "aside", "back"}

UpgradeTypes ==
  /\ exe \in Binaries /\ old \in Binaries /\ windows \in BOOLEAN
  /\ tmp \in [file : Binaries, open : BOOLEAN]
  /\ up \in [st : UpgradeSteps, tag : TagsKnown, bin : Binaries]

(* From the moment the new binary is complete it is what the temporary file *)
(* holds, and the old one has moved aside only where it had to.            *)
UpgradeInv ==
  /\ UpgradeTypes
  /\ up.st # "idle" => Runs(up.bin)
  /\ up.st \in {"written", "ready", "cleared", "aside", "back"} => tmp.file = up.bin
  /\ up.st \in {"got", "writing", "written", "ready", "cleared"} => Runs(exe)
  /\ up.st \in {"cleared", "aside", "back"} => windows
  /\ up.st \in {"aside", "back"} => exe.is = "gone" /\ Runs(old)
  /\ up.st = "idle" => BinaryKept

LEMMA FilesStored ==
  ASSUME NEW t \in TagsKnown
  PROVE  /\ Whole(t) \in Binaries /\ Part(t) \in Binaries /\ Foreign(t) \in Binaries
         /\ Runs(Whole(t)) /\ Runs(Foreign(t))
  BY DEF Whole, Part, Foreign, Binaries, Runs

LEMMA QuietStored ==
  /\ Gone \in Binaries /\ Gone.is = "gone"
  /\ Quiet \in [st : UpgradeSteps, tag : TagsKnown, bin : Binaries] /\ Quiet.st = "idle"
  /\ Dropped \in [file : Binaries, open : BOOLEAN]
  <1>1. Gone \in Binaries /\ Gone.is = "gone"
    BY DEF Gone, Binaries, TagsKnown
  <1>2. QED
    BY <1>1 DEF Quiet, Dropped, UpgradeSteps, TagsKnown

LEMMA UpgradeNextInv == UpgradeInv /\ [UpgradeNext]_gvars => UpgradeInv'
  <1> SUFFICES ASSUME UpgradeInv, [UpgradeNext]_gvars PROVE UpgradeInv'
    OBVIOUS
  <1> USE DEF UpgradeInv, UpgradeTypes, UpgradeSteps
  <1>1. CASE UNCHANGED gvars
    BY <1>1 DEF gvars, BinaryKept
  <1>2. ASSUME NEW asked, NEW tag \in Tags, NEW sums, NEW bytes \in {Whole(tag), Foreign(tag)},
               Download(asked, tag, bytes, sums)
        PROVE  UpgradeInv'
    <2>1. bytes \in Binaries /\ Runs(bytes) /\ tag \in TagsKnown
      BY FilesStored DEF TagsKnown
    <2>2. up' = [st |-> "got", tag |-> tag, bin |-> bytes] /\ UNCHANGED <<windows, exe, tmp, old>> /\ exe.is = "whole"
      BY <1>2 DEF Download
    <2>3. up' \in [st : UpgradeSteps, tag : TagsKnown, bin : Binaries] /\ up'.st = "got" /\ up'.bin = bytes
      BY <2>1, <2>2
    <2>4. QED
      BY <2>1, <2>2, <2>3 DEF Runs
  <1>3. CASE OpenTmp
    <2>1. /\ up.st = "got" /\ UNCHANGED <<windows, exe, old>>
          /\ tmp' = [tmp EXCEPT !.file = Part(up.tag)] /\ up' = [up EXCEPT !.st = "writing"]
      BY <1>3 DEF OpenTmp
    <2>2. tmp' \in [file : Binaries, open : BOOLEAN]
      BY <2>1, FilesStored
    <2>3. QED
      BY <2>1, <2>2
  <1>4. CASE WriteTmp
    BY <1>4 DEF WriteTmp
  <1>5. CASE Chmod
    BY <1>5 DEF Chmod
  <1>6. CASE RemoveOld
    BY <1>6, QuietStored DEF RemoveOld
  <1>7. CASE Stops
    <2>1. up' = Quiet /\ UNCHANGED <<windows, exe, tmp, old>> /\ up.st # "idle"
      BY <1>7 DEF Stops
    <2>2. BinaryKept
      BY <2>1 DEF BinaryKept, Runs
    <2>3. QED
      BY <2>1, <2>2, QuietStored DEF BinaryKept
  <1>8. ASSUME NEW fails \in BOOLEAN, Rename(fails) PROVE UpgradeInv'
    <2>1. /\ up.st = "ready" /\ up' = Quiet /\ tmp' = Dropped /\ UNCHANGED <<windows, old>>
          /\ exe' = exe \/ exe' = tmp.file
      BY <1>8 DEF Rename
    <2>2. Runs(exe') /\ exe' \in Binaries
      BY <2>1
    <2>3. QED
      BY <2>1, <2>2, QuietStored DEF BinaryKept, Runs
  <1>9. ASSUME NEW fails \in BOOLEAN, MoveAside(fails) PROVE UpgradeInv'
    <2>1. up.st = "cleared" /\ windows' = windows
      BY <1>9 DEF MoveAside
    <2>2. CASE fails
      <3>1. tmp' = Dropped /\ up' = Quiet /\ exe' = exe /\ old' = old
        BY <1>9, <2>2 DEF MoveAside
      <3>2. QED
        BY <2>1, <3>1, QuietStored DEF BinaryKept, Runs
    <2>3. CASE ~fails
      <3>1. old' = exe /\ exe' = Gone /\ up' = [up EXCEPT !.st = "aside"] /\ tmp' = tmp
        BY <1>9, <2>3 DEF MoveAside
      <3>2. QED
        BY <2>1, <3>1, QuietStored
    <2>4. QED
      BY <2>2, <2>3
  <1>10. ASSUME NEW fails \in BOOLEAN, MoveIn(fails) PROVE UpgradeInv'
    <2>1. up.st = "aside" /\ windows' = windows /\ old' = old
      BY <1>10 DEF MoveIn
    <2>2. CASE fails
      <3>1. up' = [up EXCEPT !.st = "back"] /\ UNCHANGED <<exe, tmp>>
        BY <1>10, <2>2 DEF MoveIn
      <3>2. QED
        BY <2>1, <3>1
    <2>3. CASE ~fails
      <3>1. exe' = tmp.file /\ tmp' = Dropped /\ up' = Quiet
        BY <1>10, <2>3 DEF MoveIn
      <3>2. QED
        BY <2>1, <3>1, QuietStored DEF BinaryKept, Runs
    <2>4. QED
      BY <2>2, <2>3
  <1>11. ASSUME NEW fails \in BOOLEAN, MoveBack(fails) PROVE UpgradeInv'
    <2>1. up.st = "back" /\ windows' = windows /\ tmp' = tmp /\ up' = Quiet
      BY <1>11 DEF MoveBack
    <2>2. (exe' = exe /\ old' = old) \/ (exe' = old /\ old' = Gone)
      BY <1>11 DEF MoveBack
    <2>3. QED
      BY <2>1, <2>2, QuietStored DEF BinaryKept, Runs
  <1>12. CASE UpgradeNext
    BY <1>2, <1>3, <1>4, <1>5, <1>6, <1>7, <1>8, <1>9, <1>10, <1>11, <1>12 DEF UpgradeNext
  <1>13. QED
    BY <1>1, <1>12

\* Whatever releases there are, wherever an upgrade fails or is killed and however
\* often it is tried again, a complete binary stands at its path or, on Windows
\* while the path is empty, beside it (upgrade.go replaceBinaryAt).
THEOREM UpgradesKeepTheBinary == UpgradeSpec => []BinaryKept
  <1>1. UpgradeInit => UpgradeInv
    <2> SUFFICES ASSUME UpgradeInit PROVE UpgradeInv
      OBVIOUS
    <2>1. exe \in Binaries /\ Runs(exe) /\ exe.is = "whole"
      BY FilesStored DEF UpgradeInit, TagsKnown, Whole
    <2>2. tmp \in [file : Binaries, open : BOOLEAN]
      BY QuietStored DEF UpgradeInit
    <2>3. QED
      BY <2>1, <2>2, QuietStored DEF UpgradeInit, UpgradeInv, UpgradeTypes, BinaryKept
  <1>2. UpgradeInv => BinaryKept
    BY DEF UpgradeInv, UpgradeTypes, UpgradeSteps, BinaryKept, Runs
  <1>3. QED
    BY <1>1, <1>2, UpgradeNextInv, PTL DEF UpgradeSpec

------------------------------------------------------------------------------
(* The choice of a store *)

(* What the root command makes of the settings, which nothing changes       *)
(* afterwards.                                                             *)
Made == [ok |-> TRUE, remote |-> UseRemote, index |-> IF ZeroConfig THEN Default ELSE IndexAsked,
         keyword |-> KeywordOnly \/ flags.keyword \/ ZeroConfig]

BackendInv == deps \in {NoDeps, Made} /\ (shown # <<>> => deps.ok /\ shown = ActiveBackend)

LEMMA GivenSettingsDiffer == Unset # Default
  <1>1. SUFFICES ASSUME Unset = Default PROVE FALSE
    OBVIOUS
  <1>2. {Unset, Default, Given} = {Default} \cup {Given}
    BY <1>1
  <1>3. IsFiniteSet({Default}) /\ Cardinality({Default}) = 1
    BY FS_Singleton
  <1>4. Cardinality({Default} \cup {Given}) \in {1, 2}
    BY <1>3, FS_AddElement
  <1>5. QED
    BY <1>2, <1>4, SettingsAssumption

\* Without an index of its own a run has no local index to name either.
LEMMA NoIndexNoPath ==
  ASSUME deps = Made, deps.index = Unset
  PROVE  /\ LocalIndexPath = Unset
         /\ Effective("SEMIDX_DB_DSN") = Unset => Effective("SEMIDX_LOCAL_INDEX") = Unset
  <1>1. IndexAsked = Unset
    BY GivenSettingsDiffer DEF Made
  <1>2. LocalIndexPath = Unset
    BY <1>1 DEF IndexAsked
  <1>3. QED
    BY <1>2, GivenSettingsDiffer DEF LocalIndexPath, LocalIndexRequested

\* The label `config list` prints is that of the store the command uses.
LEMMA LabelIsTrue ==
  ASSUME deps = Made
  PROVE  /\ ActiveBackend[1] \in {"?", Used[1]}
         /\ ActiveBackend[2] \in {"?", Used[2]}
  <1>1. CASE deps.remote
    BY <1>1 DEF ActiveBackend, Used
  <1>2. CASE ~deps.remote /\ deps.index # Unset
    BY <1>2 DEF ActiveBackend, Used, Store
  <1>3. CASE ~deps.remote /\ deps.index = Unset
    BY <1>3, NoIndexNoPath DEF ActiveBackend, Used, Store
  <1>4. QED
    BY <1>1, <1>2, <1>3

\* BackendInit without its bound: any settings in any of the layers, any flags.
AnySettings == deps = NoDeps /\ shown = <<>>

\* For every combination of settings and flags, `config list` names the store that
\* search, index and the others work on (config.go activeBackend, deps_setup.go,
\* backend.go).
THEOREM ReportsAreTrue == AnySettings /\ [][BackendNext]_bvars => []ReportIsTrue
  <1>1. AnySettings => BackendInv
    BY DEF AnySettings, BackendInv
  <1>2. BackendInv /\ [BackendNext]_bvars => BackendInv'
    <2> SUFFICES ASSUME BackendInv, [BackendNext]_bvars PROVE BackendInv'
      OBVIOUS
    <2>1. ASSUME UNCHANGED <<settings, login, flags>> PROVE Made' = Made
      BY <2>1 DEF Made, UseRemote, ZeroConfig, IndexAsked, KeywordOnly, ForcedLocal, ServerURL, Mode,
         ZeroConfigRecommended, LocalIndexPath, LocalIndexRequested, HasProvider, Effective
    <2>2. ASSUME UNCHANGED <<settings, login, flags, deps>> PROVE ActiveBackend' = ActiveBackend
      BY <2>2 DEF ActiveBackend, ServerURL, KeywordOnly, LocalIndexPath, LocalIndexRequested, Effective
    <2>3. CASE UNCHANGED bvars
      BY <2>1, <2>2, <2>3 DEF bvars, BackendInv
    <2>4. CASE Setup
      <3>1. deps = NoDeps /\ deps' = Made /\ UNCHANGED <<settings, login, flags, shown>>
        BY <2>4 DEF Setup, Made
      <3>2. shown = <<>>
        BY <3>1 DEF BackendInv, NoDeps
      <3>3. QED
        BY <2>1, <3>1, <3>2 DEF BackendInv
    <2>5. CASE ConfigList
      <3>1. deps.ok /\ shown' = ActiveBackend /\ UNCHANGED <<settings, login, flags, deps>>
        BY <2>5 DEF ConfigList
      <3>2. QED
        BY <2>1, <2>2, <3>1 DEF BackendInv
    <2>6. QED
      BY <2>3, <2>4, <2>5 DEF BackendNext
  <1>3. BackendInv => ReportIsTrue
    <2>1. ASSUME BackendInv, shown # <<>> PROVE shown[1] \in {"?", Used[1]} /\ shown[2] \in {"?", Used[2]}
      <3>1. deps = Made /\ shown = ActiveBackend
        BY <2>1 DEF BackendInv, NoDeps
      <3>2. QED
        BY <3>1, LabelIsTrue
    <2>2. QED
      BY <2>1 DEF ReportIsTrue
  <1>4. QED
    BY <1>1, <1>2, <1>3, PTL

------------------------------------------------------------------------------
(* A push in batches                                                         *)

JobRecords == [st : {"queued", "running", "succeeded", "failed"}, embed : BOOLEAN,
               tree : Trees, put : SUBSET Paths, del : SUBSET Paths]

\* The hash of what a worker stores is the one the client asks for: no file's text is
\* extracted by the server.  Where it is, Prune removes the version it was to keep.
HashesAgree == Docs = {} \/ EmbedModes \subseteq {TRUE}

TaskRecords == [st : {"idle", "delete", "files", "remove"} \cup FileSteps,
                job : 0 .. Len(jobs), del : SUBSET Paths, todo : SUBSET Paths,
                path : Paths \cup {NoPath}, created : BOOLEAN, live : BOOLEAN]

PushTypes ==
  /\ TypeOK
  /\ jobs \in Seq(JobRecords)
  /\ some \subseteq Paths \X Hashes

Covers(i, p) == p \in jobs[i].put \cup jobs[i].del
Busy(w) == task[w].st # "idle"
OnFile(w) == task[w].st \in FileSteps \cup {"remove"}

(* A job puts files that the pushed tree has and deletes those it lacks.     *)
JobsSound ==
  /\ \A i \in DOMAIN jobs : \A p \in Paths :
       /\ jobs[i].embed \in EmbedModes
       /\ p \in jobs[i].put => jobs[i].tree[p] # Absent
       /\ p \in jobs[i].del => jobs[i].tree[p] = Absent
  /\ push.st # "idle" => push.embed \in EmbedModes
  /\ \A p \in push.put : push.tree[p] # Absent
  /\ \A p \in push.del : push.tree[p] = Absent
  /\ push.st \in {"idle", "diff"} => push.put = {} /\ push.del = {}
  /\ push.st = "wait" => /\ push.job \in DOMAIN jobs /\ jobs[push.job].tree = push.tree
                         /\ push.del = {} /\ push.put \cap jobs[push.job].put = {}
  /\ reported # NoPush => push.st = "idle"

(* A worker has a running job of its own.                                    *)
WorkerSound(w) ==
  /\ task[w].job \in DOMAIN jobs /\ Job(w).st = "running"
  /\ task[w].todo \subseteq Job(w).put /\ task[w].del \subseteq Job(w).del
  /\ task[w].st = "delete" => task[w].todo = Job(w).put
  /\ task[w].st # "delete" => task[w].del = {}
  /\ OnFile(w) => task[w].path \in task[w].todo
  /\ At(w, "remove") => Content(w) = Blank
  /\ task[w].st \in FileSteps => Content(w) \in Texts
WorkersSound ==
  /\ \A w \in Workers : Busy(w) => WorkerSound(w)
  /\ \A u, w \in Workers : Busy(u) /\ Busy(w) /\ task[u].job = task[w].job => u = w

\* A row a worker holds is there.
Alive(w) == task[w].live => OnFile(w) /\ Has(task[w].path, Version(w))
RowsHeld == \A w \in Workers : Alive(w)

(* A version of c that has chunks is all the server has of the file.         *)
Fresh(p, c) == c \in Texts /\ <<p, Hashed(c)>> \in some => Matches(p, c)

(* No two jobs under way are about one file, and none but the job that the   *)
(* push waits for is about a file the push has promised.                     *)
Pushed == push.st \in {"send", "wait"} \/ reported # NoPush
OneJob(p) ==
  /\ \A i, k \in DOMAIN jobs : Unfinished(i) /\ Unfinished(k) /\ Covers(i, p) /\ Covers(k, p) => i = k
  /\ Pushed => \A i \in DOMAIN jobs : Unfinished(i) /\ Covers(i, p) => push.st = "wait" /\ i = push.job

(* A job can start over with the file, but where a version waits for its     *)
(* prune.                                                                    *)
JobAt(p) ==
  \A i \in DOMAIN jobs : Unfinished(i) /\ Covers(i, p) =>
    \/ Fresh(p, jobs[i].tree[p])
    \/ \E w \in Workers : At(w, "prune") /\ task[w].path = p

(* How far a worker has got with the file.                                   *)
Handled(w, p) == /\ p \in Job(w).put => p \notin task[w].todo
                 /\ p \in Job(w).del => p \notin task[w].del
FarEnough(w, p) ==
  LET v == <<p, Hashed(Job(w).tree[p])>> IN
  /\ Handled(w, p) => Matches(p, Job(w).tree[p])
  /\ OnFile(w) /\ task[w].path = p =>
       /\ task[w].st \in {"upsert", "clear", "insert"} => v \notin some
       /\ task[w].st \in {"clear", "insert"} => task[w].live /\ Has(p, v[2])
       /\ task[w].st = "prune" => v \in whole
       /\ task[w].st # "rollback"
WorkerAt(p) == \A w \in Workers : Busy(w) /\ Covers(task[w].job, p) => FarEnough(w, p)

(* What the push, or its report, may count on.                               *)
Target == IF reported = NoPush THEN push.tree ELSE reported
ClientAt(p) ==
  Pushed =>
    IF p \in push.put \cup push.del THEN Fresh(p, Target[p])
    ELSE IF push.st = "wait" /\ Covers(push.job, p)
      THEN jobs[push.job].st = "succeeded" => Matches(p, Target[p])
      ELSE Matches(p, Target[p])

OnCourse(p) == OneJob(p) /\ JobAt(p) /\ WorkerAt(p) /\ ClientAt(p)

PushInv == PushTypes /\ JobsSound /\ WorkersSound /\ RowsHeld /\ \A p \in Paths \ excused : OnCourse(p)

Rows(s) == {s[i] : i \in 1 .. Len(s)}
RowsDiffer(s) == \A i, k \in 1 .. Len(s) : s[i] = s[k] => i = k

LEMMA WithoutFacts ==
  ASSUME NEW s \in Seq(Hashes), RowsDiffer(s), NEW h
  PROVE  /\ Without(s, h) \in Seq(Hashes) /\ RowsDiffer(Without(s, h))
         /\ Rows(Without(s, h)) = Rows(s) \ {h}
  <1>1. CASE ~ \E i \in 1 .. Len(s) : s[i] = h
    BY <1>1 DEF Without, Rows
  <1>2. CASE \E i \in 1 .. Len(s) : s[i] = h
    <2> DEFINE k == CHOOSE i \in 1 .. Len(s) : s[i] = h
               a == SubSeq(s, 1, k - 1)
               b == SubSeq(s, k + 1, Len(s))
               t == a \o b
    <2>1. k \in 1 .. Len(s) /\ s[k] = h
      BY <1>2
    <2>2. Without(s, h) = SubSeq(s, 1, k - 1) \o SubSeq(s, k + 1, Len(s))
      BY <1>2 DEF Without
    <2> HIDE DEF k
    <2>3. Without(s, h) = t
      BY <2>2
    <2>a. a \in Seq(Hashes) /\ Len(a) = k - 1 /\ \A i \in 1 .. k - 1 : a[i] = s[i]
      BY <2>1
    <2>b. b \in Seq(Hashes) /\ Len(b) = Len(s) - k /\ \A i \in 1 .. Len(s) - k : b[i] = s[k + i]
      BY <2>1
    <2> HIDE DEF a, b
    <2>c. t \in Seq(Hashes) /\ Len(t) = Len(a) + Len(b)
      BY <2>a, <2>b, SMTT(60)
    <2>4. t \in Seq(Hashes) /\ Len(t) = Len(s) - 1
      BY <2>1, <2>a, <2>b, <2>c
    <2>5. \A i \in 1 .. Len(t) : t[i] = IF i < k THEN s[i] ELSE s[i + 1]
      <3> SUFFICES ASSUME NEW i \in 1 .. Len(t) PROVE t[i] = IF i < k THEN s[i] ELSE s[i + 1]
        OBVIOUS
      <3>1. CASE i < k
        BY <2>1, <2>4, <2>a, <2>b, <3>1
      <3>2. CASE ~(i < k)
        <4>1. t[i] = b[i - (k - 1)] /\ i - (k - 1) \in 1 .. Len(s) - k
          BY <2>1, <2>4, <2>a, <2>b, <3>2
        <4>2. QED
          BY <2>1, <2>b, <3>2, <4>1, SMTT(60)
      <3>3. QED
        BY <3>1, <3>2
    <2> HIDE DEF t
    <2>6. RowsDiffer(t)
      BY <2>1, <2>4, <2>5, SMTT(60) DEF RowsDiffer
    <2>7. Rows(t) \subseteq Rows(s) \ {h}
      <3> SUFFICES ASSUME NEW i \in 1 .. Len(t) PROVE t[i] \in Rows(s) \ {h}
        BY DEF Rows
      <3>1. CASE i < k
        BY <2>1, <2>4, <2>5, <3>1 DEF Rows, RowsDiffer
      <3>2. CASE ~(i < k)
        BY <2>1, <2>4, <2>5, <3>2 DEF Rows, RowsDiffer
      <3>3. QED
        BY <3>1, <3>2
    <2>8. Rows(s) \ {h} \subseteq Rows(t)
      <3> SUFFICES ASSUME NEW i \in 1 .. Len(s), s[i] # h PROVE \E j \in 1 .. Len(t) : t[j] = s[i]
        BY DEF Rows
      <3>1. CASE i < k
        <4>1. i \in 1 .. Len(t) /\ t[i] = s[i]
          BY <2>1, <2>4, <2>5, <3>1
        <4>2. QED
          BY <4>1
      <3>2. CASE i > k
        <4>1. i - 1 \in 1 .. Len(t) /\ t[i - 1] = s[i]
          BY <2>1, <2>4, <2>5, <3>2
        <4>2. QED
          BY <4>1
      <3>3. QED
        BY <2>1, <3>1, <3>2
    <2>9. QED
      BY <2>3, <2>4, <2>6, <2>7, <2>8
  <1>3. QED
    BY <1>1, <1>2

LEMMA AppendRows ==
  ASSUME NEW s \in Seq(Hashes), RowsDiffer(s), NEW h \in Hashes, h \notin Rows(s)
  PROVE  /\ Append(s, h) \in Seq(Hashes) /\ RowsDiffer(Append(s, h))
         /\ Rows(Append(s, h)) = Rows(s) \cup {h}
  <1> DEFINE t == Append(s, h)
  <1>1. t \in Seq(Hashes) /\ Len(t) = Len(s) + 1 /\ t[Len(t)] = h /\ \A i \in 1 .. Len(s) : t[i] = s[i]
    OBVIOUS
  <1> HIDE DEF t
  <1>2. \A i \in 1 .. Len(t) : i = Len(t) \/ i \in 1 .. Len(s)
    BY <1>1
  <1>3. RowsDiffer(t)
    BY <1>1, <1>2 DEF RowsDiffer, Rows
  <1>4. Rows(t) = Rows(s) \cup {h}
    <2>1. \A g \in Rows(t) : g \in Rows(s) \cup {h}
      BY <1>1, <1>2 DEF Rows
    <2>2. \A i \in 1 .. Len(s) : i \in 1 .. Len(t) /\ Len(t) \in 1 .. Len(t)
      BY <1>1
    <2>3. Len(t) \in 1 .. Len(t)
      BY <1>1
    <2>4. \A g \in Rows(s) \cup {h} : g \in Rows(t)
      BY <1>1, <2>2, <2>3 DEF Rows
    <2>5. QED
      BY <2>1, <2>4
  <1>5. QED
    BY <1>1, <1>3, <1>4 DEF t

LEMMA OneRow ==
  ASSUME NEW h \in Hashes
  PROVE  /\ <<h>> \in Seq(Hashes) /\ RowsDiffer(<<h>>) /\ Rows(<<h>>) = {h}
         /\ <<>> \in Seq(Hashes) /\ RowsDiffer(<<>>) /\ Rows(<<>>) = {}
  BY DEF RowsDiffer, Rows

LEMMA HashTypes == \A c \in Texts : Hashed(c) \in Hashes
  BY DEF Hashed, Hashes

\* The store of rows and chunks is sound, in the words of the lemmas above.
LEMMA StoreFacts ==
  ASSUME PushTypes
  PROVE  /\ rows \in [Paths -> Seq(Hashes)] /\ \A p \in Paths : RowsDiffer(rows[p])
         /\ whole \subseteq some
         /\ \A p \in Paths, h \in Hashes : <<p, h>> \in some => h \in Rows(rows[p])
         /\ \A p \in Paths : \A h : Has(p, h) <=> h \in Rows(rows[p])
  <1>1. rows \in [Paths -> Seq(Hashes)] /\ \A p \in Paths : RowsDiffer(rows[p])
    BY DEF PushTypes, TypeOK, RowsDiffer
  <1>2. \A p \in Paths, h \in Hashes : <<p, h>> \in some => h \in Rows(rows[p])
    <2> SUFFICES ASSUME NEW p \in Paths, NEW h \in Hashes, <<p, h>> \in some PROVE h \in Rows(rows[p])
      OBVIOUS
    <2> DEFINE v == <<p, h>>
    <2>1. \E i \in 1 .. Len(rows[v[1]]) : rows[v[1]][i] = v[2]
      BY DEF PushTypes, TypeOK
    <2>2. QED
      BY <2>1 DEF Rows
  <1>3. \A p \in Paths : \A h : Has(p, h) <=> h \in Rows(rows[p])
    BY DEF Has, Rows
  <1>4. QED
    BY <1>1, <1>2, <1>3 DEF PushTypes, TypeOK

StoreTypes ==
  /\ rows \in [Paths -> Seq(Hashes)] /\ \A p \in Paths : RowsDiffer(rows[p])
  /\ whole \subseteq some /\ some \subseteq Paths \X Hashes
  /\ \A p \in Paths, h \in Hashes : <<p, h>> \in some => h \in Rows(rows[p])

PushParts ==
  /\ tree \in Trees /\ reported \in Trees \cup {NoPush}
  /\ push \in [st : {"idle", "diff", "send", "wait"}, embed : BOOLEAN, tree : Trees,
               put : SUBSET Paths, del : SUBSET Paths, job : 0 .. Len(jobs)]
  /\ jobs \in Seq(JobRecords)
  /\ task \in [Workers -> TaskRecords]
  /\ excused \subseteq Paths
  /\ StoreTypes

LEMMA PushTypesSplit == PushTypes <=> PushParts
  <1>1. PushTypes => StoreTypes
    BY StoreFacts DEF StoreTypes, PushTypes
  <1>2. ASSUME StoreTypes PROVE \A v \in some : \E i \in 1 .. Len(rows[v[1]]) : rows[v[1]][i] = v[2]
    <2> SUFFICES ASSUME NEW v \in some PROVE \E i \in 1 .. Len(rows[v[1]]) : rows[v[1]][i] = v[2]
      OBVIOUS
    <2>1. v[1] \in Paths /\ v[2] \in Hashes /\ v = <<v[1], v[2]>>
      BY <1>2 DEF StoreTypes
    <2>2. v[2] \in Rows(rows[v[1]])
      BY <1>2, <2>1 DEF StoreTypes
    <2>3. QED
      BY <2>2 DEF Rows
  <1>3. ASSUME jobs \in Seq(JobRecords)
        PROVE \A i \in 1 .. Len(jobs) :
                jobs[i] \in [st : {"queued", "running", "succeeded", "failed"}, embed : BOOLEAN,
                             tree : Trees, put : SUBSET Paths, del : SUBSET Paths]
    <2>1. \A i \in 1 .. Len(jobs) : jobs[i] \in JobRecords
      BY <1>3
    <2>2. QED
      BY <2>1 DEF JobRecords
  <1>4. QED
    BY <1>1, <1>2, <1>3 DEF PushTypes, PushParts, TypeOK, TaskRecords, StoreTypes, RowsDiffer

LEMMA PushTypesNext == PushTypes' <=> PushParts'
  <1>1. QED
    BY PushTypesSplit, PTL

LEMMA PushStarts == Init => PushInv
  <1> SUFFICES ASSUME Init PROVE PushInv
    OBVIOUS
  <1>1. StoreTypes
    BY DEF Init, StoreTypes, RowsDiffer
  <1>2. push \in [st : {"idle", "diff", "send", "wait"}, embed : BOOLEAN, tree : Trees,
                  put : SUBSET Paths, del : SUBSET Paths, job : 0 .. Len(jobs)]
    BY DEF Init, NotPushing, Trees, Contents
  <1>3. task \in [Workers -> TaskRecords]
    BY DEF Init, Idle, TaskRecords
  <1>4. PushTypes
    BY <1>1, <1>2, <1>3, PushTypesSplit DEF PushParts, Init
  <1>5. JobsSound /\ WorkersSound
    BY DEF Init, JobsSound, WorkersSound, Busy, Idle, NotPushing
  <1>6. \A p \in Paths : OneJob(p) /\ JobAt(p) /\ WorkerAt(p) /\ ClientAt(p)
    BY DEF Init, OneJob, JobAt, WorkerAt, ClientAt, Pushed, NotPushing, Busy, Idle
  <1>7. RowsHeld
    BY DEF Init, RowsHeld, Alive, Idle
  <1>8. QED
    BY <1>4, <1>5, <1>6, <1>7 DEF PushInv, OnCourse

(* What a step leaves alone.                                                 *)
SameFile(p) ==
  /\ rows'[p] = rows[p]
  /\ \A h : (<<p, h>> \in some' <=> <<p, h>> \in some) /\ (<<p, h>> \in whole' <=> <<p, h>> \in whole)
OnIt(u, p) == OnFile(u) /\ task[u].path = p
SameTask(u, p) ==
  /\ task'[u].job = task[u].job /\ (Busy(u)' <=> Busy(u))
  /\ (p \in task'[u].todo <=> p \in task[u].todo) /\ (p \in task'[u].del <=> p \in task[u].del)
  /\ OnIt(u, p)' <=> OnIt(u, p)
  /\ OnIt(u, p) => task'[u].st = task[u].st /\ task'[u].live = task[u].live
OtherTask(u, p) ==
  \/ task'[u] = task[u]
  \/ task[u].path = p /\ task'[u] = [task[u] EXCEPT !.live = FALSE]

LEMMA SameFileFacts ==
  ASSUME NEW p \in Paths, SameFile(p), NEW c
  PROVE  /\ Matches(p, c)' <=> Matches(p, c)
         /\ Fresh(p, c)' <=> Fresh(p, c)
         /\ \A h : Has(p, h)' <=> Has(p, h)
  BY DEF SameFile, Matches, Fresh, Has, Hashed

LEMMA Elsewhere ==
  ASSUME NEW p \in Paths, OnCourse(p), UNCHANGED <<jobs, push, reported>>,
         SameFile(p), \A u \in Workers : SameTask(u, p)
  PROVE  OnCourse(p)'
  <1>1. OneJob(p)'
    BY DEF OnCourse, OneJob, Unfinished, Covers, Pushed
  <1>2. JobAt(p)'
    <2>1. \A i \in DOMAIN jobs : Fresh(p, jobs[i].tree[p])' <=> Fresh(p, jobs[i].tree[p])
      BY SameFileFacts
    <2>2. \A u \in Workers : At(u, "prune") /\ task[u].path = p => At(u, "prune")' /\ task'[u].path = p
      BY DEF SameTask, OnIt, OnFile, At, FileSteps
    <2>3. QED
      BY <2>1, <2>2 DEF OnCourse, JobAt, Unfinished, Covers
  <1>3. WorkerAt(p)'
    <2> SUFFICES ASSUME NEW u \in Workers, Busy(u)', Covers(task[u].job, p)' PROVE FarEnough(u, p)'
      BY DEF WorkerAt
    <2>1. Busy(u) /\ Covers(task[u].job, p) /\ task'[u].job = task[u].job
      BY DEF SameTask, Covers
    <2>2. FarEnough(u, p)
      BY <2>1 DEF OnCourse, WorkerAt
    <2>3. Job(u)' = Job(u) /\ (Handled(u, p)' <=> Handled(u, p))
      BY <2>1 DEF Job, Handled, SameTask
    <2>4. Matches(p, Job(u).tree[p])' <=> Matches(p, Job(u).tree[p])
      BY <2>3, SameFileFacts DEF Matches, Hashed, SameFile
    <2>5. OnIt(u, p)' => OnIt(u, p) /\ task'[u].st = task[u].st /\ task'[u].live = task[u].live
      BY DEF SameTask
    <2>6. QED
      BY <2>2, <2>3, <2>4, <2>5 DEF FarEnough, OnIt, SameFile, Has, Hashed
  <1>4. ClientAt(p)'
    <2>1. Target' = Target /\ (Pushed' <=> Pushed)
      BY DEF Target, Pushed
    <2>2. \A c : (Matches(p, c)' <=> Matches(p, c)) /\ (Fresh(p, c)' <=> Fresh(p, c))
      BY SameFileFacts
    <2>3. Matches(p, Target[p])' <=> Matches(p, Target[p])
      BY <2>1 DEF Matches, SameFile, Hashed
    <2>4. Fresh(p, Target[p])' <=> Fresh(p, Target[p])
      BY <2>1, <2>3 DEF Fresh, SameFile, Hashed
    <2>5. QED
      BY <2>1, <2>3, <2>4 DEF OnCourse, ClientAt, Covers
  <1>5. QED
    BY <1>1, <1>2, <1>3, <1>4 DEF OnCourse

(* A worker's step leaves the jobs and the other workers sound.              *)
LEMMA WorkerFrame ==
  ASSUME PushInv, NEW w \in Workers, Busy(w), NEW p,
         UNCHANGED <<client, jobs>>, excused' \subseteq Paths,
         StoreTypes', task' \in [Workers -> TaskRecords],
         \A u \in Workers \ {w} : OtherTask(u, p),
         Busy(w)', task'[w].job = task[w].job, WorkerSound(w)'
  PROVE  /\ PushTypes' /\ JobsSound' /\ WorkersSound'
         /\ UNCHANGED <<tree, push, reported, jobs>>
         /\ \A u \in Workers \ {w} :
              /\ task'[u].st = task[u].st /\ task'[u].job = task[u].job
              /\ task'[u].path = task[u].path /\ task'[u].todo = task[u].todo /\ task'[u].del = task[u].del
              /\ task[u].path # p => task'[u] = task[u]
  <1>1. UNCHANGED <<tree, push, reported, jobs>>
    BY DEF client
  <1>2. PushTypes'
    <2>1. PushTypes
      BY DEF PushInv
    <2>2. (task \in [Workers -> TaskRecords])'
      BY <1>1 DEF TaskRecords
    <2>3. QED
      BY <1>1, <2>1, <2>2, PushTypesSplit, PushTypesNext DEF PushParts
  <1>3. JobsSound'
    BY <1>1 DEF PushInv, JobsSound
  <1>4. task \in [Workers -> TaskRecords]
    BY PushTypesSplit DEF PushParts, PushInv
  <1>5. ASSUME NEW u \in Workers \ {w}
        PROVE /\ task'[u].st = task[u].st /\ task'[u].job = task[u].job
              /\ task'[u].path = task[u].path /\ task'[u].todo = task[u].todo /\ task'[u].del = task[u].del
              /\ task[u].path # p => task'[u] = task[u]
    BY <1>4, <1>5 DEF OtherTask, TaskRecords
  <1>6. WorkersSound'
    <2>1. ASSUME NEW u \in Workers, Busy(u)' PROVE WorkerSound(u)'
      <3>1. CASE u = w
        BY <3>1
      <3>2. CASE u # w
        <4>1. WorkerSound(u)
          BY <1>5, <2>1, <3>2 DEF PushInv, WorkersSound, Busy
        <4>2. Job(u)' = Job(u) /\ Content(u)' = Content(u)
          BY <1>1, <1>5, <3>2 DEF Job, Content
        <4>3. QED
          BY <1>1, <1>5, <3>2, <4>1, <4>2 DEF WorkerSound, OnFile, At
      <3>3. QED
        BY <3>1, <3>2
    <2>2. \A u \in Workers : task'[u].job = task[u].job /\ (Busy(u)' <=> Busy(u))
      BY <1>5 DEF Busy
    <2>3. QED
      BY <2>1, <2>2 DEF PushInv, WorkersSound
  <1>7. QED
    BY <1>1, <1>2, <1>3, <1>5, <1>6

(* A worker's step about one file: what has to be shown of it.               *)
LEMMA FileStep ==
  ASSUME PushInv, NEW w \in Workers, Busy(w), NEW p \in Paths, Covers(task[w].job, p),
         UNCHANGED <<client, jobs>>, excused \subseteq excused', excused' \subseteq Paths,
         StoreTypes', task' \in [Workers -> TaskRecords],
         \A u \in Workers \ {w} : OtherTask(u, p),
         \A q \in Paths \ {p} : SameFile(q) /\ SameTask(w, q),
         \A u \in Workers : Alive(u)',
         Busy(w)', task'[w].job = task[w].job, WorkerSound(w)',
         p \notin excused' =>
           /\ Fresh(p, Job(w).tree[p])' \/ (At(w, "prune") /\ task[w].path = p)'
           /\ FarEnough(w, p)'
  PROVE  PushInv'
  <1>1. UNCHANGED <<tree, push, reported, jobs>>
    BY DEF client
  <1>2. PushTypes' /\ JobsSound' /\ WorkersSound'
    BY WorkerFrame
  <1>5. \A u \in Workers \ {w} :
          /\ task'[u].st = task[u].st /\ task'[u].job = task[u].job
          /\ task'[u].path = task[u].path /\ task'[u].todo = task[u].todo /\ task'[u].del = task[u].del
          /\ task[u].path # p => task'[u] = task[u]
    BY WorkerFrame
  <1>7. ASSUME NEW q \in Paths \ excused', q # p PROVE OnCourse(q)'
    <2>1. \A u \in Workers \ {w} : SameTask(u, q)
      BY <1>5, <1>7 DEF SameTask, OnIt, OnFile, Busy
    <2>2. SameFile(q) /\ SameTask(w, q)
      BY <1>7
    <2>3. OnCourse(q)
      BY <1>7 DEF PushInv
    <2>4. QED
      BY <1>1, <2>1, <2>2, <2>3, Elsewhere
  <1>8. ASSUME p \notin excused' PROVE OnCourse(p)'
    <2>1. OnCourse(p)
      BY <1>8 DEF PushInv
    <2>2. WorkerSound(w) /\ Unfinished(task[w].job) /\ task[w].job \in DOMAIN jobs
      BY DEF PushInv, WorkersSound, WorkerSound, Unfinished, Job
    <2>3. OneJob(p)'
      BY <1>1, <2>1 DEF OnCourse, OneJob, Unfinished, Covers, Pushed
    <2>4. JobAt(p)'
      <3> SUFFICES ASSUME NEW i \in DOMAIN jobs', Unfinished(i)', Covers(i, p)'
                   PROVE Fresh(p, jobs[i].tree[p])' \/ \E u \in Workers : (At(u, "prune") /\ task[u].path = p)'
        BY DEF JobAt
      <3>1. i = task[w].job
        BY <1>1, <2>1, <2>2 DEF OnCourse, OneJob, Unfinished, Covers
      <3>2. jobs'[i].tree[p] = Job(w)'.tree[p]
        BY <1>1, <3>1 DEF Job
      <3>3. CASE Fresh(p, Job(w).tree[p])'
        BY <3>2, <3>3 DEF Fresh, Matches
      <3>4. CASE (At(w, "prune") /\ task[w].path = p)'
        BY <3>4
      <3>5. QED
        BY <1>8, <3>3, <3>4
    <2>5. WorkerAt(p)'
      <3> SUFFICES ASSUME NEW u \in Workers, Busy(u)', Covers(task[u].job, p)' PROVE u = w
        BY <1>8 DEF WorkerAt
      <3>1. CASE u # w
        <4>1. Busy(u) /\ Covers(task[u].job, p)
          BY <1>1, <1>5, <3>1 DEF Busy, Covers
        <4>2. Unfinished(task[u].job) /\ task[u].job \in DOMAIN jobs
          BY <4>1 DEF PushInv, WorkersSound, WorkerSound, Unfinished, Job
        <4>3. task[u].job = task[w].job
          BY <2>1, <2>2, <4>1, <4>2 DEF OnCourse, OneJob
        <4>4. QED
          BY <3>1, <4>1, <4>3 DEF PushInv, WorkersSound
      <3>2. QED
        BY <3>1
    <2>6. ClientAt(p)'
      <3> SUFFICES ASSUME Pushed PROVE ClientAt(p)'
        BY <1>1 DEF ClientAt, Pushed
      <3>1. push.st = "wait" /\ task[w].job = push.job
        BY <2>1, <2>2 DEF OnCourse, OneJob
      <3>2. p \notin push.put \cup push.del
        BY <3>1 DEF PushInv, JobsSound, Covers
      <3>3. jobs[push.job].st = "running"
        BY <2>2, <3>1 DEF WorkerSound, Job
      <3>4. QED
        BY <1>1, <3>1, <3>2, <3>3 DEF ClientAt, Covers
    <2>7. QED
      BY <2>3, <2>4, <2>5, <2>6 DEF OnCourse
  <1>9. QED
    BY <1>2, <1>7, <1>8 DEF PushInv, RowsHeld

LEMMA OnFileFacts ==
  ASSUME PushInv, NEW w \in Workers, OnFile(w)
  PROVE  /\ Busy(w) /\ WorkerSound(w) /\ task[w] \in TaskRecords
         /\ task[w].path \in Paths /\ task[w].path \in task[w].todo /\ task[w].path \in Job(w).put
         /\ task[w].del = {} /\ Covers(task[w].job, task[w].path)
         /\ Job(w) \in JobRecords /\ Content(w) = Job(w).tree[task[w].path]
         /\ AfterFile(w) \in TaskRecords
         /\ HashesAgree /\ Content(w) \in Texts => Version(w) = Hashed(Content(w))
  <1>1. Busy(w)
    BY DEF OnFile, Busy, FileSteps
  <1>2. WorkerSound(w)
    BY <1>1 DEF PushInv, WorkersSound
  <1>3. task \in [Workers -> TaskRecords] /\ jobs \in Seq(JobRecords)
    BY PushTypesSplit DEF PushParts, PushInv
  <1>4. task[w] \in TaskRecords
    BY <1>3
  <1>5. task[w].path \in task[w].todo /\ task[w].todo \subseteq Paths /\ task[w].st # "delete"
    BY <1>2, <1>4 DEF WorkerSound, OnFile, TaskRecords, FileSteps
  <1>6. Job(w) \in JobRecords /\ task[w].job \in DOMAIN jobs
    BY <1>2, <1>3 DEF WorkerSound, Job
  <1>7. task[w].path \in Job(w).put /\ task[w].del = {} /\ Covers(task[w].job, task[w].path)
    BY <1>2, <1>5 DEF WorkerSound, Covers, Job
  <1>8. AfterFile(w) \in TaskRecords
    BY <1>4 DEF AfterFile, TaskRecords
  <1>9. ASSUME HashesAgree, Content(w) \in Texts PROVE Version(w) = Hashed(Content(w))
    <2>1. Job(w).embed \in EmbedModes /\ Job(w).embed \in BOOLEAN
      BY <1>5, <1>6 DEF PushInv, JobsSound, JobRecords, Job
    <2>2. (Job(w).embed \/ task[w].path \notin Docs) = TRUE
      BY <1>9, <2>1 DEF HashesAgree
    <2>3. QED
      BY <2>2 DEF Version, Stored, Hashed
  <1>10. QED
    BY <1>1, <1>2, <1>4, <1>5, <1>6, <1>7, <1>8, <1>9 DEF Content

LEMMA BecomesFacts ==
  ASSUME PushInv, NEW w \in Workers, NEW p \in Paths, NEW s \in Seq(Hashes), RowsDiffer(s),
         NEW t \in TaskRecords, Becomes(p, s, w, t), UNCHANGED jobs
  PROVE  /\ StoreTypes' /\ task' \in [Workers -> TaskRecords]
         /\ task'[w] = t /\ rows'[p] = s
         /\ \A u \in Workers \ {w} : OtherTask(u, p) /\ Alive(u)'
         /\ \A q \in Paths \ {p} : SameFile(q)
         /\ \A h : /\ <<p, h>> \in some' <=> <<p, h>> \in some /\ h \in Rows(s)
                   /\ <<p, h>> \in whole' <=> <<p, h>> \in whole /\ h \in Rows(s)
  <1>1. StoreTypes /\ task \in [Workers -> TaskRecords]
    BY PushTypesSplit DEF PushParts, PushInv
  <1>2. rows' = [rows EXCEPT ![p] = s]
    BY DEF Becomes
  <1>3. /\ some' = {v \in some : v[1] = p => v[2] \in Rows(s)}
        /\ whole' = {v \in whole : v[1] = p => v[2] \in Rows(s)}
    BY DEF Becomes, Rows
  <1>4. task' = [u \in Workers |->
                   IF u = w THEN t
                   ELSE IF task[u].path = p /\ task[u].live /\ Version(u) \notin Rows(s)
                          THEN [task[u] EXCEPT !.live = FALSE]
                   ELSE task[u]]
    BY DEF Becomes, Rows
  <1>5. \A u \in Workers : task[u] \in TaskRecords /\ [task[u] EXCEPT !.live = FALSE] \in TaskRecords
    <2> SUFFICES ASSUME NEW u \in Workers PROVE [task[u] EXCEPT !.live = FALSE] \in TaskRecords
      BY <1>1
    <2>1. task[u] \in TaskRecords
      BY <1>1
    <2>2. QED
      BY <2>1 DEF TaskRecords
  <1>6. task' \in [Workers -> TaskRecords] /\ task'[w] = t
    BY <1>4, <1>5
  <1>7. \A u \in Workers \ {w} : OtherTask(u, p)
    BY <1>4 DEF OtherTask
  <1>8. \A q, h : /\ <<q, h>> \in some' <=> <<q, h>> \in some /\ (q = p => h \in Rows(s))
                  /\ <<q, h>> \in whole' <=> <<q, h>> \in whole /\ (q = p => h \in Rows(s))
    BY <1>3
  <1>9. rows'[p] = s /\ \A q \in Paths \ {p} : rows'[q] = rows[q]
    BY <1>1, <1>2 DEF StoreTypes
  <1>10. StoreTypes'
    <2>1. rows' \in [Paths -> Seq(Hashes)] /\ \A q \in Paths : RowsDiffer(rows'[q])
      BY <1>1, <1>2, <1>9 DEF StoreTypes
    <2>2. whole' \subseteq some' /\ some' \subseteq Paths \X Hashes
      <3>1. whole \subseteq some /\ some \subseteq Paths \X Hashes
        BY <1>1 DEF StoreTypes
      <3>2. some' \subseteq some
        BY <1>3
      <3>3. whole' \subseteq some'
        BY <1>3, <3>1, Zenon
      <3>4. QED
        BY <3>1, <3>2, <3>3, Zenon
    <2>3. ASSUME NEW q \in Paths, NEW h \in Hashes, <<q, h>> \in some' PROVE h \in Rows(rows'[q])
      <3>1. <<q, h>> \in some /\ (q = p => h \in Rows(s))
        BY <1>8, <2>3
      <3>2. h \in Rows(rows[q])
        BY <1>1, <3>1 DEF StoreTypes
      <3>3. q = p \/ rows'[q] = rows[q]
        BY <1>9
      <3>4. QED
        BY <1>9, <3>1, <3>2, <3>3
    <2>4. QED
      BY <2>1, <2>2, <2>3 DEF StoreTypes, RowsDiffer, Rows
  <1>11. \A q \in Paths \ {p} : SameFile(q)
    BY <1>8, <1>9 DEF SameFile
  <1>12. ASSUME NEW u \in Workers \ {w}, task'[u].live PROVE Alive(u)'
    <2>1. task'[u] = task[u] /\ (task[u].path = p => Version(u) \in Rows(s))
      <3>1. task[u] \in TaskRecords
        BY <1>1
      <3>2. [task[u] EXCEPT !.live = FALSE].live = FALSE
        BY <3>1 DEF TaskRecords
      <3>3. task'[u] = IF task[u].path = p /\ task[u].live /\ Version(u) \notin Rows(s)
                          THEN [task[u] EXCEPT !.live = FALSE] ELSE task[u]
        BY <1>4
      <3>4. QED
        BY <1>12, <3>2, <3>3
    <2>2. OnFile(u) /\ Has(task[u].path, Version(u))
      BY <1>12, <2>1 DEF PushInv, RowsHeld, Alive
    <2>3. task[u].path \in Paths
      BY <2>2, OnFileFacts
    <2>4. Version(u)' = Version(u) /\ OnFile(u)'
      BY <2>1, <2>2 DEF Version, Content, Job, Stored, OnFile
    <2>5. CASE task[u].path = p
      BY <1>9, <2>1, <2>4, <2>5 DEF Alive, Has, Rows
    <2>6. CASE task[u].path # p
      <3>1. rows'[task[u].path] = rows[task[u].path]
        BY <1>9, <2>3, <2>6
      <3>2. QED
        BY <2>1, <2>2, <2>4, <3>1 DEF Alive, Has
    <2>7. QED
      BY <2>5, <2>6
  <1>13. QED
    BY <1>6, <1>7, <1>8, <1>9, <1>10, <1>11, <1>12 DEF Alive

(* A worker's step that is about no file.                                    *)
LEMMA QuietStep ==
  ASSUME PushInv, NEW w \in Workers, Busy(w), NEW t \in TaskRecords, task' = [task EXCEPT ![w] = t],
         UNCHANGED <<client, jobs, index>>, excused \subseteq excused', excused' \subseteq Paths,
         ~task[w].live, ~t.live, Busy(w)', t.job = task[w].job, WorkerSound(w)',
         \A q \in Paths \ excused' : SameTask(w, q)
  PROVE  PushInv'
  <1>1. StoreTypes /\ task \in [Workers -> TaskRecords]
    BY PushTypesSplit DEF PushParts, PushInv
  <1>2. StoreTypes' /\ \A q \in Paths : SameFile(q)
    BY <1>1 DEF index, StoreTypes, RowsDiffer, Rows, SameFile
  <1>3. task' \in [Workers -> TaskRecords] /\ task'[w] = t /\ \A u \in Workers \ {w} : task'[u] = task[u]
    BY <1>1
  <1>4. \A q \in Paths, u \in Workers \ {w} : OtherTask(u, q) /\ SameTask(u, q)
    BY <1>3 DEF OtherTask, SameTask, OnIt, OnFile, Busy
  <1>5. ASSUME NEW q \in Paths \ excused' PROVE OnCourse(q)'
    <2>1. OnCourse(q) /\ SameTask(w, q)
      BY <1>5 DEF PushInv
    <2>2. UNCHANGED <<push, reported>>
      BY DEF client
    <2>3. QED
      BY <1>2, <1>4, <2>1, <2>2, Elsewhere
  <1>6. PushTypes' /\ JobsSound' /\ WorkersSound'
    BY <1>1, <1>2, <1>3, <1>4, WorkerFrame DEF OtherTask
  <1>7. RowsHeld'
    <2> SUFFICES ASSUME NEW u \in Workers, task'[u].live PROVE Alive(u)'
      BY DEF RowsHeld, Alive
    <2>1. task'[u] = task[u] /\ Alive(u)
      BY <1>3 DEF PushInv, RowsHeld
    <2>2. UNCHANGED <<rows, jobs>>
      BY DEF index
    <2>3. QED
      BY <2>1, <2>2 DEF Alive, OnFile, Has, Version, Content, Job, Stored
  <1>8. QED
    BY <1>5, <1>6, <1>7 DEF PushInv

(* The turn of a file ends.                                                  *)
LEMMA FileEnds ==
  ASSUME PushInv, NEW w \in Workers, OnFile(w), NEW p, p = task[w].path,
         UNCHANGED <<client, jobs>>, excused \subseteq excused', excused' \subseteq Paths,
         StoreTypes', task' \in [Workers -> TaskRecords], task'[w] = AfterFile(w),
         \A u \in Workers \ {w} : OtherTask(u, p) /\ Alive(u)',
          \A q \in Paths \ {p} : SameFile(q),
         p \notin excused' => \A c : c = Content(w) => Matches(p, c)'
  PROVE  PushInv'
  <1>1. p \in Paths /\ Busy(w) /\ WorkerSound(w) /\ Covers(task[w].job, p) /\ task[w] \in TaskRecords
        /\ task[w].del = {} /\ task[w].st # "delete" /\ Content(w) = Job(w).tree[p]
    BY OnFileFacts DEF OnFile, FileSteps
  <1>2. /\ task'[w].st = "files" /\ task'[w].todo = task[w].todo \ {p} /\ task'[w].job = task[w].job
        /\ task'[w].del = {}
    BY <1>1 DEF AfterFile, TaskRecords
  <1>3. Job(w)' = Job(w)
    BY <1>2 DEF Job
  <1>4. Busy(w)' /\ WorkerSound(w)'
    BY <1>1, <1>2, <1>3 DEF WorkerSound, Busy, OnFile, FileSteps, At
  <1>5. \A q \in Paths \ {p} : SameTask(w, q)
    BY <1>1, <1>2, <1>4 DEF SameTask, OnIt, OnFile, FileSteps
  <1>6. ASSUME p \notin excused' PROVE Fresh(p, Job(w).tree[p])' /\ FarEnough(w, p)'
    <2>1. Matches(p, Job(w).tree[p])'
      BY <1>1, <1>3, <1>6 DEF Matches
    <2>2. Fresh(p, Job(w).tree[p])'
      BY <2>1 DEF Fresh
    <2>3. ~OnFile(w)'
      BY <1>2 DEF OnFile, FileSteps
    <2>4. QED
      BY <2>1, <2>2, <2>3 DEF FarEnough
  <1>7. Alive(w)'
    BY <1>1 DEF Alive, AfterFile, TaskRecords
  <1>8. QED
    BY <1>1, <1>2, <1>4, <1>5, <1>6, <1>7, FileStep

(* The worker goes on with its file.                                         *)
LEMMA FileGoesOn ==
  ASSUME PushInv, NEW w \in Workers, OnFile(w), NEW p, p = task[w].path, Content(w) \in Texts,
         UNCHANGED <<client, jobs>>, excused \subseteq excused', excused' \subseteq Paths,
         StoreTypes', task' \in [Workers -> TaskRecords],
         task'[w].st \in FileSteps, task'[w].path = p, task'[w].job = task[w].job,
         task'[w].todo = task[w].todo, task'[w].del = task[w].del,
         \A u \in Workers \ {w} : OtherTask(u, p) /\ Alive(u)',
         task'[w].live => Version(w) \in Rows(rows'[p]),
          \A q \in Paths \ {p} : SameFile(q),
         NEW v, v = <<p, Hashed(Content(w))>>,
         p \notin excused' =>
           /\ task'[w].st = "check" => \A c : c = Content(w) => Fresh(p, c)'
           /\ task'[w].st \in {"upsert", "clear", "insert"} => v \notin some'
           /\ task'[w].st \in {"clear", "insert"} => task'[w].live /\ Has(p, v[2])'
           /\ task'[w].st = "prune" => v \in whole'
           /\ task'[w].st # "rollback"
  PROVE  PushInv'
  <1>1. p \in Paths /\ Busy(w) /\ WorkerSound(w) /\ Covers(task[w].job, p) /\ task[w] \in TaskRecords
        /\ p \in task[w].todo /\ p \in Job(w).put /\ task[w].del = {} /\ task[w].st # "delete"
        /\ Content(w) = Job(w).tree[p]
    BY OnFileFacts DEF OnFile, FileSteps
  <1>2. Job(w)' = Job(w) /\ Content(w)' = Content(w)
    BY DEF Job, Content
  <1>3. Busy(w)' /\ OnFile(w)' /\ task'[w].st \notin {"delete", "remove"}
    BY DEF Busy, OnFile, FileSteps
  <1>4. WorkerSound(w)'
    BY <1>1, <1>2, <1>3 DEF WorkerSound, At
  <1>5. \A q \in Paths \ {p} : SameTask(w, q)
    BY <1>1, <1>3 DEF SameTask, OnIt
  <1>6. ASSUME p \notin excused'
        PROVE /\ Fresh(p, Job(w).tree[p])' \/ (At(w, "prune") /\ task[w].path = p)'
              /\ FarEnough(w, p)'
    <2>1. (p \in Job(w).put)' /\ (p \in task[w].todo)'
      BY <1>1, <1>2
    <2>2. ~Handled(w, p)'
      BY <2>1 DEF Handled
    <2>3. <<p, Hashed(Job(w)'.tree[p])>> = v
      BY <1>1, <1>2
    <2>4. FarEnough(w, p)'
      BY <1>6, <2>2, <2>3 DEF FarEnough, Has, Hashed
    <2>5. CASE task'[w].st = "check"
      BY <1>1, <1>2, <1>6, <2>4, <2>5 DEF Fresh, Matches, Hashed
    <2>6. CASE task'[w].st \in {"upsert", "clear", "insert"}
      BY <1>1, <1>2, <1>6, <2>3, <2>4, <2>6 DEF Fresh, Hashed
    <2>7. CASE task'[w].st = "prune"
      BY <2>4, <2>7 DEF At
    <2>8. QED
      BY <1>6, <2>5, <2>6, <2>7 DEF FileSteps
  <1>7. Alive(w)'
    <2>1. Version(w)' = Version(w)
      BY <1>2 DEF Version, Stored
    <2>2. QED
      BY <1>3, <2>1 DEF Alive, Has, Rows
  <1>8. QED
    BY <1>1, <1>3, <1>4, <1>5, <1>6, <1>7, FileStep

\* What is known of a file that a job under way is about, and that nothing excuses.
LEMMA FileAhead ==
  ASSUME PushInv, NEW w \in Workers, Busy(w), NEW p \in Paths \ excused, Covers(task[w].job, p)
  PROVE  /\ FarEnough(w, p)
         /\ ~OnIt(w, p) \/ ~At(w, "prune") => Fresh(p, Job(w).tree[p])
  <1>1. OnCourse(p)
    BY DEF PushInv
  <1>2. FarEnough(w, p)
    BY <1>1 DEF OnCourse, WorkerAt
  <1>3. task[w].job \in DOMAIN jobs /\ Unfinished(task[w].job)
    BY DEF PushInv, WorkersSound, WorkerSound, Unfinished, Job
  <1>4. ASSUME ~Fresh(p, Job(w).tree[p]) PROVE OnIt(w, p) /\ At(w, "prune")
    <2>1. PICK u \in Workers : At(u, "prune") /\ task[u].path = p
      BY <1>1, <1>3, <1>4 DEF OnCourse, JobAt, Job
    <2>2. OnFile(u)
      BY <2>1 DEF At, OnFile, FileSteps
    <2>3. Busy(u) /\ Covers(task[u].job, p)
      BY <2>1, <2>2, OnFileFacts
    <2>4. task[u].job \in DOMAIN jobs /\ Unfinished(task[u].job)
      BY <2>3 DEF PushInv, WorkersSound, WorkerSound, Unfinished, Job
    <2>5. task[u].job = task[w].job
      BY <1>1, <1>3, <2>3, <2>4 DEF OnCourse, OneJob
    <2>6. u = w
      BY <2>3, <2>5 DEF PushInv, WorkersSound
    <2>7. QED
      BY <2>1, <2>2, <2>6 DEF OnIt
  <1>5. QED
    BY <1>2, <1>4

LEMMA StoreKept ==
  ASSUME PushInv, UNCHANGED <<index, jobs>>
  PROVE  /\ StoreTypes' /\ \A q \in Paths : SameFile(q)
         /\ \A u \in Workers : task'[u] = task[u] => Alive(u)' /\ \A q : OtherTask(u, q)
  <1>1. StoreTypes
    BY PushTypesSplit DEF PushParts, PushInv
  <1>2. UNCHANGED <<rows, some, whole>>
    BY DEF index
  <1>3. StoreTypes' /\ \A q \in Paths : SameFile(q)
    BY <1>1, <1>2 DEF StoreTypes, RowsDiffer, Rows, SameFile
  <1>4. ASSUME NEW u \in Workers, task'[u] = task[u] PROVE Alive(u)' /\ \A q : OtherTask(u, q)
    <2>1. Alive(u)
      BY DEF PushInv, RowsHeld
    <2>2. QED
      BY <1>2, <1>4, <2>1 DEF Alive, OtherTask, OnFile, Has, Version, Content, Job, Stored
  <1>5. QED
    BY <1>3, <1>4

LEMMA PushTasks ==
  ASSUME PushInv
  PROVE  task \in [Workers -> TaskRecords] /\ jobs \in Seq(JobRecords) /\ excused \subseteq Paths /\ StoreTypes
  BY PushTypesSplit DEF PushParts, PushInv

(* A file whose turn ends in an error, or without anything to be done.       *)
LEMMA EndsQuietly ==
  ASSUME PushInv, NEW w \in Workers, OnFile(w), Ends(w), UNCHANGED <<client, jobs, index>>,
         excused \subseteq excused', excused' \subseteq Paths,
         task[w].path \notin excused' => Matches(task[w].path, Content(w))
  PROVE  PushInv'
  <1>0. PICK p : p = task[w].path
    OBVIOUS
  <1>1. AfterFile(w) \in TaskRecords /\ p \in Paths
    BY <1>0, OnFileFacts
  <1>2. task' \in [Workers -> TaskRecords] /\ task'[w] = AfterFile(w)
        /\ \A u \in Workers \ {w} : task'[u] = task[u]
    BY <1>1, PushTasks DEF Ends
  <1>3. StoreTypes' /\ \A q \in Paths : SameFile(q)
    BY StoreKept
  <1>4. \A u \in Workers \ {w} : OtherTask(u, p) /\ Alive(u)'
    BY <1>2, StoreKept
  <1>5. p \notin excused' => \A c : c = Content(w) => Matches(p, c)'
    <2> SUFFICES ASSUME p \notin excused', NEW c, c = Content(w) PROVE Matches(p, c)'
      OBVIOUS
    <2>1. Matches(p, c)
      BY <1>0
    <2>2. QED
      BY <1>1, <1>3, <2>1, SameFileFacts
  <1>6. QED
    BY <1>0, <1>1, <1>2, <1>3, <1>4, <1>5, FileEnds

LEMMA StageChange ==
  ASSUME PushInv, NEW w \in Workers, NEW step \in FileSteps, Set(w, step)
  PROVE  /\ task' \in [Workers -> TaskRecords] /\ \A u \in Workers \ {w} : task'[u] = task[u]
         /\ task'[w].st = step /\ task'[w].path = task[w].path /\ task'[w].job = task[w].job
         /\ task'[w].todo = task[w].todo /\ task'[w].del = task[w].del /\ task'[w].live = task[w].live
  <1>1. task \in [Workers -> TaskRecords] /\ task' = [task EXCEPT ![w].st = step]
    BY PushTasks DEF Set
  <1>2. [task[w] EXCEPT !.st = step] \in TaskRecords
    BY <1>1 DEF TaskRecords
  <1>3. task'[w] = [task[w] EXCEPT !.st = step] /\ \A u \in Workers \ {w} : task'[u] = task[u]
    BY <1>1
  <1>4. task' \in [Workers -> TaskRecords]
    BY <1>1, <1>2
  <1>5. task[w] \in TaskRecords
    BY <1>1
  <1>6. QED
    BY <1>3, <1>4, <1>5 DEF TaskRecords

LEMMA CheckInv ==
  ASSUME PushInv, HashesAgree, NEW w \in Workers, Check(w)
  PROVE  PushInv'
  <1>0. PICK p, v : p = task[w].path /\ v = <<p, Hashed(Content(w))>>
    OBVIOUS
  <1>1. OnFile(w) /\ At(w, "check") /\ UNCHANGED <<client, jobs, index>>
    BY DEF Check, Quietly, At, OnFile, FileSteps
  <1>2. p \in Paths /\ Content(w) \in Texts /\ Version(w) = Hashed(Content(w)) /\ excused \subseteq Paths
        /\ Busy(w) /\ Covers(task[w].job, p) /\ Content(w) = Job(w).tree[p]
    BY <1>0, <1>1, OnFileFacts, PushTasks DEF WorkerSound, At, FileSteps
  <1>3. excused \subseteq excused' /\ excused' \subseteq Paths
    BY <1>0, <1>2 DEF Check, Works, Fails
  <1>4. CASE Ends(w) /\ (p \in excused' \/ (UpToDate(p, Version(w)) /\ excused' = excused))
    <2>1. ASSUME p \notin excused' PROVE Matches(p, Content(w))
      <3>1. Fresh(p, Content(w))
        BY <1>1, <1>2, <1>3, <2>1, FileAhead DEF At
      <3>2. QED
        BY <1>2, <1>4, <2>1, <3>1 DEF Fresh, UpToDate
    <2>2. QED
      BY <1>0, <1>1, <1>3, <1>4, <2>1, EndsQuietly
  <1>5. CASE Set(w, "upsert") /\ (p \in excused' \/ ~UpToDate(p, Version(w)))
    <2>1. StoreTypes' /\ \A q \in Paths : SameFile(q)
      BY <1>1, StoreKept
    <2>2. "upsert" \in FileSteps
      BY DEF FileSteps
    <2>3. /\ task' \in [Workers -> TaskRecords] /\ \A u \in Workers \ {w} : task'[u] = task[u]
          /\ task'[w].st = "upsert" /\ task'[w].path = p /\ task'[w].job = task[w].job
          /\ task'[w].todo = task[w].todo /\ task'[w].del = task[w].del /\ task'[w].live = task[w].live
      BY <1>0, <1>5, <2>2, StageChange
    <2>4. \A u \in Workers \ {w} : OtherTask(u, p) /\ Alive(u)'
      BY <1>1, <2>3, StoreKept
    <2>5. task'[w].live => Version(w) \in Rows(rows'[p])
      BY <1>0, <1>1, <2>3 DEF PushInv, RowsHeld, Alive, Has, Rows, index
    <2>6. p \notin excused' => v \notin some'
      BY <1>0, <1>1, <1>2, <1>5 DEF UpToDate, index
    <2>7. QED
      BY <1>0, <1>1, <1>2, <1>3, <2>1, <2>2, <2>3, <2>4, <2>5, <2>6, FileGoesOn
  <1>6. QED
    <2>1. \/ Works /\ UpToDate(p, Version(w)) /\ Ends(w)
          \/ Works /\ ~UpToDate(p, Version(w)) /\ Set(w, "upsert")
          \/ Fails({p}) /\ (Ends(w) \/ Set(w, "upsert"))
      BY <1>0, Zenon DEF Check
    <2>2. (Works => excused' = excused) /\ (Fails({p}) => p \in excused')
      BY DEF Works, Fails
    <2>3. QED
      BY <1>4, <1>5, <2>1, <2>2

LEMMA UpsertInv ==
  ASSUME PushInv, HashesAgree, NEW w \in Workers, Upsert(w)
  PROVE  PushInv'
  <1>0. PICK p, h, v : p = task[w].path /\ h = Version(w) /\ v = <<p, Hashed(Content(w))>>
    OBVIOUS
  <1>1. OnFile(w) /\ At(w, "upsert") /\ UNCHANGED <<client, jobs, some, whole>>
    BY DEF Upsert, Quietly, At, OnFile, FileSteps
  <1>2. p \in Paths /\ Content(w) \in Texts /\ h = Hashed(Content(w)) /\ excused \subseteq Paths
        /\ Busy(w) /\ Covers(task[w].job, p) /\ Content(w) = Job(w).tree[p]
    BY <1>0, <1>1, OnFileFacts, PushTasks DEF WorkerSound, At, FileSteps
  <1>3. excused \subseteq excused' /\ excused' \subseteq Paths
    BY <1>0, <1>2 DEF Upsert, Works, Fails
  <1>4. CASE Ends(w) /\ p \in excused' /\ UNCHANGED rows
    BY <1>0, <1>1, <1>3, <1>4, EndsQuietly DEF index
  <1>5. CASE /\ rows' = [rows EXCEPT ![p] = Append(Without(@, h), h)]
             /\ task' = [task EXCEPT ![w].st = "clear", ![w].live = TRUE]
    <2>1. StoreTypes /\ task \in [Workers -> TaskRecords] /\ h \in Hashes
      BY <1>2, PushTasks, HashTypes
    <2>2. rows'[p] = Append(Without(rows[p], h), h) /\ \A q \in Paths \ {p} : rows'[q] = rows[q]
      BY <1>2, <1>5, <2>1 DEF StoreTypes
    <2>3. /\ Without(rows[p], h) \in Seq(Hashes) /\ RowsDiffer(Without(rows[p], h))
          /\ Rows(Without(rows[p], h)) = Rows(rows[p]) \ {h}
      BY <1>2, <2>1, WithoutFacts DEF StoreTypes
    <2>4. /\ rows'[p] \in Seq(Hashes) /\ RowsDiffer(rows'[p])
          /\ Rows(rows'[p]) = Rows(rows[p]) \cup {h}
      BY <2>1, <2>2, <2>3, AppendRows
    <2>5. StoreTypes'
      <3>1. rows' \in [Paths -> Seq(Hashes)]
        BY <1>2, <1>5, <2>1, <2>2, <2>4 DEF StoreTypes
      <3>2. \A q \in Paths : RowsDiffer(rows'[q]) /\ Rows(rows[q]) \subseteq Rows(rows'[q])
        BY <2>1, <2>2, <2>4 DEF StoreTypes
      <3>3. some' = some /\ whole' = whole
        BY <1>1
      <3>4. \A q \in Paths, g \in Hashes : <<q, g>> \in some' => g \in Rows(rows'[q])
        BY <2>1, <3>2, <3>3 DEF StoreTypes
      <3>5. QED
        BY <2>1, <3>1, <3>2, <3>3, <3>4 DEF StoreTypes, RowsDiffer, Rows
    <2>6. \A q \in Paths \ {p} : SameFile(q)
      BY <1>1, <2>2 DEF SameFile
    <2>7. /\ task' \in [Workers -> TaskRecords] /\ \A u \in Workers \ {w} : task'[u] = task[u]
          /\ task'[w].st = "clear" /\ task'[w].path = p /\ task'[w].job = task[w].job
          /\ task'[w].todo = task[w].todo /\ task'[w].del = task[w].del /\ task'[w].live
      <3>1. task[w] \in TaskRecords
        BY <2>1
      <3>2. [task[w] EXCEPT !.st = "clear", !.live = TRUE] \in TaskRecords
        BY <3>1 DEF TaskRecords, FileSteps
      <3>3. task'[w] = [task[w] EXCEPT !.st = "clear", !.live = TRUE]
        BY <1>5, <2>1
      <3>4. task' \in [Workers -> TaskRecords] /\ \A u \in Workers \ {w} : task'[u] = task[u]
        BY <1>5, <2>1, <3>2
      <3>5. QED
        BY <1>0, <3>1, <3>3, <3>4 DEF TaskRecords
    <2>8. ASSUME NEW u \in Workers \ {w} PROVE OtherTask(u, p) /\ Alive(u)'
      <3>1. Alive(u) /\ task'[u] = task[u]
        BY <2>7 DEF PushInv, RowsHeld
      <3>2. task[u].live => task[u].path \in Paths
        BY <3>1, OnFileFacts DEF Alive
      <3>3. \A q \in Paths : \A g : g \in Rows(rows[q]) => g \in Rows(rows'[q])
        BY <2>2, <2>4
      <3>4. Version(u)' = Version(u)
        BY <1>1, <3>1 DEF Version, Content, Job, Stored
      <3>5. QED
        <4>1. ASSUME task[u].live PROVE Has(task[u].path, Version(u))'
          <5>1. Version(u) \in Rows(rows[task[u].path])
            BY <3>1, <4>1 DEF Alive, Has, Rows
          <5>2. Version(u) \in Rows(rows'[task[u].path])
            BY <3>2, <3>3, <4>1, <5>1
          <5>3. QED
            BY <3>1, <3>4, <5>2 DEF Has, Rows
        <4>2. OnFile(u)' <=> OnFile(u)
          BY <3>1 DEF OnFile
        <4>3. QED
          BY <3>1, <4>1, <4>2 DEF Alive, OtherTask
    <2>9. p \notin excused' => v \notin some' /\ Has(p, v[2])'
      <3>1. Has(p, v[2])'
        BY <1>0, <1>2, <2>4 DEF Has, Rows
      <3>2. p \notin excused => v \notin some
        BY <1>0, <1>1, <1>2, FileAhead DEF FarEnough, At, OnFile
      <3>3. QED
        BY <1>1, <1>3, <3>1, <3>2
    <2>10. "clear" \in FileSteps /\ Version(w) \in Rows(rows'[p])
      BY <1>0, <2>4 DEF FileSteps
    <2>11. QED
      BY <1>0, <1>1, <1>2, <1>3, <2>5, <2>6, <2>7, <2>8, <2>9, <2>10, FileGoesOn
  <1>6. QED
    <2>1. \/ Works /\ rows' = [rows EXCEPT ![p] = Append(Without(@, h), h)]
             /\ task' = [task EXCEPT ![w].st = "clear", ![w].live = TRUE]
          \/ Fails({p}) /\ Ends(w) /\ UNCHANGED rows
      BY <1>0 DEF Upsert
    <2>2. Fails({p}) => p \in excused'
      BY DEF Fails
    <2>3. QED
      BY <1>4, <1>5, <2>1, <2>2

\* The chunks that are left when those of one version, or none, are removed.
LEMMA FewerChunks ==
  ASSUME PushInv, NEW p \in Paths, NEW h, UNCHANGED <<rows, jobs>>, NEW V, V \subseteq {<<p, h>>},
         some' = some \ V, whole' = whole \ V
  PROVE  /\ StoreTypes' /\ \A q \in Paths \ {p} : SameFile(q)
         /\ \A u \in Workers : task'[u] = task[u] => Alive(u)' /\ \A q : OtherTask(u, q)
  <1>1. StoreTypes
    BY PushTasks
  <1>2. StoreTypes'
    <2>1. whole' \subseteq some' /\ some' \subseteq Paths \X Hashes
      BY <1>1, Zenon DEF StoreTypes
    <2>2. \A v \in some' : v \in some
      OBVIOUS
    <2>3. QED
      BY <1>1, <2>1, <2>2 DEF StoreTypes, RowsDiffer, Rows
  <1>3. \A q \in Paths \ {p} : SameFile(q)
    <2> SUFFICES ASSUME NEW q \in Paths \ {p} PROVE SameFile(q)
      OBVIOUS
    <2>1. \A g : <<q, g>> \notin V
      OBVIOUS
    <2>2. QED
      BY <2>1 DEF SameFile
  <1>4. ASSUME NEW u \in Workers, task'[u] = task[u] PROVE Alive(u)' /\ \A q : OtherTask(u, q)
    <2>1. Alive(u)
      BY DEF PushInv, RowsHeld
    <2>2. QED
      BY <1>4, <2>1 DEF Alive, OtherTask, OnFile, Has, Version, Content, Job, Stored
  <1>5. QED
    BY <1>2, <1>3, <1>4

LEMMA ClearInv ==
  ASSUME PushInv, HashesAgree, NEW w \in Workers, Clear(w)
  PROVE  PushInv'
  <1>0. PICK p, v : p = task[w].path /\ v = <<p, Hashed(Content(w))>>
    OBVIOUS
  <1>1. OnFile(w) /\ At(w, "clear") /\ UNCHANGED <<client, jobs, rows>>
    BY DEF Clear, Quietly, At, OnFile, FileSteps
  <1>2. p \in Paths /\ Content(w) \in Texts /\ Version(w) = Hashed(Content(w)) /\ excused \subseteq Paths
        /\ Busy(w) /\ Covers(task[w].job, p) /\ Content(w) = Job(w).tree[p]
    BY <1>0, <1>1, OnFileFacts, PushTasks DEF WorkerSound, At, FileSteps
  <1>3. excused \subseteq excused' /\ excused' \subseteq Paths
    BY <1>0, <1>2 DEF Clear, Works, Fails
  <1>4. CASE Ends(w) /\ p \in excused' /\ UNCHANGED <<some, whole>>
    BY <1>0, <1>1, <1>3, <1>4, EndsQuietly DEF index
  <1>5. CASE /\ Set(w, "insert")
             /\ some' = some \ (IF task[w].live THEN {v} ELSE {})
             /\ whole' = whole \ (IF task[w].live THEN {v} ELSE {})
    <2>1. PICK V : V = IF task[w].live THEN {v} ELSE {}
      OBVIOUS
    <2>2. V \subseteq {v} /\ some' = some \ V /\ whole' = whole \ V
      BY <1>5, <2>1
    <2>3. "insert" \in FileSteps
      BY DEF FileSteps
    <2>4. /\ task' \in [Workers -> TaskRecords] /\ \A u \in Workers \ {w} : task'[u] = task[u]
          /\ task'[w].st = "insert" /\ task'[w].path = p /\ task'[w].job = task[w].job
          /\ task'[w].todo = task[w].todo /\ task'[w].del = task[w].del /\ task'[w].live = task[w].live
      BY <1>0, <1>5, <2>3, StageChange
    <2>5. PICK g : g = Hashed(Content(w))
      OBVIOUS
    <2>6. V \subseteq {<<p, g>>}
      BY <1>0, <2>2, <2>5
    <2>7. /\ StoreTypes' /\ \A q \in Paths \ {p} : SameFile(q)
          /\ \A u \in Workers : task'[u] = task[u] => Alive(u)' /\ \A q : OtherTask(u, q)
      BY <1>1, <1>2, <2>2, <2>6, FewerChunks
    <2>8. task'[w].live => Version(w) \in Rows(rows'[p])
      BY <1>0, <1>1, <2>4 DEF PushInv, RowsHeld, Alive, Has, Rows
    <2>9. p \notin excused' => v \notin some' /\ task'[w].live /\ Has(p, v[2])'
      <3>1. p \notin excused => v \notin some /\ task[w].live /\ Has(p, v[2])
        BY <1>0, <1>1, <1>2, FileAhead DEF FarEnough, At, OnFile
      <3>2. QED
        BY <1>1, <1>3, <2>2, <2>4, <3>1 DEF Has
    <2>10. QED
      BY <1>0, <1>1, <1>2, <1>3, <2>3, <2>4, <2>7, <2>8, <2>9, FileGoesOn
  <1>6. QED
    <2>1. \/ /\ Set(w, "insert")
             /\ some' = some \ (IF task[w].live THEN {v} ELSE {})
             /\ whole' = whole \ (IF task[w].live THEN {v} ELSE {})
          \/ Fails({p}) /\ Ends(w) /\ UNCHANGED <<some, whole>>
      BY <1>0, <1>2 DEF Clear
    <2>2. Fails({p}) => p \in excused'
      BY DEF Fails
    <2>3. QED
      BY <1>4, <1>5, <2>1, <2>2

LEMMA InsertInv ==
  ASSUME PushInv, HashesAgree, NEW w \in Workers, Insert(w)
  PROVE  PushInv'
  <1>0. PICK p, v : p = task[w].path /\ v = <<p, Hashed(Content(w))>>
    OBVIOUS
  <1>1. OnFile(w) /\ At(w, "insert") /\ UNCHANGED <<client, jobs, rows>>
    BY DEF Insert, Quietly, At, OnFile, FileSteps
  <1>2. p \in Paths /\ Content(w) \in Texts /\ Version(w) = Hashed(Content(w)) /\ excused \subseteq Paths
        /\ Busy(w) /\ Covers(task[w].job, p) /\ Content(w) = Job(w).tree[p]
    BY <1>0, <1>1, OnFileFacts, PushTasks DEF WorkerSound, At, FileSteps
  <1>3. excused \subseteq excused' /\ excused' \subseteq Paths
    BY <1>0, <1>2 DEF Insert, Works, Fails
  <1>4. task \in [Workers -> TaskRecords] /\ task[w] \in TaskRecords /\ StoreTypes /\ v[2] \in Hashes
    BY <1>0, <1>2, PushTasks, HashTypes
  <1>5. p \notin excused => v \notin some /\ task[w].live /\ Has(p, v[2])
    BY <1>0, <1>1, <1>2, FileAhead DEF FarEnough, At, OnFile
  <1>6. CASE Ends(w) /\ p \in excused' /\ UNCHANGED <<some, whole>>
    BY <1>0, <1>1, <1>3, <1>6, EndsQuietly DEF index
  <1>7. ASSUME task' \in [Workers -> TaskRecords], \A u \in Workers \ {w} : task'[u] = task[u],
               task'[w].st \in {"prune", "rollback"}, task'[w].path = p, task'[w].job = task[w].job,
               task'[w].todo = task[w].todo, task'[w].del = task[w].del, task'[w].live = task[w].live,
               NEW A \in SUBSET {v}, NEW B \in SUBSET A, some' = some \cup A, whole' = whole \cup B,
               A # {} => task[w].live,
               p \in excused' \/ (task'[w].st = "prune" /\ v \in B)
        PROVE  PushInv'
    <2>1. task[w].live => v[2] \in Rows(rows[p])
      BY <1>0, <1>2 DEF PushInv, RowsHeld, Alive, Has, Rows
    <2>2. StoreTypes'
      <3>1. whole' \subseteq some' /\ some' \subseteq Paths \X Hashes
        <4>1. v \in Paths \X Hashes
          BY <1>0, <1>2, <1>4
        <4>2. QED
          BY <1>4, <1>7, <4>1, Zenon DEF StoreTypes
      <3>2. ASSUME NEW q \in Paths, NEW h \in Hashes, <<q, h>> \in some' PROVE h \in Rows(rows[q])
        <4>1. CASE <<q, h>> \in some
          BY <1>4, <4>1 DEF StoreTypes
        <4>2. CASE <<q, h>> \in A
          <5>1. q = p /\ h = v[2]
            BY <1>0, <1>7, <4>2
          <5>2. QED
            BY <1>7, <2>1, <4>2, <5>1
        <4>3. QED
          BY <1>7, <3>2, <4>1, <4>2
      <3>3. QED
        BY <1>1, <1>4, <3>1, <3>2 DEF StoreTypes, RowsDiffer, Rows
    <2>3. \A q \in Paths \ {p} : SameFile(q)
      <3> SUFFICES ASSUME NEW q \in Paths \ {p} PROVE SameFile(q)
        OBVIOUS
      <3>1. \A g : <<q, g>> \notin A /\ <<q, g>> \notin B
        BY <1>0, <1>7
      <3>2. QED
        BY <1>1, <1>7, <3>1 DEF SameFile
    <2>4. ASSUME NEW u \in Workers \ {w} PROVE OtherTask(u, p) /\ Alive(u)'
      <3>1. Alive(u) /\ task'[u] = task[u]
        BY <1>7 DEF PushInv, RowsHeld
      <3>2. QED
        BY <1>1, <3>1 DEF Alive, OtherTask, OnFile, Has, Version, Content, Job, Stored
    <2>5. task'[w].live => Version(w) \in Rows(rows'[p])
      BY <1>0, <1>1, <1>2, <1>7, <2>1
    <2>6. task'[w].st \in FileSteps /\ task'[w].st \notin {"check", "upsert", "clear", "insert"}
      BY <1>7 DEF FileSteps
    <2>7. p \notin excused' => v \in whole' /\ task'[w].st # "rollback"
      BY <1>7
    <2>8. QED
      BY <1>0, <1>1, <1>2, <1>3, <1>7, <2>2, <2>3, <2>4, <2>5, <2>6, <2>7, FileGoesOn
  <1>8. ASSUME NEW st \in {"prune", "rollback"}, NEW made \in BOOLEAN,
               task' = [task EXCEPT ![w].st = st, ![w].created = made]
        PROVE  /\ task' \in [Workers -> TaskRecords] /\ \A u \in Workers \ {w} : task'[u] = task[u]
               /\ task'[w].st = st /\ task'[w].path = p /\ task'[w].job = task[w].job
               /\ task'[w].todo = task[w].todo /\ task'[w].del = task[w].del /\ task'[w].live = task[w].live
    <2>1. [task[w] EXCEPT !.st = st, !.created = made] \in TaskRecords
      BY <1>4 DEF TaskRecords, FileSteps
    <2>2. task'[w] = [task[w] EXCEPT !.st = st, !.created = made]
      BY <1>4, <1>8
    <2>3. task' \in [Workers -> TaskRecords] /\ \A u \in Workers \ {w} : task'[u] = task[u]
      BY <1>4, <1>8, <2>1
    <2>4. QED
      BY <1>0, <1>4, <2>2, <2>3 DEF TaskRecords
  <1>9. CASE /\ Works /\ task[w].live /\ some' = some \cup {v} /\ whole' = whole \cup {v}
             /\ task' = [task EXCEPT ![w].st = "prune", ![w].created = TRUE]
    BY <1>7, <1>8, <1>9
  <1>10. CASE /\ Works /\ ~task[w].live /\ UNCHANGED <<some, whole>> /\ Set(w, "rollback")
    <2>1. /\ task' \in [Workers -> TaskRecords] /\ \A u \in Workers \ {w} : task'[u] = task[u]
          /\ task'[w].st = "rollback" /\ task'[w].path = task[w].path /\ task'[w].job = task[w].job
          /\ task'[w].todo = task[w].todo /\ task'[w].del = task[w].del /\ task'[w].live = task[w].live
      BY <1>10, StageChange DEF FileSteps
    <2>2. p \in excused'
      BY <1>3, <1>5, <1>10
    <2>3. some' = some \cup {} /\ whole' = whole \cup {}
      BY <1>10
    <2>4. QED
      BY <1>0, <1>7, <2>1, <2>2, <2>3
  <1>11. CASE /\ task[w].live /\ p \in excused' /\ UNCHANGED whole
              /\ \E part \in BOOLEAN :
                   /\ some' = some \cup (IF part THEN {v} ELSE {})
                   /\ task' = [task EXCEPT ![w].st = "rollback", ![w].created = part]
    <2>1. PICK part \in BOOLEAN : /\ some' = some \cup (IF part THEN {v} ELSE {})
                                  /\ task' = [task EXCEPT ![w].st = "rollback", ![w].created = part]
      BY <1>11
    <2>2. PICK A : A = IF part THEN {v} ELSE {}
      OBVIOUS
    <2>3. A \in SUBSET {v} /\ {} \in SUBSET A /\ some' = some \cup A /\ whole' = whole \cup {}
      BY <1>11, <2>1, <2>2
    <2>4. QED
      BY <1>7, <1>8, <1>11, <2>1, <2>3
  <1>12. CASE Works /\ ~task[w].live /\ UNCHANGED <<some, whole>> /\ Ends(w)
    <2>1. p \in excused'
      BY <1>3, <1>5, <1>12
    <2>2. QED
      BY <1>6, <1>12, <2>1
  <1>13. QED
    <2>1. \/ /\ Works /\ task[w].live /\ some' = some \cup {v} /\ whole' = whole \cup {v}
             /\ task' = [task EXCEPT ![w].st = "prune", ![w].created = TRUE]
          \/ Works /\ ~task[w].live /\ UNCHANGED <<some, whole>> /\ (Ends(w) \/ Set(w, "rollback"))
          \/ /\ task[w].live /\ Fails({p}) /\ UNCHANGED whole
             /\ \E part \in BOOLEAN :
                  /\ some' = some \cup (IF part THEN {v} ELSE {})
                  /\ task' = [task EXCEPT ![w].st = "rollback", ![w].created = part]
          \/ Fails({p}) /\ Ends(w) /\ UNCHANGED <<some, whole>>
      BY <1>0, <1>2 DEF Insert
    <2>2. Fails({p}) => p \in excused'
      BY DEF Fails
    <2>3. QED
      BY <1>6, <1>9, <1>10, <1>11, <1>12, <2>1, <2>2

(* A file's versions become s, and its turn ends.                            *)
LEMMA EndsWith ==
  ASSUME PushInv, NEW w \in Workers, OnFile(w), NEW p, p = task[w].path,
         NEW s \in Seq(Hashes), RowsDiffer(s), Becomes(p, s, w, AfterFile(w)),
         UNCHANGED <<client, jobs>>, excused \subseteq excused', excused' \subseteq Paths,
         p \notin excused' =>
           IF Content(w) \in Texts
             THEN s = <<Hashed(Content(w))>> /\ <<p, Hashed(Content(w))>> \in whole
             ELSE s = <<>>
  PROVE  PushInv'
  <1>1. p \in Paths /\ AfterFile(w) \in TaskRecords
    BY OnFileFacts
  <1>2. PICK t : t = AfterFile(w)
    OBVIOUS
  <1>3. /\ StoreTypes' /\ task' \in [Workers -> TaskRecords]
        /\ task'[w] = t /\ rows'[p] = s
        /\ \A u \in Workers \ {w} : OtherTask(u, p) /\ Alive(u)'
        /\ \A q \in Paths \ {p} : SameFile(q)
        /\ \A h : <<p, h>> \in whole' <=> <<p, h>> \in whole /\ h \in Rows(s)
    BY <1>1, <1>2, BecomesFacts
  <1>4. ASSUME p \notin excused', NEW c, c = Content(w) PROVE Matches(p, c)'
    <2>1. CASE c \in Texts
      <3>1. Hashed(c) \in Rows(s)
        BY <1>4, <2>1, HashTypes, OneRow
      <3>2. QED
        BY <1>3, <1>4, <2>1, <3>1 DEF Matches, Hashed
    <2>2. CASE c \notin Texts
      BY <1>3, <1>4, <2>2 DEF Matches
    <2>3. QED
      BY <2>1, <2>2
  <1>5. QED
    BY <1>2, <1>3, <1>4, FileEnds

LEMMA PruneInv ==
  ASSUME PushInv, HashesAgree, NEW w \in Workers, Prune(w)
  PROVE  PushInv'
  <1>0. PICK p, h : p = task[w].path /\ h = Hashed(Content(w))
    OBVIOUS
  <1>1. OnFile(w) /\ At(w, "prune") /\ UNCHANGED <<client, jobs>>
    BY DEF Prune, Quietly, At, OnFile, FileSteps
  <1>2. p \in Paths /\ Content(w) \in Texts /\ excused \subseteq Paths
        /\ Busy(w) /\ Covers(task[w].job, p) /\ Content(w) = Job(w).tree[p] /\ StoreTypes /\ h \in Hashes
    BY <1>0, <1>1, OnFileFacts, PushTasks, HashTypes DEF WorkerSound, At, FileSteps
  <1>3. excused \subseteq excused' /\ excused' \subseteq Paths
    BY <1>0, <1>2 DEF Prune, Works, Fails
  <1>4. CASE Becomes(p, Kept(p, h), w, AfterFile(w))
    <2>1. PICK s : s = Kept(p, h)
      OBVIOUS
    <2>2. s \in Seq(Hashes) /\ RowsDiffer(s)
      BY <1>2, <2>1, OneRow DEF Kept
    <2>3. p \notin excused' => s = <<h>> /\ <<p, h>> \in whole
      <3>1. p \notin excused => <<p, h>> \in whole
        BY <1>0, <1>1, <1>2, FileAhead DEF FarEnough, At, OnFile
      <3>2. <<p, h>> \in whole => Has(p, h)
        BY <1>2 DEF StoreTypes, Has, Rows
      <3>3. QED
        BY <1>3, <2>1, <3>1, <3>2 DEF Kept
    <2>4. Becomes(p, s, w, AfterFile(w))
      BY <1>4, <2>1
    <2>5. QED
      BY <1>0, <1>1, <1>2, <1>3, <2>2, <2>3, <2>4, EndsWith
  <1>5. CASE p \in excused' /\ Ends(w) /\ UNCHANGED index
    BY <1>0, <1>1, <1>3, <1>5, EndsQuietly
  <1>6. QED
    BY <1>0, <1>4, <1>5 DEF Prune, Fails

LEMMA RemoveBlankInv ==
  ASSUME PushInv, NEW w \in Workers, RemoveBlank(w)
  PROVE  PushInv'
  <1>0. PICK p : p = task[w].path
    OBVIOUS
  <1>1. OnFile(w) /\ At(w, "remove") /\ UNCHANGED <<client, jobs>>
    BY DEF RemoveBlank, Quietly, At, OnFile, FileSteps
  <1>2. p \in Paths /\ Content(w) \notin Texts /\ excused \subseteq Paths
    BY <1>0, <1>1, OnFileFacts, PushTasks, PushSpecialsAssumption DEF WorkerSound
  <1>3. excused \subseteq excused' /\ excused' \subseteq Paths
    BY <1>0, <1>2 DEF RemoveBlank, Works, Fails
  <1>4. CASE Becomes(p, <<>>, w, AfterFile(w))
    <2>1. PICK s : s = <<>>
      OBVIOUS
    <2>2. s \in Seq(Hashes) /\ RowsDiffer(s)
      BY <2>1 DEF RowsDiffer
    <2>3. Becomes(p, s, w, AfterFile(w))
      BY <1>4, <2>1
    <2>4. QED
      BY <1>0, <1>1, <1>2, <1>3, <2>1, <2>2, <2>3, EndsWith
  <1>5. CASE p \in excused' /\ Ends(w) /\ UNCHANGED index
    BY <1>0, <1>1, <1>3, <1>5, EndsQuietly
  <1>6. QED
    BY <1>0, <1>4, <1>5 DEF RemoveBlank, Fails

LEMMA RollBackInv ==
  ASSUME PushInv, HashesAgree, NEW w \in Workers, RollBack(w)
  PROVE  PushInv'
  <1> DEFINE T == IF task[w].created THEN [task[w] EXCEPT !.st = "prune", !.live = FALSE] ELSE AfterFile(w)
             S == IF task[w].live THEN Without(rows[task[w].path], Version(w)) ELSE rows[task[w].path]
  <1>0. PICK p, h, t, s : p = task[w].path /\ h = Version(w) /\ t = T /\ s = S
    OBVIOUS
  <1>1. OnFile(w) /\ At(w, "rollback") /\ UNCHANGED <<client, jobs>>
    BY DEF RollBack, Quietly, At, OnFile, FileSteps
  <1>2. p \in Paths /\ Content(w) \in Texts /\ h = Hashed(Content(w)) /\ excused \subseteq Paths
        /\ Busy(w) /\ Covers(task[w].job, p) /\ Content(w) = Job(w).tree[p]
        /\ StoreTypes /\ task[w] \in TaskRecords /\ AfterFile(w) \in TaskRecords
    BY <1>0, <1>1, OnFileFacts, PushTasks DEF WorkerSound, At, FileSteps
  <1>3. excused \subseteq excused' /\ excused' \subseteq Paths
    BY <1>0, <1>2 DEF RollBack, Works, Fails
  <1>4. p \in excused'
    <2>1. p \notin excused => task[w].st # "rollback"
      BY <1>0, <1>1, <1>2, FileAhead DEF FarEnough
    <2>2. QED
      BY <1>1, <1>3, <2>1 DEF At
  <1>5. t \in TaskRecords /\ task \in [Workers -> TaskRecords]
    BY <1>0, <1>2, PushTasks DEF TaskRecords, FileSteps
  <1>6. ASSUME StoreTypes', task' \in [Workers -> TaskRecords], task'[w] = t,
               \A u \in Workers \ {w} : OtherTask(u, p) /\ Alive(u)', \A q \in Paths \ {p} : SameFile(q)
        PROVE  PushInv'
    <2>1. CASE task[w].created
      <3>1. /\ task'[w].st = "prune" /\ task'[w].path = p /\ task'[w].job = task[w].job
            /\ task'[w].todo = task[w].todo /\ task'[w].del = task[w].del /\ ~task'[w].live
        BY <1>0, <1>2, <1>6, <2>1 DEF TaskRecords
      <3>2. PICK v : v = <<p, Hashed(Content(w))>>
        OBVIOUS
      <3>3. "prune" \in FileSteps
        BY DEF FileSteps
      <3>4. QED
        BY <1>0, <1>1, <1>2, <1>3, <1>4, <1>6, <3>1, <3>2, <3>3, FileGoesOn
    <2>2. CASE ~task[w].created
      <3>1. task'[w] = AfterFile(w)
        BY <1>0, <1>6, <2>2
      <3>2. QED
        BY <1>0, <1>1, <1>3, <1>4, <1>6, <3>1, FileEnds
    <2>3. QED
      BY <2>1, <2>2
  <1>7. CASE Becomes(p, s, w, t)
    <2>1. rows[p] \in Seq(Hashes) /\ RowsDiffer(rows[p])
      BY <1>2 DEF StoreTypes
    <2>2. s \in Seq(Hashes) /\ RowsDiffer(s)
      BY <1>0, <2>1, WithoutFacts
    <2>3. /\ StoreTypes' /\ task' \in [Workers -> TaskRecords] /\ task'[w] = t
          /\ \A u \in Workers \ {w} : OtherTask(u, p) /\ Alive(u)'
          /\ \A q \in Paths \ {p} : SameFile(q)
      BY <1>1, <1>2, <1>5, <1>7, <2>2, BecomesFacts
    <2>4. QED
      BY <1>6, <2>3
  <1>8. ASSUME task' = [task EXCEPT ![w] = t]
        PROVE  task' \in [Workers -> TaskRecords] /\ task'[w] = t /\ \A u \in Workers \ {w} : task'[u] = task[u]
    BY <1>5, <1>8
  <1>9. CASE task' = [task EXCEPT ![w] = t] /\ UNCHANGED index
    <2>1. StoreTypes' /\ \A q \in Paths \ {p} : SameFile(q)
      BY <1>1, <1>9, StoreKept
    <2>2. \A u \in Workers \ {w} : OtherTask(u, p) /\ Alive(u)'
      BY <1>1, <1>8, <1>9, StoreKept
    <2>3. QED
      BY <1>6, <1>8, <1>9, <2>1, <2>2
  <1>10. CASE /\ task' = [task EXCEPT ![w] = t] /\ UNCHANGED rows
              /\ some' = IF task[w].live THEN some \ {<<p, h>>} ELSE some
              /\ whole' = IF task[w].live THEN whole \ {<<p, h>>} ELSE whole
    <2>1. PICK V : V = IF task[w].live THEN {<<p, h>>} ELSE {}
      OBVIOUS
    <2>2. V \subseteq {<<p, h>>} /\ some' = some \ V /\ whole' = whole \ V
      BY <1>10, <2>1
    <2>3. /\ StoreTypes' /\ \A q \in Paths \ {p} : SameFile(q)
          /\ \A u \in Workers : task'[u] = task[u] => Alive(u)' /\ \A q : OtherTask(u, q)
      BY <1>1, <1>2, <1>10, <2>2, FewerChunks
    <2>4. QED
      BY <1>6, <1>8, <1>10, <2>3
  <1>11. QED
    <2> HIDE DEF T, S
    <2>1. \/ Becomes(task[w].path, S, w, T)
          \/ task' = [task EXCEPT ![w] = T] /\ UNCHANGED index
          \/ /\ task' = [task EXCEPT ![w] = T] /\ UNCHANGED rows
             /\ some' = IF task[w].live THEN some \ {<<task[w].path, Version(w)>>} ELSE some
             /\ whole' = IF task[w].live THEN whole \ {<<task[w].path, Version(w)>>} ELSE whole
      BY DEF RollBack, T, S
    <2>2. QED
      BY <1>0, <1>7, <1>9, <1>10, <2>1

LEMMA DeleteInv ==
  ASSUME PushInv, NEW w \in Workers, Delete(w)
  PROVE  PushInv'
  <1>1. PICK p \in task[w].del :
          LET t == [task[w] EXCEPT !.del = @ \ {p}] IN
          \/ Works /\ Becomes(p, <<>>, w, t)
          \/ Fails({p}) /\ task' = [task EXCEPT ![w] = t] /\ UNCHANGED index
    BY DEF Delete
  <1>2. PICK t : t = [task[w] EXCEPT !.del = @ \ {p}]
    OBVIOUS
  <1>3. At(w, "delete") /\ Busy(w) /\ WorkerSound(w) /\ UNCHANGED <<client, jobs>>
    BY DEF Delete, At, Busy, Quietly, PushInv, WorkersSound
  <1>4. task \in [Workers -> TaskRecords] /\ task[w] \in TaskRecords /\ excused \subseteq Paths /\ StoreTypes
        /\ jobs \in Seq(JobRecords)
    BY PushTasks
  <1>5. p \in Paths /\ Covers(task[w].job, p) /\ p \in Job(w).del /\ t \in TaskRecords
        /\ task[w].job \in DOMAIN jobs
    BY <1>2, <1>3, <1>4 DEF WorkerSound, Covers, Job, TaskRecords
  <1>6. t.st = "delete" /\ t.job = task[w].job /\ t.todo = task[w].todo /\ t.del = task[w].del \ {p}
        /\ t.path = task[w].path /\ ~t.live
    <2>1. ~task[w].live
      BY <1>3 DEF PushInv, RowsHeld, Alive, OnFile, At, FileSteps
    <2>2. QED
      BY <1>2, <1>3, <1>4, <2>1 DEF TaskRecords, At
  <1>7. excused \subseteq excused' /\ excused' \subseteq Paths
    BY <1>1, <1>4, <1>5 DEF Works, Fails
  <1>8. Job(w).tree[p] \notin Texts
    BY <1>5, PushSpecialsAssumption DEF PushInv, JobsSound, Job
  <1>9. ASSUME StoreTypes', task' \in [Workers -> TaskRecords], task'[w] = t,
               \A u \in Workers \ {w} : OtherTask(u, p) /\ Alive(u)', \A q \in Paths \ {p} : SameFile(q),
               p \in excused' \/ rows'[p] = <<>>
        PROVE  PushInv'
    <2>1. Job(w)' = Job(w) /\ Busy(w)' /\ ~OnFile(w)'
      BY <1>3, <1>6, <1>9 DEF Job, Busy, OnFile, FileSteps
    <2>2. WorkerSound(w)'
      BY <1>3, <1>6, <1>9, <2>1 DEF WorkerSound, At, OnFile, FileSteps
    <2>3. \A q \in Paths \ {p} : SameTask(w, q)
      BY <1>3, <1>6, <1>9, <2>1 DEF SameTask, OnIt, OnFile, At, FileSteps
    <2>4. Alive(w)'
      BY <1>6, <1>9 DEF Alive
    <2>5. p \notin excused' => Matches(p, Job(w).tree[p])'
      BY <1>8, <1>9, <2>1 DEF Matches
    <2>6. p \notin excused' => Fresh(p, Job(w).tree[p])' /\ FarEnough(w, p)'
      BY <2>1, <2>5 DEF Fresh, FarEnough
    <2>7. \A u \in Workers : Alive(u)'
      BY <1>9, <2>4
    <2>8. QED
      BY <1>3, <1>5, <1>6, <1>7, <1>9, <2>1, <2>2, <2>3, <2>6, <2>7, FileStep
  <1>10. CASE Becomes(p, <<>>, w, t)
    <2>1. PICK s : s = <<>>
      OBVIOUS
    <2>2. s \in Seq(Hashes) /\ RowsDiffer(s) /\ Becomes(p, s, w, t)
      BY <1>10, <2>1 DEF RowsDiffer
    <2>3. /\ StoreTypes' /\ task' \in [Workers -> TaskRecords] /\ task'[w] = t /\ rows'[p] = s
          /\ \A u \in Workers \ {w} : OtherTask(u, p) /\ Alive(u)'
          /\ \A q \in Paths \ {p} : SameFile(q)
      BY <1>3, <1>5, <2>2, BecomesFacts
    <2>4. QED
      BY <1>9, <2>1, <2>3
  <1>11. CASE p \in excused' /\ task' = [task EXCEPT ![w] = t] /\ UNCHANGED index
    <2>1. task' \in [Workers -> TaskRecords] /\ task'[w] = t /\ \A u \in Workers \ {w} : task'[u] = task[u]
      BY <1>4, <1>5, <1>11
    <2>2. StoreTypes' /\ \A q \in Paths \ {p} : SameFile(q)
      BY <1>3, <1>11, StoreKept
    <2>3. \A u \in Workers \ {w} : OtherTask(u, p) /\ Alive(u)'
      BY <1>3, <1>11, <2>1, StoreKept
    <2>4. QED
      BY <1>9, <1>11, <2>1, <2>2, <2>3
  <1>12. QED
    BY <1>1, <1>2, <1>10, <1>11 DEF Fails

LEMMA InventoryInv ==
  ASSUME PushInv, NEW w \in Workers, Inventory(w)
  PROVE  PushInv'
  <1>1. At(w, "delete") /\ task[w].del = {} /\ Busy(w) /\ WorkerSound(w) /\ UNCHANGED <<client, jobs, index>>
    BY DEF Inventory, At, Busy, Quietly, PushInv, WorkersSound
  <1>2. task \in [Workers -> TaskRecords] /\ task[w] \in TaskRecords /\ excused \subseteq Paths
    BY PushTasks
  <1>3. ~task[w].live
    BY <1>1 DEF PushInv, RowsHeld, Alive, OnFile, At, FileSteps
  <1>4. excused \subseteq excused' /\ excused' \subseteq Paths
    BY <1>2 DEF Inventory, Works, Fails, TaskRecords
  <1>5. PICK t : /\ t.st = "files" /\ t.job = task[w].job /\ t.del = task[w].del /\ ~t.live
                 /\ t.todo \subseteq task[w].todo /\ task[w].todo \ t.todo \subseteq excused'
                 /\ t \in TaskRecords /\ task' = [task EXCEPT ![w] = t]
    <2>1. CASE Works /\ Set(w, "files")
      <3>1. PICK t : t = [task[w] EXCEPT !.st = "files"]
        OBVIOUS
      <3>2. task' = [task EXCEPT ![w] = t]
        BY <1>2, <2>1, <3>1 DEF Set
      <3>3. QED
        BY <1>2, <1>3, <3>1, <3>2 DEF TaskRecords
    <2>2. CASE Fails(task[w].todo) /\ task' = [task EXCEPT ![w].st = "files", ![w].todo = {}]
      <3>1. PICK t : t = [task[w] EXCEPT !.st = "files", !.todo = {}]
        OBVIOUS
      <3>2. task' = [task EXCEPT ![w] = t]
        BY <1>2, <2>2, <3>1
      <3>3. task[w].todo \subseteq excused'
        BY <2>2 DEF Fails
      <3>4. QED
        BY <1>2, <1>3, <3>1, <3>2, <3>3 DEF TaskRecords
    <2>3. QED
      BY <2>1, <2>2 DEF Inventory
  <1>6. task'[w] = t
    BY <1>2, <1>5
  <1>7. Job(w)' = Job(w) /\ Busy(w)' /\ ~OnFile(w)'
    BY <1>1, <1>5, <1>6 DEF Job, Busy, OnFile, FileSteps
  <1>8. WorkerSound(w)'
    BY <1>1, <1>5, <1>6, <1>7 DEF WorkerSound, At, FileSteps
  <1>9. \A q \in Paths \ excused' : SameTask(w, q)
    BY <1>1, <1>5, <1>6, <1>7 DEF SameTask, OnIt, OnFile, At, FileSteps
  <1>10. QED
    BY <1>1, <1>3, <1>4, <1>5, <1>7, <1>8, <1>9, QuietStep

LEMMA BeginInv ==
  ASSUME PushInv, NEW w \in Workers, Begin(w)
  PROVE  PushInv'
  <1>1. At(w, "files") /\ Busy(w) /\ WorkerSound(w) /\ UNCHANGED <<client, jobs, index, excused>>
    BY DEF Begin, At, Busy, Quietly, Works, PushInv, WorkersSound
  <1>2. PICK p \in task[w].todo :
          task' = [task EXCEPT ![w].path = p,
                               ![w].st = IF Job(w).tree[p] = Blank THEN "remove" ELSE "check"]
    BY DEF Begin
  <1>3. task \in [Workers -> TaskRecords] /\ task[w] \in TaskRecords /\ excused \subseteq Paths
        /\ jobs \in Seq(JobRecords)
    BY PushTasks
  <1>4. p \in Paths /\ p \in Job(w).put /\ Covers(task[w].job, p) /\ task[w].job \in DOMAIN jobs
        /\ Job(w) \in JobRecords
    BY <1>1, <1>3 DEF WorkerSound, Covers, Job, TaskRecords
  <1>5. Job(w).tree[p] \in Texts \cup {Blank}
    <2>1. Job(w).tree[p] \in Contents
      BY <1>4 DEF JobRecords, Trees
    <2>2. QED
      BY <1>4, <2>1 DEF PushInv, JobsSound, Job, Contents
  <1>6. PICK t : t = [task[w] EXCEPT !.path = p, !.st = IF Job(w).tree[p] = Blank THEN "remove" ELSE "check"]
    OBVIOUS
  <1>7. /\ t \in TaskRecords /\ t.path = p /\ t.job = task[w].job /\ t.todo = task[w].todo
        /\ t.del = task[w].del /\ t.live = task[w].live
        /\ t.st = IF Job(w).tree[p] = Blank THEN "remove" ELSE "check"
    BY <1>3, <1>4, <1>6 DEF TaskRecords, FileSteps
  <1>8. task' \in [Workers -> TaskRecords] /\ task'[w] = t /\ \A u \in Workers \ {w} : task'[u] = task[u]
    BY <1>2, <1>3, <1>6, <1>7
  <1>9. ~task[w].live /\ ~OnFile(w)
    BY <1>1 DEF PushInv, RowsHeld, Alive, OnFile, At, FileSteps
  <1>10. Job(w)' = Job(w) /\ Busy(w)' /\ OnFile(w)' /\ Content(w)' = Job(w).tree[p]
    BY <1>1, <1>7, <1>8 DEF Job, Busy, OnFile, FileSteps, Content
  <1>11. WorkerSound(w)'
    BY <1>1, <1>5, <1>7, <1>8, <1>10 DEF WorkerSound, At, FileSteps
  <1>12. \A q \in Paths \ {p} : SameFile(q) /\ SameTask(w, q)
    BY <1>1, <1>7, <1>8, <1>9, <1>10, StoreKept DEF SameTask, OnIt
  <1>13. StoreTypes' /\ \A u \in Workers \ {w} : OtherTask(u, p) /\ Alive(u)'
    BY <1>1, <1>8, StoreKept
  <1>14. Alive(w)'
    BY <1>7, <1>8, <1>9 DEF Alive
  <1>15. p \notin excused' => Fresh(p, Job(w).tree[p])' /\ FarEnough(w, p)'
    <2> SUFFICES ASSUME p \notin excused' PROVE Fresh(p, Job(w).tree[p])' /\ FarEnough(w, p)'
      OBVIOUS
    <2>1. Fresh(p, Job(w).tree[p])
      BY <1>1, <1>4, <1>9, FileAhead DEF OnIt
    <2>2. Fresh(p, Job(w).tree[p])'
      BY <1>1, <1>10, <2>1 DEF Fresh, Matches, index
    <2>3. (p \in Job(w).put /\ p \in task[w].todo)'
      BY <1>4, <1>7, <1>8, <1>10
    <2>4. task'[w].st \in {"check", "remove"}
      BY <1>7, <1>8
    <2>5. QED
      BY <2>2, <2>3, <2>4 DEF FarEnough, Handled
  <1>16. \A u \in Workers : Alive(u)'
    BY <1>13, <1>14
  <1>17. QED
    BY <1>1, <1>3, <1>4, <1>7, <1>8, <1>10, <1>11, <1>12, <1>13, <1>15, <1>16, FileStep

(* Steps that change what jobs there are, or how far they have got.          *)
SameJobs ==
  Len(jobs') = Len(jobs) /\ DOMAIN jobs' = DOMAIN jobs /\ \A k \in DOMAIN jobs :
    /\ jobs'[k].put = jobs[k].put /\ jobs'[k].del = jobs[k].del
    /\ jobs'[k].tree = jobs[k].tree /\ jobs'[k].embed = jobs[k].embed

LEMMA StatusChange ==
  ASSUME jobs \in Seq(JobRecords), NEW i \in DOMAIN jobs,
         NEW st \in {"queued", "running", "succeeded", "failed"}, jobs' = [jobs EXCEPT ![i].st = st]
  PROVE  /\ jobs' \in Seq(JobRecords) /\ SameJobs /\ jobs'[i].st = st
         /\ \A k \in DOMAIN jobs : k # i => jobs'[k] = jobs[k]
  <1>1. \A k \in DOMAIN jobs : jobs[k] \in JobRecords
    OBVIOUS
  <1>2. [jobs[i] EXCEPT !.st = st] \in JobRecords
    BY <1>1 DEF JobRecords
  <1>3. jobs'[i] = [jobs[i] EXCEPT !.st = st] /\ \A k \in DOMAIN jobs : k # i => jobs'[k] = jobs[k]
    OBVIOUS
  <1>4. DOMAIN jobs' = DOMAIN jobs /\ Len(jobs') = Len(jobs) /\ jobs' \in Seq(JobRecords)
    BY <1>2
  <1>5. jobs[i] \in JobRecords
    BY <1>1
  <1>6. \A k \in DOMAIN jobs : jobs'[k].put = jobs[k].put /\ jobs'[k].del = jobs[k].del
                               /\ jobs'[k].tree = jobs[k].tree /\ jobs'[k].embed = jobs[k].embed
    <2> SUFFICES ASSUME NEW k \in DOMAIN jobs
                 PROVE  jobs'[k].put = jobs[k].put /\ jobs'[k].del = jobs[k].del
                        /\ jobs'[k].tree = jobs[k].tree /\ jobs'[k].embed = jobs[k].embed
      OBVIOUS
    <2>1. CASE k = i
      BY <1>3, <1>5, <2>1 DEF JobRecords
    <2>2. CASE k # i
      BY <1>3, <2>2
    <2>3. QED
      BY <2>1, <2>2
  <1>7. jobs'[i].st = st
    BY <1>3, <1>5 DEF JobRecords
  <1>8. QED
    BY <1>3, <1>4, <1>6, <1>7 DEF SameJobs

(* The store, the client and all about the jobs but their status stay.       *)
LEMMA OnlyStatus ==
  ASSUME PushInv, UNCHANGED <<client, index>>, SameJobs, jobs' \in Seq(JobRecords),
         task' \in [Workers -> TaskRecords], excused \subseteq excused', excused' \subseteq Paths
  PROVE  /\ PushTypes' /\ JobsSound' /\ UNCHANGED <<push, reported>>
         /\ \A p \in Paths : SameFile(p) /\ \A i \in DOMAIN jobs : Covers(i, p)' <=> Covers(i, p)
         /\ \A u \in Workers : task'[u] = task[u] => Alive(u)'
         /\ \A u \in Workers : task[u].job \in DOMAIN jobs /\ task'[u] = task[u] =>
              Job(u)'.put = Job(u).put /\ Job(u)'.del = Job(u).del /\ Job(u)'.tree = Job(u).tree
  <1>1. UNCHANGED <<tree, push, reported, rows, some, whole>>
    BY DEF client, index
  <1>2. StoreTypes /\ PushParts
    BY PushTypesSplit DEF PushParts, PushInv
  <1>3. StoreTypes'
    BY <1>1, <1>2 DEF StoreTypes, RowsDiffer, Rows
  <1>4. (task \in [Workers -> TaskRecords])'
    BY DEF TaskRecords, SameJobs
  <1>5. PushTypes'
    BY <1>1, <1>2, <1>3, <1>4, PushTypesNext DEF PushParts, SameJobs
  <1>6. JobsSound'
    BY <1>1 DEF PushInv, JobsSound, SameJobs
  <1>7. \A p \in Paths : SameFile(p) /\ \A i \in DOMAIN jobs : Covers(i, p)' <=> Covers(i, p)
    BY <1>1 DEF SameFile, Covers, SameJobs
  <1>8. \A u \in Workers : task[u].job \in DOMAIN jobs /\ task'[u] = task[u] =>
          Job(u)'.put = Job(u).put /\ Job(u)'.del = Job(u).del /\ Job(u)'.tree = Job(u).tree
    BY DEF Job, SameJobs
  <1>9. ASSUME NEW u \in Workers, task'[u] = task[u] PROVE Alive(u)'
    <2> SUFFICES ASSUME task[u].live PROVE Alive(u)'
      BY <1>9 DEF Alive
    <2>1. OnFile(u) /\ Has(task[u].path, Version(u))
      BY DEF PushInv, RowsHeld, Alive
    <2>2. task[u].job \in DOMAIN jobs
      BY <2>1, OnFileFacts DEF WorkerSound
    <2>3. Version(u)' = Version(u)
      BY <1>9, <2>2 DEF Version, Content, Job, Stored, SameJobs
    <2>4. QED
      BY <1>1, <1>9, <2>1, <2>3 DEF Alive, OnFile, Has
  <1>10. QED
    BY <1>1, <1>5, <1>6, <1>7, <1>8, <1>9

(* A job's status changes with the worker that has it.                       *)
LEMMA StatusStep ==
  ASSUME PushInv, NEW w \in Workers, NEW i \in DOMAIN jobs, NEW t \in TaskRecords,
         NEW st \in {"running", "succeeded", "failed"}, Unfinished(i),
         UNCHANGED <<client, index, excused>>, jobs' = [jobs EXCEPT ![i].st = st],
         task' = [task EXCEPT ![w] = t], ~t.live, ~At(w, "prune"), t.st \in {"idle", "delete"},
         \A u \in Workers \ {w} : Busy(u) => task[u].job # i,
         t.st = "delete" => /\ st = "running" /\ t.job = i
                           /\ t.todo = jobs[i].put /\ t.del = jobs[i].del,
         st = "succeeded" =>
           \A p \in Paths \ excused : \A c : Covers(i, p) /\ c = jobs[i].tree[p] => Matches(p, c)
  PROVE  PushInv'
  <1>1. task \in [Workers -> TaskRecords] /\ jobs \in Seq(JobRecords) /\ excused \subseteq Paths
    BY PushTasks
  <1>2. /\ jobs' \in Seq(JobRecords) /\ SameJobs /\ jobs'[i].st = st
        /\ \A k \in DOMAIN jobs : k # i => jobs'[k] = jobs[k]
    BY <1>1, StatusChange
  <1>3. task' \in [Workers -> TaskRecords] /\ task'[w] = t /\ \A u \in Workers \ {w} : task'[u] = task[u]
    BY <1>1
  <1>4. /\ PushTypes' /\ JobsSound' /\ UNCHANGED <<push, reported>>
        /\ \A p \in Paths : SameFile(p) /\ \A k \in DOMAIN jobs : Covers(k, p)' <=> Covers(k, p)
        /\ \A u \in Workers : task'[u] = task[u] => Alive(u)'
        /\ \A u \in Workers : task[u].job \in DOMAIN jobs /\ task'[u] = task[u] =>
             Job(u)'.put = Job(u).put /\ Job(u)'.del = Job(u).del /\ Job(u)'.tree = Job(u).tree
    BY <1>1, <1>2, <1>3, OnlyStatus
  <1>5. RowsHeld'
    BY <1>3, <1>4 DEF RowsHeld, Alive
  <1>6. \A u \in Workers \ {w} : Busy(u)' => Busy(u) /\ WorkerSound(u) /\ task[u].job # i /\ task[u].job \in DOMAIN jobs
    BY <1>3 DEF PushInv, WorkersSound, WorkerSound, Busy
  <1>7. /\ ~OnFile(w)'
        /\ Busy(w)' => t.st = "delete" /\ Job(w)' = jobs'[i] /\ jobs'[i].put = t.todo /\ jobs'[i].del = t.del
    BY <1>2, <1>3 DEF OnFile, FileSteps, Busy, Job, SameJobs
  <1>8. WorkersSound'
    <2>1. ASSUME NEW u \in Workers, Busy(u)' PROVE WorkerSound(u)'
      <3>1. CASE u = w
        BY <1>2, <1>3, <1>7, <2>1, <3>1 DEF WorkerSound, OnFile, At, FileSteps, SameJobs
      <3>2. CASE u # w
        <4>1. task'[u] = task[u] /\ jobs'[task[u].job] = jobs[task[u].job] /\ DOMAIN jobs' = DOMAIN jobs
          BY <1>2, <1>3, <1>6, <2>1, <3>2 DEF SameJobs
        <4>2. QED
          BY <1>6, <2>1, <3>2, <4>1, SMTT(60) DEF WorkerSound, OnFile, At, Job, Content
      <3>3. QED
        BY <3>1, <3>2
    <2>2. ASSUME NEW u \in Workers, NEW v \in Workers, Busy(u)', Busy(v)', task'[u].job = task'[v].job PROVE u = v
      <3>1. \A x \in Workers \ {w} : Busy(x)' => Busy(x) /\ task'[x].job = task[x].job /\ task[x].job # i
        BY <1>3, <1>6
      <3>2. Busy(w)' => task'[w].job = i
        BY <1>3, <1>7
      <3>3. QED
        BY <2>2, <3>1, <3>2 DEF PushInv, WorkersSound
    <2>3. QED
      BY <2>1, <2>2 DEF WorkersSound
  <1>9. \A k \in DOMAIN jobs : Unfinished(k)' => Unfinished(k)
    BY <1>2 DEF Unfinished
  <1>10. ASSUME NEW p \in Paths \ excused' PROVE OnCourse(p)'
    <2>1. OnCourse(p) /\ SameFile(p)
      BY <1>4, <1>10 DEF PushInv
    <2>2. OneJob(p)'
      BY <1>2, <1>4, <1>9, <2>1 DEF OnCourse, OneJob, Pushed, SameJobs
    <2>3. JobAt(p)'
      <3> SUFFICES ASSUME NEW k \in DOMAIN jobs', Unfinished(k)', Covers(k, p)'
                   PROVE Fresh(p, jobs[k].tree[p])' \/ \E u \in Workers : (At(u, "prune") /\ task[u].path = p)'
        BY DEF JobAt
      <3>1. k \in DOMAIN jobs /\ Unfinished(k) /\ Covers(k, p)
        BY <1>2, <1>4, <1>9 DEF SameJobs
      <3>2. PICK c : c = jobs[k].tree[p]
        OBVIOUS
      <3>3. c = jobs'[k].tree[p]
        BY <1>2, <3>1, <3>2 DEF SameJobs
      <3>4. Fresh(p, c) \/ \E u \in Workers : At(u, "prune") /\ task[u].path = p
        BY <2>1, <3>1, <3>2 DEF OnCourse, JobAt
      <3>5. CASE Fresh(p, c)
        <4>1. Fresh(p, c)'
          BY <2>1, <3>5, SameFileFacts
        <4>2. QED
          BY <3>3, <4>1 DEF Fresh, Matches
      <3>6. ASSUME NEW u \in Workers, At(u, "prune"), task[u].path = p PROVE (At(u, "prune") /\ task[u].path = p)'
        BY <1>3, <3>6 DEF At
      <3>7. QED
        BY <3>4, <3>5, <3>6
    <2>4. WorkerAt(p)'
      <3> SUFFICES ASSUME NEW u \in Workers, Busy(u)', Covers(task[u].job, p)' PROVE FarEnough(u, p)'
        BY DEF WorkerAt
      <3>1. CASE u = w
        <4>1. ~Handled(w, p)'
          BY <1>3, <1>7, <3>1 DEF Handled, Covers, Job
        <4>2. QED
          BY <1>7, <3>1, <4>1 DEF FarEnough
      <3>2. CASE u # w
        <4>1. task'[u] = task[u] /\ jobs'[task[u].job] = jobs[task[u].job] /\ Busy(u) /\ Covers(task[u].job, p)
          BY <1>2, <1>3, <1>4, <1>6, <3>2 DEF Covers
        <4>2. FarEnough(u, p)
          BY <2>1, <4>1 DEF OnCourse, WorkerAt
        <4>3. Job(u)' = Job(u) /\ (OnFile(u)' <=> OnFile(u)) /\ (Handled(u, p)' <=> Handled(u, p))
          BY <4>1 DEF Job, OnFile, Handled
        <4>4. /\ \A c : Matches(p, c)' <=> Matches(p, c)
              /\ \A h : (Has(p, h)' <=> Has(p, h)) /\ (<<p, h>> \in some' <=> <<p, h>> \in some)
                                                  /\ (<<p, h>> \in whole' <=> <<p, h>> \in whole)
          BY <2>1 DEF Matches, Has, SameFile
        <4>5. Matches(p, Job(u).tree[p])' <=> Matches(p, Job(u).tree[p])
          BY <4>3, <4>4 DEF Matches
        <4>6. PICK h : h = Hashed(Job(u).tree[p])
          OBVIOUS
        <4>7. Hashed(Job(u).tree[p])' = h
          BY <4>3, <4>6 DEF Hashed
        <4>8. QED
          BY <4>1, <4>2, <4>3, <4>4, <4>5, <4>6, <4>7 DEF FarEnough, Has
      <3>3. QED
        BY <3>1, <3>2
    <2>5. ClientAt(p)'
      <3> SUFFICES ASSUME Pushed' PROVE ClientAt(p)'
        BY DEF ClientAt
      <3>1. PICK c : c = Target[p]
        OBVIOUS
      <3>2. Target' = Target /\ Pushed /\ c = Target'[p]
        BY <1>4, <3>1 DEF Target, Pushed
      <3>3. (Matches(p, c)' <=> Matches(p, c)) /\ (Fresh(p, c)' <=> Fresh(p, c))
        BY <2>1, SameFileFacts
      <3>4. (Matches(p, Target[p])' <=> Matches(p, c)') /\ (Fresh(p, Target[p])' <=> Fresh(p, c)')
        BY <3>2 DEF Fresh, Matches
      <3>5. push.st = "wait" => push.job \in DOMAIN jobs /\ reported = NoPush /\ jobs[push.job].tree = push.tree
        BY DEF PushInv, JobsSound
      <3>6. ASSUME push.st = "wait", Covers(push.job, p), jobs'[push.job].st = "succeeded",
                   jobs[push.job].st # "succeeded"
            PROVE  Matches(p, c)
        <4>1. push.job = i /\ st = "succeeded"
          BY <1>2, <3>5, <3>6
        <4>2. c = jobs[i].tree[p]
          BY <3>1, <3>5, <3>6, <4>1 DEF Target
        <4>3. QED
          BY <1>10, <3>6, <4>1, <4>2
      <3>7. IF p \in push.put \cup push.del THEN Fresh(p, c)
            ELSE IF push.st = "wait" /\ Covers(push.job, p)
              THEN jobs[push.job].st = "succeeded" => Matches(p, c)
              ELSE Matches(p, c)
        BY <2>1, <3>1, <3>2 DEF OnCourse, ClientAt
      <3>8. push' = push /\ (push.st = "wait" => (Covers(push.job, p)' <=> Covers(push.job, p)))
        BY <1>4, <3>5
      <3>9. QED
        BY <3>3, <3>4, <3>6, <3>7, <3>8 DEF ClientAt, Covers
    <2>6. QED
      BY <2>2, <2>3, <2>4, <2>5 DEF OnCourse
  <1>11. QED
    BY <1>4, <1>5, <1>8, <1>10 DEF PushInv

LEMMA ClaimInv ==
  ASSUME PushInv, NEW w \in Workers, Claim(w)
  PROVE  PushInv'
  <1>1. PICK i \in 1 .. Len(jobs) :
          /\ jobs[i].st = "queued" /\ jobs' = [jobs EXCEPT ![i].st = "running"]
          /\ task' = [task EXCEPT ![w] = [Idle EXCEPT !.st = "delete", !.job = i,
                                                      !.del = jobs[i].del, !.todo = jobs[i].put]]
    BY DEF Claim
  <1>2. At(w, "idle") /\ UNCHANGED <<client, index, excused>>
    BY DEF Claim
  <1>3. jobs \in Seq(JobRecords) /\ i \in DOMAIN jobs /\ jobs[i] \in JobRecords
    BY PushTasks
  <1>4. PICK t : t = [Idle EXCEPT !.st = "delete", !.job = i, !.del = jobs[i].del, !.todo = jobs[i].put]
    OBVIOUS
  <1>5. /\ t.st = "delete" /\ t.job = i /\ t.del = jobs[i].del /\ t.todo = jobs[i].put
        /\ t.live = FALSE /\ t.path = NoPath /\ t.created = FALSE
        /\ t = [st |-> t.st, job |-> t.job, del |-> t.del, todo |-> t.todo, path |-> t.path,
                created |-> t.created, live |-> t.live]
    BY <1>4 DEF Idle
  <1>6. jobs[i].del \in SUBSET Paths /\ jobs[i].put \in SUBSET Paths /\ i \in 0 .. Len(jobs)
    BY <1>3 DEF JobRecords
  <1>7. t \in TaskRecords
    BY <1>5, <1>6 DEF TaskRecords
  <1>8. Unfinished(i) /\ ~At(w, "prune")
    BY <1>1, <1>2 DEF Unfinished, At
  <1>9. \A u \in Workers \ {w} : Busy(u) => task[u].job # i
    BY <1>1 DEF PushInv, WorkersSound, WorkerSound, Job
  <1>10. task' = [task EXCEPT ![w] = t]
    BY <1>1, <1>4
  <1>11. QED
    BY <1>1, <1>2, <1>3, <1>5, <1>7, <1>8, <1>9, <1>10, StatusStep

LEMMA IdleTask ==
  ASSUME jobs \in Seq(JobRecords)
  PROVE  Idle \in TaskRecords /\ Idle.st = "idle" /\ Idle.live = FALSE
  BY DEF Idle, TaskRecords

(* A job ends, with files that failed or not.                                *)
LEMMA OutcomeInv ==
  ASSUME PushInv, NEW w \in Workers, NEW st \in {"succeeded", "failed"}, Outcome(w, st),
         task[w].st \in {"delete", "files"}, UNCHANGED excused,
         st = "succeeded" => At(w, "files") /\ task[w].todo = {}
  PROVE  PushInv'
  <1>1. PICK i : i = task[w].job
    OBVIOUS
  <1>2. Busy(w) /\ WorkerSound(w) /\ i \in DOMAIN jobs /\ jobs[i].st = "running" /\ Job(w) = jobs[i]
    BY <1>1 DEF PushInv, WorkersSound, Busy, WorkerSound, Job
  <1>3. /\ jobs' = [jobs EXCEPT ![i].st = st] /\ task' = [task EXCEPT ![w] = Idle]
        /\ UNCHANGED <<client, index, excused>>
    BY <1>1 DEF Outcome
  <1>4. Unfinished(i) /\ ~At(w, "prune")
    BY <1>2 DEF Unfinished, At
  <1>5. \A u \in Workers \ {w} : Busy(u) => task[u].job # i
    BY <1>1, <1>2 DEF PushInv, WorkersSound
  <1>6. ASSUME st = "succeeded", NEW p \in Paths \ excused, NEW c, Covers(i, p), c = jobs[i].tree[p]
        PROVE  Matches(p, c)
    <2>1. FarEnough(w, p)
      BY <1>1, <1>2, <1>6 DEF PushInv, OnCourse, WorkerAt
    <2>2. Handled(w, p)
      BY <1>2, <1>6 DEF Handled, WorkerSound, At
    <2>3. QED
      BY <1>2, <1>6, <2>1, <2>2 DEF FarEnough
  <1>7. PICK t \in TaskRecords : t = Idle
    BY IdleTask, PushTasks
  <1>8. t.st = "idle" /\ ~t.live /\ task' = [task EXCEPT ![w] = t]
    BY <1>3, <1>7, IdleTask, PushTasks
  <1>9. QED
    BY <1>2, <1>3, <1>4, <1>5, <1>6, <1>8, StatusStep

LEMMA UnpreparedInv ==
  ASSUME PushInv, NEW w \in Workers, Unprepared(w)
  PROVE  PushInv'
  <1>1. excused' = excused /\ Outcome(w, "failed") /\ At(w, "delete")
    BY DEF Unprepared, Fails
  <1>2. QED
    BY <1>1, OutcomeInv DEF At

LEMMA CompleteInv ==
  ASSUME PushInv, NEW w \in Workers, Complete(w)
  PROVE  PushInv'
  <1>1. excused' = excused /\ At(w, "files") /\ task[w].todo = {}
    BY DEF Complete, Works, Fails
  <1>2. Outcome(w, "succeeded") \/ Outcome(w, "failed")
    BY DEF Complete
  <1>3. QED
    BY <1>1, <1>2, OutcomeInv DEF At

(* The steps of the client.                                                  *)
PushRecords == [st : {"idle", "diff", "send", "wait"}, embed : BOOLEAN, tree : Trees,
                put : SUBSET Paths, del : SUBSET Paths, job : 0 .. Len(jobs)]

LEMMA ClientStep ==
  ASSUME PushInv, UNCHANGED <<jobs, task, index>>, tree' \in Trees, reported' \in Trees \cup {NoPush},
         push' \in PushRecords, excused' \subseteq Paths, JobsSound',
         \A p \in Paths \ excused' :
           /\ p \in excused => \A i \in DOMAIN jobs : Unfinished(i) => ~Covers(i, p)
           /\ OneJob(p)' /\ ClientAt(p)'
  PROVE  PushInv'
  <1>1. UNCHANGED <<jobs, task, rows, some, whole>> /\ PushParts
    BY PushTypesSplit DEF index, PushInv
  <1>2. StoreTypes' /\ (task \in [Workers -> TaskRecords])' /\ (push \in PushRecords)'
    <2>1. StoreTypes'
      BY <1>1 DEF PushParts, StoreTypes, RowsDiffer, Rows
    <2>2. (task \in [Workers -> TaskRecords])'
      BY <1>1 DEF PushParts, TaskRecords
    <2>3. (push \in PushRecords)'
      BY <1>1 DEF PushRecords
    <2>4. QED
      BY <2>1, <2>2, <2>3
  <1>3. PushTypes'
    BY <1>1, <1>2, PushTypesNext DEF PushParts, PushRecords
  <1>4. WorkersSound' /\ RowsHeld'
    <2>1. \A u \in Workers : (WorkerSound(u)' <=> WorkerSound(u)) /\ (Busy(u)' <=> Busy(u))
      BY <1>1 DEF WorkerSound, Busy, OnFile, At, Job, Content
    <2>2. WorkersSound'
      BY <1>1, <2>1 DEF PushInv, WorkersSound
    <2>3. \A u \in Workers : Alive(u)' <=> Alive(u)
      BY <1>1 DEF Alive, OnFile, Has, Version, Stored, Content, Job
    <2>4. QED
      BY <2>2, <2>3 DEF PushInv, RowsHeld
  <1>5. ASSUME NEW p \in Paths \ excused' PROVE OnCourse(p)'
    <2>1. JobAt(p) /\ WorkerAt(p)
      <3>1. CASE p \notin excused
        BY <3>1 DEF PushInv, OnCourse
      <3>2. CASE p \in excused
        <4>1. \A i \in DOMAIN jobs : Unfinished(i) => ~Covers(i, p)
          BY <3>2
        <4>2. \A u \in Workers : Busy(u) => task[u].job \in DOMAIN jobs /\ Unfinished(task[u].job)
          BY DEF PushInv, WorkersSound, WorkerSound, Unfinished, Job
        <4>3. QED
          BY <4>1, <4>2 DEF JobAt, WorkerAt
      <3>3. QED
        BY <3>1, <3>2
    <2>2. JobAt(p)'
      BY <1>1, <2>1 DEF JobAt, Unfinished, Covers, Fresh, Matches, At
    <2>3. WorkerAt(p)'
      <3> SUFFICES ASSUME NEW u \in Workers, Busy(u)', Covers(task[u].job, p)' PROVE FarEnough(u, p)'
        BY DEF WorkerAt
      <3>1. Busy(u) /\ Covers(task[u].job, p)
        BY <1>1 DEF Busy, Covers
      <3>2. FarEnough(u, p)
        BY <2>1, <3>1 DEF WorkerAt
      <3>3. Job(u)' = Job(u) /\ (OnFile(u)' <=> OnFile(u)) /\ (Handled(u, p)' <=> Handled(u, p))
        BY <1>1 DEF Job, OnFile, Handled
      <3>4. Matches(p, Job(u).tree[p])' <=> Matches(p, Job(u).tree[p])
        BY <1>1 DEF Matches, Job
      <3>5. PICK h : h = Hashed(Job(u).tree[p])
        OBVIOUS
      <3>6. Hashed(Job(u).tree[p])' = h /\ (Has(p, h)' <=> Has(p, h))
        BY <1>1, <3>3, <3>5 DEF Hashed, Has
      <3>7. QED
        BY <1>1, <3>2, <3>3, <3>4, <3>5, <3>6 DEF FarEnough, Has
    <2>4. QED
      BY <2>2, <2>3 DEF OnCourse
  <1>6. QED
    BY <1>3, <1>4, <1>5 DEF PushInv

LEMMA NotPushingFacts ==
  ASSUME jobs \in Seq(JobRecords)
  PROVE  /\ NotPushing \in PushRecords /\ NotPushing.st = "idle" /\ NotPushing.put = {} /\ NotPushing.del = {}
         /\ NotPushing.tree \in Trees
  BY DEF NotPushing, PushRecords, Trees, Contents

LEMMA ClientTypes ==
  ASSUME PushInv
  PROVE  /\ tree \in Trees /\ reported \in Trees \cup {NoPush} /\ push \in PushRecords /\ excused \subseteq Paths
         /\ jobs \in Seq(JobRecords) /\ NoPush \notin Trees
         /\ push.st # "idle" => reported = NoPush
  BY PushTypesSplit, PushSpecialsAssumption DEF PushParts, PushInv, PushRecords, JobsSound

\* An unfinished push is not reported, nor is it counted on before its diff.
LEMMA NoPromise ==
  ASSUME PushInv, UNCHANGED <<jobs, task, index, excused>>, tree' \in Trees, reported' = NoPush,
         push'.st \in {"idle", "diff"}, push' \in PushRecords,
         push'.st = "diff" => push'.embed \in EmbedModes, push'.put = {}, push'.del = {}
  PROVE  PushInv'
  <1>1. ~Pushed'
    BY DEF Pushed
  <1>2. JobsSound'
    BY DEF PushInv, JobsSound
  <1>3. ASSUME NEW p \in Paths \ excused' PROVE OneJob(p)' /\ ClientAt(p)'
    <2>1. OneJob(p)
      BY <1>3 DEF PushInv, OnCourse
    <2>2. QED
      BY <1>1, <2>1 DEF OneJob, ClientAt, Unfinished, Covers
  <1>4. excused' \subseteq Paths
    BY ClientTypes
  <1>5. QED
    BY <1>2, <1>3, <1>4, ClientStep

LEMMA EditInv ==
  ASSUME PushInv, NEW p \in Paths, NEW c \in Contents, Edit(p, c)
  PROVE  PushInv'
  <1>1. UNCHANGED <<push, reported, jobs, task, index, excused>> /\ tree' = [tree EXCEPT ![p] = c]
    BY DEF Edit
  <1>2. tree' \in Trees
    BY <1>1, ClientTypes DEF Trees
  <1>3. JobsSound' /\ push' \in PushRecords /\ reported' \in Trees \cup {NoPush} /\ excused' \subseteq Paths
    BY <1>1, ClientTypes DEF PushInv, JobsSound
  <1>4. ASSUME NEW q \in Paths \ excused' PROVE OneJob(q)' /\ ClientAt(q)'
    BY <1>1, <1>4 DEF PushInv, OnCourse, OneJob, ClientAt, Pushed, Target, Unfinished, Covers, Fresh, Matches, index
  <1>5. QED
    BY <1>1, <1>2, <1>3, <1>4, ClientStep

LEMMA HashInv ==
  ASSUME PushInv, NEW e \in EmbedModes, Hash(e)
  PROVE  PushInv'
  <1>1. /\ UNCHANGED <<tree, jobs, task, index, excused>> /\ reported' = NoPush
        /\ push' = [NotPushing EXCEPT !.st = "diff", !.embed = e, !.tree = tree]
    BY DEF Hash
  <1>2. tree \in Trees /\ jobs \in Seq(JobRecords) /\ e \in BOOLEAN
    BY ClientTypes, ModesAssumption
  <1>3. NotPushing \in PushRecords
    BY <1>2, NotPushingFacts
  <1>4. push' \in PushRecords /\ push'.st = "diff" /\ push'.embed = e /\ push'.put = {} /\ push'.del = {}
    BY <1>1, <1>2, <1>3, NotPushingFacts DEF PushRecords
  <1>5. QED
    BY <1>1, <1>2, <1>4, NoPromise

LEMMA GiveUpInv ==
  ASSUME PushInv, GiveUp
  PROVE  PushInv'
  <1>1. UNCHANGED <<tree, reported, jobs, task, index, excused>> /\ push' = NotPushing /\ reported = NoPush
    BY ClientTypes DEF GiveUp
  <1>2. QED
    BY <1>1, ClientTypes, NotPushingFacts, NoPromise

LEMMA AnswerInv ==
  ASSUME PushInv, Answer
  PROVE  PushInv'
  <1>1. UNCHANGED <<tree, jobs, task, index, excused>> /\ push.st = "wait" /\ reported = NoPush
    BY ClientTypes DEF Answer
  <1>2. push.job \in DOMAIN jobs /\ push.del = {} /\ push \in PushRecords /\ push.tree \in Trees /\ NoPush \notin Trees
        /\ jobs \in Seq(JobRecords) /\ push.embed \in EmbedModes
    BY <1>1, ClientTypes DEF PushInv, JobsSound, PushRecords
  <1>3. CASE jobs[push.job].st = "failed" /\ push' = NotPushing /\ UNCHANGED reported
    BY <1>1, <1>2, <1>3, ClientTypes, NotPushingFacts, NoPromise
  <1>4. ASSUME jobs[push.job].st = "succeeded",
               \/ push'.st = "send" /\ push'.tree = push.tree /\ push'.embed = push.embed
                  /\ push'.put = push.put /\ reported' = NoPush
               \/ push'.st = "idle" /\ reported' = push.tree /\ push'.put = {} /\ push.put = {},
               push'.del = {}, push' \in PushRecords
        PROVE  PushInv'
    <2>1. Target = push.tree /\ Target' = push.tree /\ Pushed
      BY <1>1, <1>2, <1>4 DEF Target, Pushed
    <2>2. JobsSound'
      BY <1>1, <1>2, <1>4 DEF PushInv, JobsSound
    <2>3. ASSUME NEW p \in Paths \ excused' PROVE OneJob(p)' /\ ClientAt(p)'
      <3>1. OneJob(p) /\ ClientAt(p)
        BY <1>1, <2>3 DEF PushInv, OnCourse
      <3>2. \A i \in DOMAIN jobs : Unfinished(i) => ~Covers(i, p)
        BY <1>4, <2>1, <3>1 DEF OneJob, Unfinished
      <3>3. OneJob(p)'
        BY <1>1, <3>2 DEF OneJob, Unfinished, Covers
      <3>4. PICK c : c = push.tree[p]
        OBVIOUS
      <3>5. p \notin push.put => Matches(p, c)
        BY <1>1, <1>2, <1>4, <2>1, <3>1, <3>4 DEF ClientAt
      <3>6. p \in push.put => Fresh(p, c)
        BY <1>1, <1>2, <1>4, <2>1, <3>1, <3>4 DEF ClientAt
      <3>7. (Matches(p, c)' <=> Matches(p, c)) /\ (Fresh(p, c)' <=> Fresh(p, c))
        BY <1>1 DEF Fresh, Matches, index
      <3>8. (Matches(p, Target[p])' <=> Matches(p, c)') /\ (Fresh(p, Target[p])' <=> Fresh(p, c)')
        BY <2>1, <3>4 DEF Fresh, Matches
      <3>9. p \in (push.put \cup push.del)' => p \in push.put
        BY <1>4
      <3>a. p \notin (push.put \cup push.del)' => p \notin push.put /\ push'.st # "wait"
        BY <1>4
      <3>b. push'.st # "wait"
        BY <1>4
      <3>c. ClientAt(p)'
        BY <3>5, <3>6, <3>7, <3>8, <3>9, <3>a, <3>b DEF ClientAt
      <3>10. QED
        BY <3>3, <3>c
    <2>4. QED
      BY <1>1, <1>2, <1>4, <2>2, <2>3, ClientTypes, ClientStep
  <1>5. CASE /\ jobs[push.job].st = "succeeded" /\ push.put # {}
             /\ push' = [push EXCEPT !.st = "send", !.job = 0] /\ UNCHANGED reported
    <2>1. /\ push'.st = "send" /\ push'.put = push.put /\ push'.del = {} /\ push'.tree = push.tree
          /\ push'.embed = push.embed
      BY <1>2, <1>5 DEF PushRecords
    <2>2. 0 \in 0 .. Len(jobs)
      BY <1>2
    <2>3. push' \in PushRecords
      BY <1>2, <1>5, <2>2 DEF PushRecords
    <2>4. QED
      BY <1>1, <1>4, <1>5, <2>1, <2>3
  <1>6. CASE jobs[push.job].st = "succeeded" /\ push.put = {} /\ push' = NotPushing /\ reported' = push.tree
    <2>1. push' \in PushRecords /\ push'.st = "idle" /\ push'.put = {} /\ push'.del = {}
      BY <1>2, <1>6, NotPushingFacts
    <2>2. QED
      BY <1>4, <1>6, <2>1
  <1>7. QED
    BY <1>3, <1>5, <1>6 DEF Answer

\* The diff finds what has to be sent, but where a version waits for its chunks or its prune.
LEMMA DiffFacts ==
  ASSUME PushInv, push.st = "diff", NEW p \in Paths, NEW c, c = push.tree[p],
         ~(c # Absent /\ Has(p, Hashed(c)) /\ ~Matches(p, c))
  PROVE  /\ Fresh(p, c)
         /\ c # Absent /\ ~Stale(p) => Matches(p, c)
         /\ c = Absent /\ rows[p] = <<>> => Matches(p, c)
  <1>1. c \in Contents /\ StoreTypes /\ PushTypes
    BY ClientTypes, PushTypesSplit DEF PushRecords, Trees, PushParts, PushInv
  <1>2. Absent \notin Texts /\ Hashed(c) # NoPush
    <2>1. Hashed(c) \in [text : Contents, raw : BOOLEAN]
      BY <1>1 DEF Hashed
    <2>2. QED
      BY <2>1, PushSpecialsAssumption
  <1>3. Fresh(p, c)
    <2> SUFFICES ASSUME c \in Texts, <<p, Hashed(c)>> \in some PROVE Matches(p, c)
      BY DEF Fresh
    <2>1. Hashed(c) \in Hashes /\ c # Absent
      BY <1>2, HashTypes
    <2>2. Has(p, Hashed(c))
      BY <1>1, <2>1, StoreFacts
    <2>3. QED
      BY <2>1, <2>2
  <1>4. ASSUME c # Absent, ~Stale(p) PROVE Matches(p, c)
    <2>1. Newest(p) = Hashed(c)
      BY <1>4 DEF Stale
    <2>2. rows[p] # <<>> /\ rows[p][Len(rows[p])] = Hashed(c)
      BY <1>2, <2>1 DEF Newest
    <2>3. rows[p] \in Seq(Hashes)
      BY <1>1 DEF StoreTypes
    <2>4. Len(rows[p]) \in 1 .. Len(rows[p])
      BY <2>2, <2>3
    <2>5. Has(p, Hashed(c))
      BY <2>2, <2>4 DEF Has
    <2>6. QED
      BY <1>4, <2>5
  <1>5. c = Absent /\ rows[p] = <<>> => Matches(p, c)
    BY <1>2 DEF Matches
  <1>6. QED
    BY <1>3, <1>4, <1>5

LEMMA DiffInv ==
  ASSUME PushInv, Diff
  PROVE  PushInv'
  <1>1. PICK present, put, del :
          /\ present = {p \in Paths : push.tree[p] # Absent}
          /\ put = IF push.embed THEN present ELSE {p \in Paths : Stale(p)}
          /\ del = {p \in Paths \ present : rows[p] # <<>>}
    OBVIOUS
  <1>2. /\ push.st = "diff" /\ UNCHANGED <<tree, jobs, task, index>>
        /\ IF put \cup del = {}
             THEN push' = NotPushing /\ reported' = push.tree
             ELSE push' = [push EXCEPT !.st = "send", !.put = put, !.del = del] /\ UNCHANGED reported
    BY <1>1 DEF Diff
  <1>a. excused' = (UNION {jobs[i].put \cup jobs[i].del : i \in {i \in 1 .. Len(jobs) : Unfinished(i)}})
                     \cup {p \in present : Has(p, Hashed(push.tree[p])) /\ ~Matches(p, push.tree[p])}
    BY <1>1 DEF Diff
  <1>b. PICK busy : busy = {i \in 1 .. Len(jobs) : Unfinished(i)}
    OBVIOUS
  <1>c. PICK mixed : mixed = {p \in present : Has(p, Hashed(push.tree[p])) /\ ~Matches(p, push.tree[p])}
    OBVIOUS
  <1>d. \A p : p \in excused' <=> p \in mixed \/ \E i \in busy : Covers(i, p)
    <2> DEFINE U == (UNION {jobs[i].put \cup jobs[i].del : i \in {i \in 1 .. Len(jobs) : Unfinished(i)}})
               M == {p \in present : Has(p, Hashed(push.tree[p])) /\ ~Matches(p, push.tree[p])}
    <2>1. \A p : p \in U <=> \E S \in {jobs[i].put \cup jobs[i].del : i \in {i \in 1 .. Len(jobs) : Unfinished(i)}} : p \in S
      OBVIOUS
    <2>2. \A p : p \in U <=> \E i \in {i \in 1 .. Len(jobs) : Unfinished(i)} : Covers(i, p)
      BY <2>1 DEF Covers
    <2>3. excused' = U \cup M /\ mixed = M
      BY <1>a, <1>c
    <2> HIDE DEF U, M
    <2>4. \A p : p \in excused' <=> p \in U \/ p \in M
      BY <2>3
    <2>5. QED
      BY <1>b, <2>2, <2>3, <2>4
  <1>3. /\ tree \in Trees /\ push \in PushRecords /\ push.tree \in Trees /\ jobs \in Seq(JobRecords)
        /\ NoPush \notin Trees /\ reported = NoPush /\ push.embed \in EmbedModes /\ push.embed \in BOOLEAN
    BY <1>2, ClientTypes DEF PushRecords, PushInv, JobsSound
  <1>4. /\ present \subseteq Paths /\ put \subseteq Paths /\ del \subseteq Paths
        /\ \A p \in put : push.tree[p] # Absent
        /\ \A p \in del : push.tree[p] = Absent
    <2>1. \A p : p \in present <=> p \in Paths /\ push.tree[p] # Absent
      BY <1>1
    <2>2. \A p \in put : p \in present
      BY <1>1, <2>1 DEF Stale
    <2>3. \A p \in del : p \in Paths /\ p \notin present
      BY <1>1
    <2>4. QED
      BY <2>1, <2>2, <2>3
  <1>5. excused' \subseteq Paths
    <2>1. ASSUME NEW i \in busy, NEW p, Covers(i, p) PROVE p \in Paths
      <3>1. jobs[i] \in JobRecords
        BY <1>3, <1>b
      <3>2. QED
        BY <2>1, <3>1 DEF Covers, JobRecords
    <2>2. busy \subseteq 1 .. Len(jobs) /\ mixed \subseteq Paths
      BY <1>4, <1>b, <1>c
    <2>3. QED
      BY <1>d, <2>1, <2>2
  <1>6. \A p \in Paths \ excused', i \in DOMAIN jobs : Unfinished(i) => ~Covers(i, p)
    <2> SUFFICES ASSUME NEW p \in Paths \ excused', NEW i \in DOMAIN jobs, Unfinished(i), Covers(i, p) PROVE FALSE
      OBVIOUS
    <2>1. i \in busy
      BY <1>3, <1>b
    <2>2. QED
      BY <1>d, <2>1
  <1>7. ASSUME NEW p \in Paths \ excused', NEW c, c = push.tree[p]
        PROVE  Fresh(p, c) /\ (p \notin put \cup del => Matches(p, c))
    <2>1. ~(c # Absent /\ Has(p, Hashed(c)) /\ ~Matches(p, c))
      <3>1. c # Absent => p \in present
        BY <1>1, <1>7
      <3>2. p \notin mixed
        BY <1>d, <1>7
      <3>3. QED
        BY <1>7, <1>c, <3>1, <3>2
    <2>2. /\ Fresh(p, c)
          /\ c # Absent /\ ~Stale(p) => Matches(p, c)
          /\ c = Absent /\ rows[p] = <<>> => Matches(p, c)
      BY <1>2, <1>7, <2>1, DiffFacts
    <2>3. p \notin put \cup del => (c # Absent /\ ~Stale(p)) \/ (c = Absent /\ rows[p] = <<>>)
      BY <1>1, <1>7
    <2>4. QED
      BY <2>2, <2>3
  <1>8. /\ push' \in PushRecords /\ reported' \in Trees \cup {NoPush}
        /\ push'.st \in {"idle", "send"} /\ push'.put = put /\ push'.del = del
        /\ push'.st = "send" => push'.embed = push.embed /\ push'.tree = push.tree /\ reported' = NoPush
        /\ push'.st = "idle" => reported' = push.tree
    <2>1. CASE put \cup del = {}
      BY <1>2, <1>3, <2>1, NotPushingFacts
    <2>2. CASE put \cup del # {}
      BY <1>2, <1>3, <1>4, <2>2 DEF PushRecords
    <2>3. QED
      BY <2>1, <2>2
  <1>9. JobsSound'
    <2>1. push'.st = "idle" => put = {} /\ del = {}
      BY <1>2, <1>3, <1>8 DEF PushRecords
    <2>2. QED
      BY <1>2, <1>3, <1>4, <1>8, <2>1 DEF PushInv, JobsSound
  <1>10. Target' = push.tree
    BY <1>3, <1>8 DEF Target
  <1>11. ASSUME NEW p \in Paths \ excused' PROVE OneJob(p)' /\ ClientAt(p)'
    <2>1. OneJob(p)'
      BY <1>2, <1>6 DEF OneJob, Unfinished, Covers
    <2>2. PICK c : c = push.tree[p]
      OBVIOUS
    <2>3. (Matches(p, c)' <=> Matches(p, c)) /\ (Fresh(p, c)' <=> Fresh(p, c))
      BY <1>2 DEF Fresh, Matches, index
    <2>4. (Matches(p, Target[p])' <=> Matches(p, c)') /\ (Fresh(p, Target[p])' <=> Fresh(p, c)')
      BY <1>10, <2>2 DEF Fresh, Matches
    <2>5. Fresh(p, c) /\ (p \notin put \cup del => Matches(p, c))
      BY <1>7, <2>2
    <2>6. push'.st # "wait" /\ (p \in (push.put \cup push.del)' <=> p \in put \cup del)
      BY <1>8
    <2>7. ClientAt(p)'
      BY <2>3, <2>4, <2>5, <2>6 DEF ClientAt
    <2>8. QED
      BY <2>1, <2>7
  <1>12. QED
    BY <1>2, <1>3, <1>5, <1>6, <1>8, <1>9, <1>11, ClientStep

(* A new job: its files are of the pushed tree, and no other job's.          *)
LEMMA SendInv ==
  ASSUME PushInv, Send
  PROVE  PushInv'
  <1>1. PICK B, n, j :
          /\ B \in SUBSET push.put /\ n = Len(jobs) + 1
          /\ j = [st |-> "queued", embed |-> push.embed, tree |-> push.tree, put |-> B, del |-> push.del]
          /\ jobs' = Append(jobs, j)
          /\ push' = [push EXCEPT !.st = "wait", !.job = n, !.put = @ \ B, !.del = {}]
    BY DEF Send, Batches
  <1>2. push.st = "send" /\ UNCHANGED <<tree, reported, task, index, excused>>
    BY DEF Send
  <1>3. /\ tree \in Trees /\ push \in PushRecords /\ push.tree \in Trees /\ jobs \in Seq(JobRecords)
        /\ NoPush \notin Trees /\ reported = NoPush /\ push.embed \in EmbedModes /\ push.embed \in BOOLEAN
        /\ push.put \subseteq Paths /\ push.del \subseteq Paths /\ excused \subseteq Paths
    BY <1>2, ClientTypes DEF PushRecords, PushInv, JobsSound
  <1>4. /\ j \in JobRecords /\ j.st = "queued" /\ j.embed = push.embed /\ j.tree = push.tree /\ j.put = B
        /\ j.del = push.del
    BY <1>1, <1>3 DEF JobRecords
  <1>5. /\ jobs' \in Seq(JobRecords) /\ Len(jobs') = n /\ DOMAIN jobs' = DOMAIN jobs \cup {n}
        /\ n \notin DOMAIN jobs /\ jobs'[n] = j /\ \A i \in DOMAIN jobs : jobs'[i] = jobs[i]
    BY <1>1, <1>3, <1>4
  <1>6. /\ push'.st = "wait" /\ push'.job = n /\ push'.put = push.put \ B /\ push'.del = {}
        /\ push'.tree = push.tree /\ push'.embed = push.embed
    BY <1>1, <1>3 DEF PushRecords
  <1>7. (push \in PushRecords)'
    <2>1. n \in 0 .. Len(jobs')
      BY <1>1, <1>3, <1>5
    <2>2. push' = [st |-> "wait", embed |-> push.embed, tree |-> push.tree, put |-> push.put \ B,
                   del |-> {}, job |-> n]
      BY <1>1, <1>3 DEF PushRecords
    <2>3. QED
      BY <1>3, <2>1, <2>2 DEF PushRecords
  <1>8. UNCHANGED <<rows, some, whole>>
    BY <1>2 DEF index
  <1>9. \A u \in Workers : task[u].job \in 0 .. Len(jobs) /\ task[u] \in TaskRecords
    BY PushTasks DEF TaskRecords
  <1>10. (task \in [Workers -> TaskRecords])'
    <2>1. 0 .. Len(jobs) \subseteq 0 .. Len(jobs')
      BY <1>1, <1>3, <1>5
    <2>2. TaskRecords \subseteq TaskRecords'
      BY <2>1 DEF TaskRecords
    <2>3. QED
      BY <1>2, <2>2, PushTasks
  <1>11. PushTypes'
    <2>1. PushParts
      BY PushTypesSplit DEF PushInv
    <2>2. StoreTypes'
      BY <1>8, <2>1 DEF PushParts, StoreTypes, RowsDiffer, Rows
    <2>3. QED
      BY <1>2, <1>3, <1>5, <1>7, <1>10, <2>2, PushTypesNext DEF PushParts, PushRecords
  <1>12. JobsSound'
    <2>1. \A i \in DOMAIN jobs', p \in Paths :
            /\ jobs'[i].embed \in EmbedModes
            /\ p \in jobs'[i].put => jobs'[i].tree[p] # Absent
            /\ p \in jobs'[i].del => jobs'[i].tree[p] = Absent
      <3> SUFFICES ASSUME NEW i \in DOMAIN jobs', NEW p \in Paths
                   PROVE /\ jobs'[i].embed \in EmbedModes
                         /\ p \in jobs'[i].put => jobs'[i].tree[p] # Absent
                         /\ p \in jobs'[i].del => jobs'[i].tree[p] = Absent
        OBVIOUS
      <3>1. CASE i = n
        BY <1>1, <1>3, <1>4, <1>5, <3>1 DEF PushInv, JobsSound
      <3>2. CASE i # n
        BY <1>5, <3>2 DEF PushInv, JobsSound
      <3>3. QED
        BY <3>1, <3>2
    <2>2. QED
      BY <1>2, <1>3, <1>4, <1>5, <1>6, <2>1 DEF PushInv, JobsSound
  <1>13. \A u \in Workers : Busy(u) => task[u].job \in DOMAIN jobs /\ Job(u)' = Job(u)
    BY <1>2, <1>5 DEF PushInv, WorkersSound, WorkerSound, Job
  <1>14. WorkersSound'
    <2>1. ASSUME NEW u \in Workers, Busy(u) PROVE WorkerSound(u)'
      <3>1. WorkerSound(u) /\ Job(u)' = Job(u) /\ task[u].job \in DOMAIN jobs'
        BY <1>5, <1>13, <2>1 DEF PushInv, WorkersSound
      <3>2. QED
        BY <1>2, <3>1 DEF WorkerSound, OnFile, At, Content
    <2>2. \A u \in Workers : Busy(u)' <=> Busy(u)
      BY <1>2 DEF Busy
    <2>3. QED
      BY <1>2, <2>1, <2>2 DEF PushInv, WorkersSound
  <1>15. RowsHeld'
    <2> SUFFICES ASSUME NEW u \in Workers, task'[u].live PROVE Alive(u)'
      BY DEF RowsHeld, Alive
    <2>1. OnFile(u) /\ Has(task[u].path, Version(u))
      BY <1>2 DEF PushInv, RowsHeld, Alive
    <2>2. Job(u)' = Job(u)
      BY <1>13, <2>1, OnFileFacts
    <2>3. QED
      BY <1>2, <1>8, <2>1, <2>2 DEF Alive, OnFile, Has, Version, Content, Stored
  <1>16. ASSUME NEW p \in Paths \ excused' PROVE OnCourse(p)'
    <2>1. OnCourse(p) /\ \A i \in DOMAIN jobs : Unfinished(i) => ~Covers(i, p)
      BY <1>2, <1>16 DEF PushInv, OnCourse, OneJob, Pushed
    <2>2. \A i \in DOMAIN jobs' : Unfinished(i)' /\ Covers(i, p)' => i = n
      <3> SUFFICES ASSUME NEW i \in DOMAIN jobs, Unfinished(i)', Covers(i, p)' PROVE FALSE
        BY <1>5
      <3>1. QED
        BY <1>5, <2>1 DEF Unfinished, Covers
    <2>3. OneJob(p)'
      BY <1>6, <2>2 DEF OneJob
    <2>4. PICK c : c = push.tree[p]
      OBVIOUS
    <2>5. (Matches(p, c)' <=> Matches(p, c)) /\ (Fresh(p, c)' <=> Fresh(p, c))
      BY <1>8 DEF Fresh, Matches
    <2>6. Target = push.tree /\ Target' = push.tree
      BY <1>2, <1>3, <1>6 DEF Target
    <2>7. (Matches(p, Target[p])' <=> Matches(p, c)') /\ (Fresh(p, Target[p])' <=> Fresh(p, c)')
      BY <2>4, <2>6 DEF Fresh, Matches
    <2>8. IF p \in push.put \cup push.del THEN Fresh(p, c) ELSE Matches(p, c)
      BY <1>2, <2>1, <2>4, <2>6 DEF OnCourse, ClientAt, Pushed
    <2>9. Covers(n, p)' <=> p \in B \cup push.del
      BY <1>4, <1>5 DEF Covers
    <2>10. JobAt(p)'
      <3> SUFFICES ASSUME NEW k \in DOMAIN jobs', Unfinished(k)', Covers(k, p)'
                   PROVE Fresh(p, jobs[k].tree[p])'
        BY DEF JobAt
      <3>1. k = n /\ jobs'[k].tree[p] = c /\ p \in push.put \cup push.del
        BY <1>1, <1>4, <1>5, <2>2, <2>4, <2>9
      <3>2. Fresh(p, c)'
        BY <2>5, <2>8, <3>1
      <3>3. QED
        BY <3>1, <3>2 DEF Fresh, Matches
    <2>11. WorkerAt(p)'
      <3> SUFFICES ASSUME NEW u \in Workers, Busy(u), Covers(task[u].job, p)' PROVE FALSE
        BY <1>2 DEF WorkerAt, Busy
      <3>1. task[u].job \in DOMAIN jobs /\ Unfinished(task[u].job)
        BY DEF PushInv, WorkersSound, WorkerSound, Unfinished, Job
      <3>2. Covers(task[u].job, p)
        BY <1>2, <1>5, <3>1 DEF Covers
      <3>3. QED
        BY <2>1, <3>1, <3>2
    <2>12. ClientAt(p)'
      <3>1. p \in (push.put \cup push.del)' => Fresh(p, c)
        BY <1>6, <2>8
      <3>2. p \notin (push.put \cup push.del)' /\ ~(push'.st = "wait" /\ Covers(push.job, p)') => Matches(p, c)
        BY <1>6, <2>8, <2>9
      <3>3. jobs'[push'.job].st # "succeeded"
        BY <1>4, <1>5, <1>6
      <3>4. QED
        BY <2>5, <2>7, <3>1, <3>2, <3>3 DEF ClientAt, Covers
    <2>13. QED
      BY <2>3, <2>10, <2>11, <2>12 DEF OnCourse
  <1>17. QED
    BY <1>11, <1>12, <1>14, <1>15, <1>16 DEF PushInv

(* The process ends: its jobs start over.                                    *)
LEMMA CrashInv ==
  ASSUME PushInv, Crash
  PROVE  PushInv'
  <1>1. /\ task' = [w \in Workers |-> Idle] /\ UNCHANGED <<client, index>>
        /\ jobs' = [i \in 1 .. Len(jobs) |-> IF jobs[i].st = "running" THEN [jobs[i] EXCEPT !.st = "queued"] ELSE jobs[i]]
        /\ excused' = excused \cup {task[w].path : w \in {w \in Workers : At(w, "prune")}}
    BY DEF Crash
  <1>2. jobs \in Seq(JobRecords) /\ task \in [Workers -> TaskRecords] /\ excused \subseteq Paths
    BY PushTasks
  <1>3. ASSUME NEW k \in DOMAIN jobs
        PROVE  /\ jobs'[k] \in JobRecords /\ jobs'[k].put = jobs[k].put /\ jobs'[k].del = jobs[k].del
               /\ jobs'[k].tree = jobs[k].tree /\ jobs'[k].embed = jobs[k].embed
               /\ jobs'[k].st = IF jobs[k].st = "running" THEN "queued" ELSE jobs[k].st
    <2>1. jobs[k] \in JobRecords
      BY <1>2
    <2>2. jobs'[k] = IF jobs[k].st = "running" THEN [jobs[k] EXCEPT !.st = "queued"] ELSE jobs[k]
      BY <1>1, <1>2
    <2>3. QED
      BY <2>1, <2>2 DEF JobRecords
  <1>4. DOMAIN jobs = 1 .. Len(jobs) /\ Len(jobs) \in Nat /\ DOMAIN jobs' = 1 .. Len(jobs)
    BY <1>1, <1>2
  <1>5. jobs' \in Seq(JobRecords) /\ Len(jobs') = Len(jobs)
    BY <1>1, <1>3, <1>4
  <1>6. SameJobs
    BY <1>3, <1>4, <1>5 DEF SameJobs
  <1>7. task' \in [Workers -> TaskRecords] /\ \A w \in Workers : ~Busy(w)' /\ task'[w].live = FALSE
    BY <1>1, <1>2, IdleTask DEF Busy
  <1>8. \A w \in Workers : At(w, "prune") => task[w].path \in excused'
    BY <1>1
  <1>9. excused \subseteq excused' /\ excused' \subseteq Paths
    <2>1. \A w \in Workers : At(w, "prune") => task[w].path \in Paths
      BY OnFileFacts DEF OnFile, At, FileSteps
    <2>2. QED
      BY <1>1, <1>2, <2>1
  <1>10. /\ PushTypes' /\ JobsSound' /\ UNCHANGED <<push, reported>>
         /\ \A p \in Paths : SameFile(p) /\ \A i \in DOMAIN jobs : Covers(i, p)' <=> Covers(i, p)
    BY <1>1, <1>5, <1>6, <1>7, <1>9, OnlyStatus
  <1>11. WorkersSound' /\ RowsHeld'
    BY <1>7 DEF WorkersSound, RowsHeld, Alive
  <1>12. \A k \in DOMAIN jobs : /\ Unfinished(k)' <=> Unfinished(k)
                                /\ jobs'[k].st = "succeeded" <=> jobs[k].st = "succeeded"
    BY <1>3 DEF Unfinished
  <1>13. ASSUME NEW p \in Paths \ excused' PROVE OnCourse(p)'
    <2>1. OnCourse(p) /\ SameFile(p)
      BY <1>9, <1>10, <1>13 DEF PushInv
    <2>2. OneJob(p)'
      BY <1>6, <1>10, <1>12, <2>1 DEF OnCourse, OneJob, Pushed, SameJobs
    <2>3. JobAt(p)'
      <3> SUFFICES ASSUME NEW k \in DOMAIN jobs', Unfinished(k)', Covers(k, p)'
                   PROVE Fresh(p, jobs[k].tree[p])'
        BY DEF JobAt
      <3>1. k \in DOMAIN jobs /\ Unfinished(k) /\ Covers(k, p)
        BY <1>6, <1>10, <1>12 DEF SameJobs
      <3>2. PICK c : c = jobs[k].tree[p]
        OBVIOUS
      <3>3. c = jobs'[k].tree[p]
        BY <1>3, <3>1, <3>2
      <3>4. Fresh(p, c)
        BY <1>8, <2>1, <3>1, <3>2 DEF OnCourse, JobAt
      <3>5. Fresh(p, c)'
        BY <2>1, <3>4, SameFileFacts
      <3>6. QED
        BY <3>3, <3>5 DEF Fresh, Matches
    <2>4. WorkerAt(p)'
      BY <1>7 DEF WorkerAt
    <2>5. ClientAt(p)'
      <3>1. PICK c : c = Target[p]
        OBVIOUS
      <3>2. Target' = Target /\ (Pushed' <=> Pushed) /\ c = Target'[p]
        BY <1>10, <3>1 DEF Target, Pushed
      <3>3. (Matches(p, c)' <=> Matches(p, c)) /\ (Fresh(p, c)' <=> Fresh(p, c))
        BY <2>1, SameFileFacts
      <3>4. (Matches(p, Target[p])' <=> Matches(p, c)') /\ (Fresh(p, Target[p])' <=> Fresh(p, c)')
        BY <3>2 DEF Fresh, Matches
      <3>5. push.st = "wait" => push.job \in DOMAIN jobs
        BY DEF PushInv, JobsSound
      <3>6. push' = push /\ (push.st = "wait" => (Covers(push.job, p)' <=> Covers(push.job, p)))
        BY <1>10, <3>5
      <3>7. push.st = "wait" => (jobs'[push.job].st = "succeeded" <=> jobs[push.job].st = "succeeded")
        BY <1>12, <3>5
      <3>8. Pushed => IF p \in push.put \cup push.del THEN Fresh(p, c)
                      ELSE IF push.st = "wait" /\ Covers(push.job, p)
                        THEN jobs[push.job].st = "succeeded" => Matches(p, c)
                        ELSE Matches(p, c)
        BY <2>1, <3>1 DEF OnCourse, ClientAt
      <3>9. QED
        BY <3>2, <3>3, <3>4, <3>6, <3>7, <3>8 DEF ClientAt, Covers
    <2>6. QED
      BY <2>2, <2>3, <2>4, <2>5 DEF OnCourse
  <1>14. QED
    BY <1>10, <1>11, <1>13 DEF PushInv

LEMMA PushSteps ==
  ASSUME HashesAgree, PushInv, [Next]_vars
  PROVE  PushInv'
  <1>1. CASE \E p \in Paths, c \in Contents : Edit(p, c)
    BY <1>1, EditInv
  <1>2. CASE \E e \in EmbedModes : Hash(e)
    BY <1>2, HashInv
  <1>3. CASE Diff
    BY <1>3, DiffInv
  <1>4. CASE Send
    BY <1>4, SendInv
  <1>5. CASE Answer
    BY <1>5, AnswerInv
  <1>6. CASE GiveUp
    BY <1>6, GiveUpInv
  <1>7. ASSUME NEW w \in Workers, WorkerStep(w) PROVE PushInv'
    <2>1. CASE Claim(w)
      BY <2>1, ClaimInv
    <2>2. CASE Unprepared(w)
      BY <2>2, UnpreparedInv
    <2>3. CASE Delete(w)
      BY <2>3, DeleteInv
    <2>4. CASE Inventory(w)
      BY <2>4, InventoryInv
    <2>5. CASE Begin(w)
      BY <2>5, BeginInv
    <2>6. CASE RemoveBlank(w)
      BY <2>6, RemoveBlankInv
    <2>7. CASE Check(w)
      BY <2>7, CheckInv
    <2>8. CASE Upsert(w)
      BY <2>8, UpsertInv
    <2>9. CASE Clear(w)
      BY <2>9, ClearInv
    <2>10. CASE Insert(w)
      BY <2>10, InsertInv
    <2>11. CASE RollBack(w)
      BY <2>11, RollBackInv
    <2>12. CASE Prune(w)
      BY <2>12, PruneInv
    <2>13. CASE Complete(w)
      BY <2>13, CompleteInv
    <2>14. QED
      BY <1>7, <2>1, <2>2, <2>3, <2>4, <2>5, <2>6, <2>7, <2>8, <2>9, <2>10, <2>11, <2>12, <2>13 DEF WorkerStep
  <1>8. CASE Crash
    BY <1>8, CrashInv
  <1>9. CASE UNCHANGED vars
    <2>1. UNCHANGED <<tree, push, reported, jobs, task, index, excused>>
      BY <1>9 DEF vars, client
    <2>2. JobsSound' /\ tree' \in Trees /\ push' \in PushRecords /\ reported' \in Trees \cup {NoPush}
          /\ excused' \subseteq Paths
      BY <2>1, ClientTypes DEF PushInv, JobsSound
    <2>3. \A q \in Paths \ excused' : OneJob(q)' /\ ClientAt(q)'
      BY <2>1 DEF PushInv, OnCourse, OneJob, ClientAt, Pushed, Target, Unfinished, Covers, Fresh, Matches, index
    <2>4. QED
      BY <2>1, <2>2, <2>3, ClientStep
  <1>10. QED
    BY <1>1, <1>2, <1>3, <1>4, <1>5, <1>6, <1>7, <1>8, <1>9 DEF Next

LEMMA PushInvariant == HashesAgree /\ Spec => []PushInv
  <1> SUFFICES ASSUME HashesAgree PROVE Spec => []PushInv
    OBVIOUS
  <1>1. PushInv /\ [Next]_vars => PushInv'
    BY PushSteps
  <1>2. QED
    BY PushStarts, <1>1, PTL DEF Spec

LEMMA PushInvInSync == PushInv => InSync
  <1> SUFFICES ASSUME PushInv, reported # NoPush, \A i \in 1 .. Len(jobs) : ~Unfinished(i), NEW p \in Paths \ excused
               PROVE  Matches(p, reported[p])
    BY DEF InSync
  <1>1. push.st = "idle" /\ push.put = {} /\ push.del = {}
    BY ClientTypes DEF PushInv, JobsSound
  <1>2. ClientAt(p) /\ Pushed /\ Target = reported
    BY DEF PushInv, OnCourse, Pushed, Target
  <1>3. QED
    BY <1>1, <1>2 DEF ClientAt

\* A `semidx push` that ends without an error leaves the server with the pushed tree once no
\* batch job is under way, for any number of files, workers, pushes, faults and crashes: of
\* each file the pushed version whole and alone, and none of a file that is empty or gone,
\* but for the files InSync excuses (cmd/semidx/push.go, internal/server/files.go).
THEOREM PushesAreInSync == HashesAgree /\ Spec => []InSync
  BY PushInvariant, PushInvInSync, PTL

\* The versions of a path differ, the chunks are those of stored versions, and a worker's job
\* is one of the queue's, in every state that pushes, workers and crashes reach.
THEOREM PushTypeCorrect == HashesAgree /\ Spec => []TypeOK
  <1>1. PushInv => TypeOK
    BY DEF PushInv, PushTypes
  <1>2. QED
    BY <1>1, PushInvariant, PTL

(* What of a file's searchable versions a step takes away.                   *)
Lost(p) == Searchable(p) /\ ~Searchable(p)'
Known(p) ==
  \/ p \in excused'
  \/ \E w \in Workers : \/ At(w, "delete") /\ p \in task[w].del
                        \/ At(w, "remove") /\ task[w].path = p

LEMMA NoneLost ==
  ASSUME NEW p, whole \subseteq whole'
  PROVE  ~Lost(p)
  BY DEF Lost, Searchable

LEMMA OnlyOneLost ==
  ASSUME NEW p, NEW s, NEW w, NEW t, Becomes(p, s, w, t), NEW q, Lost(q)
  PROVE  q = p /\ \A h : <<p, h>> \in whole => h \notin Rows(s)
  <1>1. whole' = {v \in whole : v[1] = p => v[2] \in Rows(s)}
    BY DEF Becomes, Rows
  <1>2. ASSUME q # p PROVE FALSE
    BY <1>1, <1>2 DEF Lost, Searchable
  <1>3. ASSUME NEW h, <<p, h>> \in whole, h \in Rows(s), q = p PROVE FALSE
    <2>1. PICK v : v = <<p, h>>
      OBVIOUS
    <2>2. v \in whole' /\ v[1] = p
      BY <1>1, <1>3, <2>1
    <2>3. QED
      BY <1>3, <2>2 DEF Lost, Searchable
  <1>4. QED
    BY <1>2, <1>3

LEMMA ClearKeeps ==
  ASSUME PushInv, HashesAgree, NEW w \in Workers, Clear(w), NEW q \in Paths, Lost(q)
  PROVE  q \in excused'
  <1>0. PICK p, v : p = task[w].path /\ v = <<p, Hashed(Content(w))>>
    OBVIOUS
  <1>1. OnFile(w) /\ At(w, "clear") /\ excused \subseteq excused'
    BY DEF Clear, Works, Fails, At, OnFile, FileSteps
  <1>2. p \in Paths /\ Content(w) \in Texts /\ Version(w) = Hashed(Content(w))
        /\ Busy(w) /\ Covers(task[w].job, p) /\ Content(w) = Job(w).tree[p]
    BY <1>0, <1>1, OnFileFacts DEF WorkerSound, At, FileSteps
  <1>3. whole' = whole \ (IF task[w].live THEN {v} ELSE {}) \/ whole' = whole
    BY <1>0, <1>2 DEF Clear
  <1>4. v \in whole /\ q = p
    BY <1>0, <1>3 DEF Lost, Searchable
  <1>5. p \notin excused => v \notin some
    BY <1>0, <1>1, <1>2, FileAhead DEF FarEnough, At, OnFile
  <1>6. whole \subseteq some
    BY StoreFacts DEF PushInv
  <1>7. QED
    BY <1>1, <1>4, <1>5, <1>6

LEMMA RollBackKeeps ==
  ASSUME PushInv, HashesAgree, NEW w \in Workers, RollBack(w), NEW q \in Paths, Lost(q)
  PROVE  q \in excused'
  <1>0. PICK p : p = task[w].path
    OBVIOUS
  <1>1. OnFile(w) /\ At(w, "rollback") /\ excused \subseteq excused'
    BY DEF RollBack, Works, Fails, At, OnFile, FileSteps
  <1>2. p \in Paths /\ Busy(w) /\ Covers(task[w].job, p) /\ Content(w) = Job(w).tree[p]
    BY <1>0, <1>1, OnFileFacts
  <1>3. p \in excused
    BY <1>0, <1>1, <1>2, FileAhead DEF FarEnough, At, OnFile
  <1>4. q = p
    <2>1. PICK s, t : \/ Becomes(p, s, w, t)
                      \/ whole' = whole
                      \/ whole' = IF task[w].live THEN whole \ {<<p, Version(w)>>} ELSE whole
      BY <1>0 DEF RollBack, index
    <2>2. CASE Becomes(p, s, w, t)
      BY <2>2, OnlyOneLost
    <2>3. CASE whole' = whole \/ whole' = IF task[w].live THEN whole \ {<<p, Version(w)>>} ELSE whole
      BY <2>3 DEF Lost, Searchable
    <2>4. QED
      BY <2>1, <2>2, <2>3
  <1>5. QED
    BY <1>1, <1>3, <1>4

LEMMA PruneKeeps ==
  ASSUME PushInv, HashesAgree, NEW w \in Workers, Prune(w), NEW q \in Paths, Lost(q)
  PROVE  q \in excused'
  <1>0. PICK p, h : p = task[w].path /\ h = Hashed(Content(w))
    OBVIOUS
  <1>1. OnFile(w) /\ At(w, "prune") /\ excused \subseteq excused'
    BY DEF Prune, Works, Fails, At, OnFile, FileSteps
  <1>2. p \in Paths /\ Content(w) \in Texts /\ Busy(w) /\ Covers(task[w].job, p)
        /\ Content(w) = Job(w).tree[p]
    BY <1>0, <1>1, OnFileFacts DEF WorkerSound, At, FileSteps
  <1>3. p \notin excused => <<p, h>> \in whole
    BY <1>0, <1>1, <1>2, FileAhead DEF FarEnough, At, OnFile
  <1>4. whole' # whole
    BY DEF Lost, Searchable
  <1>5. PICK s, t : Becomes(p, s, w, t) /\ s = Kept(p, h)
    BY <1>0, <1>4 DEF Prune, index
  <1>6. ASSUME p \notin excused PROVE h \in Rows(s)
    <2>1. h \in Hashes /\ <<p, h>> \in some
      BY <1>0, <1>2, <1>3, <1>6, HashTypes, StoreFacts DEF PushInv
    <2>2. Has(p, h)
      BY <1>2, <2>1, StoreFacts DEF PushInv
    <2>3. s = <<h>>
      BY <1>5, <2>2 DEF Kept
    <2>4. QED
      BY <2>1, <2>3, OneRow
  <1>7. QED
    BY <1>1, <1>3, <1>5, <1>6, OnlyOneLost

LEMMA LossKnown ==
  ASSUME PushInv, HashesAgree, [Next]_vars, NEW q \in Paths, Lost(q)
  PROVE  Known(q)
  <1>1. whole' # whole /\ ~(whole \subseteq whole')
    BY NoneLost
  <1>2. PICK w \in Workers : Delete(w) \/ RemoveBlank(w) \/ Clear(w) \/ RollBack(w) \/ Prune(w)
    <2>1. ~ UNCHANGED index
      BY <1>1 DEF index
    <2>2. ASSUME NEW w \in Workers, WorkerStep(w)
          PROVE  Delete(w) \/ RemoveBlank(w) \/ Clear(w) \/ RollBack(w) \/ Prune(w)
      <3>1. ~Claim(w) /\ ~Unprepared(w) /\ ~Inventory(w) /\ ~Begin(w) /\ ~Check(w) /\ ~Complete(w)
        BY <2>1 DEF Claim, Unprepared, Inventory, Begin, Check, Complete, Outcome
      <3>2. ~Upsert(w) /\ ~Insert(w)
        BY <1>1 DEF Upsert, Insert
      <3>3. QED
        BY <2>2, <3>1, <3>2 DEF WorkerStep
    <2>3. QED
      BY <2>1, <2>2 DEF Next, Edit, Hash, Diff, Send, Answer, GiveUp, Crash, vars
  <1>3. CASE Delete(w)
    <2>1. PICK p, s, t : p \in task[w].del /\ At(w, "delete") /\ Becomes(p, s, w, t)
      BY <1>1, <1>3 DEF Delete, index
    <2>2. q = p
      BY <2>1, OnlyOneLost
    <2>3. At(w, "delete") /\ q \in task[w].del
      BY <2>1, <2>2
    <2>4. QED
      BY <2>3 DEF Known
  <1>4. CASE RemoveBlank(w)
    <2>1. PICK p, t : p = task[w].path /\ At(w, "remove") /\ Becomes(p, <<>>, w, t)
      BY <1>1, <1>4 DEF RemoveBlank, index
    <2>2. QED
      BY <2>1, OnlyOneLost DEF Known
  <1>5. QED
    BY <1>2, <1>3, <1>4, ClearKeeps, RollBackKeeps, PruneKeeps DEF Known

\* While indexBatchFile stores a new version of a file, some version of it stays searchable:
\* the new one has all its chunks before PruneFileVersions takes the others away.  Only a
\* deletion, a file pushed empty, or a case that StaysSearchable excuses takes the last one.
THEOREM FilesStaySearchable == HashesAgree /\ Spec => StaysSearchable
  <1> SUFFICES ASSUME HashesAgree PROVE Spec => StaysSearchable
    OBVIOUS
  <1>1. PushInv /\ [Next]_vars => [\A p \in Paths : Searchable(p) /\ ~Searchable(p)' =>
             \/ p \in excused'
             \/ \E w \in Workers : \/ At(w, "delete") /\ p \in task[w].del
                                   \/ At(w, "remove") /\ task[w].path = p]_vars
    BY LossKnown DEF Lost, Known
  <1>2. QED
    BY <1>1, PushInvariant, PTL DEF Spec, StaysSearchable

------------------------------------------------------------------------------
(* The lists of the user                                                     *)

Cmds == [op : {"none", "check", "record", "save", "write"}, on : Lists,
         copy : Seq(Entry), left : Seq(Entry), after : SUBSET Entry]

NamesDiffer(s) == \A i, j \in DOMAIN s : s[i].name = s[j].name => i = j
Told(s) == \A e \in Elements(s) : \A i \in DOMAIN e.seen : <<e.name, e.owner, e.seen[i]>> \in told
AtWork(c) == cmd[c].op # "none"
Writing(l) == \E c \in Commands : cmd[c].op = "write" /\ cmd[c].on = l

UserTypes ==
  /\ DOMAIN file = Lists
  /\ \A l \in Lists : file[l] # Damaged => file[l] \in Seq(Entry) /\ NamesDiffer(file[l])
  /\ found \in [Names -> Answers] /\ cmd \in [Commands -> Cmds] /\ said \in [Lists -> SUBSET Entry]
  /\ \A c \in Commands : AtWork(c) => NamesDiffer(cmd[c].copy)

(* What is in a file, or about to be, was told.                              *)
AllTold ==
  /\ file["alerts"] # Damaged => Told(file["alerts"])
  /\ \A c \in Commands : AtWork(c) /\ cmd[c].on = "alerts" => Told(cmd[c].copy)

(* A command that is alone has, with its message, what its file is to hold.  *)
OneByOne ==
  /\ \A c, d \in Commands : AtWork(c) /\ AtWork(d) => c = d
  /\ \A l \in Lists : Writing(l) \/ (file[l] # Damaged /\ Elements(file[l]) = said[l])
  /\ \A c \in Commands : AtWork(c) => Elements(cmd[c].copy) = cmd[c].after

UsersInv == UserTypes /\ AllTold /\ (alone => OneByOne)

(* The operators on lists.                                                   *)
LEMMA ThoseFacts ==
  ASSUME NEW S, NEW s \in Seq(S), NEW I \in SUBSET DOMAIN s
  PROVE  /\ Those(s, I) \in Seq(S)
         /\ Elements(Those(s, I)) = {s[i] : i \in I}
         /\ \E o : /\ \A m, n \in DOMAIN Those(s, I) : o[m] = o[n] => m = n
                   /\ \A n \in DOMAIN Those(s, I) : o[n] \in I /\ Those(s, I)[n] = s[o[n]]
  <1> DEFINE Below(i) == {j \in I : j <= i}
             Place(i) == Cardinality(Below(i))
             N == Cardinality(I)
  <1>1. DOMAIN s = 1 .. Len(s) /\ Len(s) \in Nat
    OBVIOUS
  <1>2. IsFiniteSet(I) /\ N \in Nat
    <2>1. IsFiniteSet(1 .. Len(s))
      BY <1>1, FS_Interval
    <2>2. IsFiniteSet(I)
      BY <1>1, <2>1, FS_Subset
    <2>3. QED
      BY <2>2, FS_CardinalityType
  <1>3. ASSUME NEW i \in I PROVE IsFiniteSet(Below(i)) /\ Place(i) \in 1 .. N
    <2>1. Below(i) \subseteq I /\ i \in Below(i)
      BY <1>1
    <2>2. IsFiniteSet(Below(i)) /\ Place(i) \in Nat /\ Place(i) <= N
      BY <1>2, <2>1, FS_Subset, FS_CardinalityType
    <2>3. Place(i) # 0
      BY <2>1, <2>2, FS_EmptySet
    <2>4. QED
      BY <2>2, <2>3
  <1>4. ASSUME NEW i \in I, NEW k \in I, i < k PROVE Place(i) < Place(k)
    <2>1. Below(i) \subseteq Below(k) /\ Below(i) # Below(k)
      <3>1. k \in Below(k) /\ k \notin Below(i)
        BY <1>1, <1>4
      <3>2. \A j \in Below(i) : j \in Below(k)
        BY <1>1, <1>4
      <3>3. QED
        BY <3>1, <3>2
    <2>2. Place(i) <= Place(k) /\ Place(i) # Place(k)
      BY <1>3, <2>1, FS_Subset
    <2> HIDE DEF Place, Below
    <2>3. Place(i) \in Int /\ Place(k) \in Int
      BY <1>3
    <2>4. QED
      BY <2>2, <2>3
  <1>5. \A i, k \in I : Place(i) = Place(k) => i = k
    <2> SUFFICES ASSUME NEW i \in I, NEW k \in I, Place(i) = Place(k) PROVE i = k
      OBVIOUS
    <2>1. i \in Int /\ k \in Int
      BY <1>1
    <2> HIDE DEF Place, Below
    <2>2. Place(i) \in Int
      BY <1>3
    <2>3. ~(i < k) /\ ~(k < i)
      BY <1>4, <2>2
    <2>4. QED
      BY <2>1, <2>3
  <1> DEFINE f == [i \in I |-> Place(i)]
  <1>6. f \in [I -> 1 .. N] /\ \A i, k \in I : f[i] = f[k] => i = k
    BY <1>3, <1>5
  <1> HIDE DEF Below, f
  <1>7. \A n \in 1 .. N : \E i \in I : f[i] = n
    <2>1. IsFiniteSet(1 .. N) /\ Cardinality(1 .. N) = N
      BY <1>2, FS_Interval
    <2>2. f \in Injection(I, 1 .. N)
      BY <1>6, Zenon DEF Injection, IsInjective
    <2>3. f \in Surjection(I, 1 .. N)
      BY <1>2, <2>1, <2>2, FS_Injection
    <2>4. QED
      BY <2>3, Zenon DEF Surjection
  <1> DEFINE o == [n \in 1 .. N |-> CHOOSE i \in I : Place(i) = n]
  <1>8. \A i \in I : f[i] = Place(i)
    BY DEF f
  <1>9. ASSUME NEW n \in 1 .. N PROVE o[n] \in I /\ Place(o[n]) = n
    <2>1. \E i \in I : Place(i) = n
      BY <1>7, <1>8
    <2>2. o[n] = CHOOSE i \in I : Place(i) = n
      OBVIOUS
    <2> HIDE DEF o
    <2>3. QED
      BY <2>1, <2>2, Zenon
  <1> DEFINE t == Those(s, I)
  <1>10. t = [n \in 1 .. N |-> s[o[n]]]
    BY DEF Those, Below
  <1> HIDE DEF o, t
  <1>11. DOMAIN t = 1 .. N /\ \A n \in 1 .. N : t[n] = s[o[n]]
    BY <1>10
  <1>12. \A n \in 1 .. N : o[n] \in I /\ s[o[n]] \in S
    BY <1>1, <1>9
  <1>13. t \in Seq(S)
    BY <1>2, <1>10, <1>12
  <1>14. \A m, n \in 1 .. N : o[m] = o[n] => m = n
    BY <1>9
  <1>15. \A i \in I : \E n \in 1 .. N : o[n] = i
    BY <1>3, <1>5, <1>9
  <1>16. Elements(t) = {s[i] : i \in I}
    <2>1. \A x \in Elements(t) : \E i \in I : x = s[i]
      BY <1>11, <1>12 DEF Elements
    <2>2. \A i \in I : s[i] \in Elements(t)
      BY <1>11, <1>15 DEF Elements
    <2>3. QED
      BY <2>1, <2>2
  <1>17. QED
    BY <1>11, <1>12, <1>13, <1>14, <1>16 DEF t

LEMMA OthersFacts ==
  ASSUME NEW s \in Seq(Entry), NamesDiffer(s), NEW n
  PROVE  /\ Others(s, n) \in Seq(Entry) /\ NamesDiffer(Others(s, n))
         /\ Elements(Others(s, n)) = {e \in Elements(s) : e.name # n}
  <1>1. PICK I \in SUBSET DOMAIN s : I = {i \in DOMAIN s : s[i].name # n}
    OBVIOUS
  <1>2. PICK t : t = Those(s, I)
    OBVIOUS
  <1>3. t \in Seq(Entry) /\ Elements(t) = {s[i] : i \in I}
    BY <1>2, ThoseFacts
  <1>4. PICK o : /\ \A m, k \in DOMAIN t : o[m] = o[k] => m = k
                 /\ \A k \in DOMAIN t : o[k] \in I /\ t[k] = s[o[k]]
    BY <1>2, ThoseFacts
  <1>5. Others(s, n) = t
    BY <1>1, <1>2 DEF Others
  <1>6. \A i : i \in I <=> i \in DOMAIN s /\ s[i].name # n
    BY <1>1
  <1>7. NamesDiffer(t)
    BY <1>4, <1>6 DEF NamesDiffer
  <1>8. \A e : e \in {s[i] : i \in I} <=> e \in Elements(s) /\ e.name # n
    BY <1>6 DEF Elements
  <1>9. QED
    BY <1>3, <1>5, <1>7, <1>8

LEMMA NewEntry ==
  ASSUME NEW n \in Names, NEW o \in Owners, NEW v \in Answers
  PROVE  /\ New(n, o) \in Entry /\ New(n, o).name = n /\ New(n, o).seen = <<>>
         /\ [New(n, o) EXCEPT !.seen = <<v>>] \in Entry
         /\ [New(n, o) EXCEPT !.seen = <<v>>].name = n
  <1>1. <<>> \in Seq(Answers) /\ <<v>> \in Seq(Answers)
    <2>1. PICK z : z = <<v>>
      OBVIOUS
    <2>2. z = [i \in 1 .. 1 |-> v]
      BY <2>1
    <2>3. QED
      BY <2>1, <2>2
  <1>2. New(n, o) = [name |-> n, owner |-> o, seen |-> <<>>]
    BY DEF New
  <1>3. [New(n, o) EXCEPT !.seen = <<v>>] = [name |-> n, owner |-> o, seen |-> <<v>>]
    BY <1>2
  <1>4. \A q \in Seq(Answers) : [name |-> n, owner |-> o, seen |-> q] \in Entry
    BY DEF Entry
  <1>5. New(n, o) \in Entry /\ [New(n, o) EXCEPT !.seen = <<v>>] \in Entry
    BY <1>1, <1>2, <1>3, <1>4
  <1>6. QED
    BY <1>2, <1>3, <1>5

LEMMA AppendFacts ==
  ASSUME NEW s \in Seq(Entry), NamesDiffer(s), NEW e \in Entry, ~Named(s, e.name)
  PROVE  /\ Append(s, e) \in Seq(Entry) /\ NamesDiffer(Append(s, e))
         /\ Elements(Append(s, e)) = Elements(s) \cup {e}
  <1> DEFINE t == Append(s, e)
  <1>1. /\ t \in Seq(Entry) /\ Len(t) = Len(s) + 1 /\ DOMAIN t = 1 .. Len(s) + 1 /\ DOMAIN s = 1 .. Len(s)
        /\ t[Len(s) + 1] = e /\ \A i \in DOMAIN s : t[i] = s[i]
    OBVIOUS
  <1> HIDE DEF t
  <1>2. Len(s) + 1 \in DOMAIN t /\ \A i \in DOMAIN t : i = Len(s) + 1 \/ i \in DOMAIN s
    BY <1>1
  <1>3. \A i \in DOMAIN s : i \in DOMAIN t
    BY <1>1
  <1>4. NamesDiffer(t)
    BY <1>1, <1>2 DEF NamesDiffer, Named
  <1>5. \A x \in Elements(t) : x \in Elements(s) \/ x = e
    BY <1>1, <1>2 DEF Elements
  <1>6. \A x \in Elements(s) : x \in Elements(t)
    BY <1>1, <1>3 DEF Elements
  <1>7. e \in Elements(t)
    BY <1>1, <1>2 DEF Elements
  <1>8. QED
    BY <1>1, <1>4, <1>5, <1>6, <1>7 DEF t

LEMMA SeenFacts ==
  ASSUME NEW x \in Entry, NEW q \in Seq(Answers)
  PROVE  /\ [x EXCEPT !.seen = q] = [name |-> x.name, owner |-> x.owner, seen |-> q]
         /\ [x EXCEPT !.seen = q] \in Entry /\ [x EXCEPT !.seen = q].name = x.name
  <1>1. PICK n \in Names, o \in Owners, z \in Seq(Answers) : x = [name |-> n, owner |-> o, seen |-> z]
    BY DEF Entry
  <1>2. [x EXCEPT !.seen = q] = [name |-> n, owner |-> o, seen |-> q] /\ x.name = n /\ x.owner = o
    BY <1>1
  <1>3. [name |-> n, owner |-> o, seen |-> q] \in Entry
    BY DEF Entry
  <1>4. QED
    BY <1>2, <1>3

LEMMA EmptyList ==
  /\ <<>> \in Seq(Entry) /\ NamesDiffer(<<>>) /\ Elements(<<>>) = {}
  BY DEF NamesDiffer, Elements

LEMMA OneEntry ==
  ASSUME NEW e \in Entry
  PROVE  <<e>> \in Seq(Entry) /\ NamesDiffer(<<e>>) /\ Elements(<<e>>) = {e}
  BY DEF NamesDiffer, Elements

(* Where a name is taken once, each entry is changed in its place.           *)
LEMMA MapFacts ==
  ASSUME NEW s \in Seq(Entry), NamesDiffer(s), NEW t, DOMAIN t = DOMAIN s,
         \A i \in DOMAIN s : t[i] \in Entry /\ t[i].name = s[i].name, t = [i \in DOMAIN s |-> t[i]]
  PROVE  t \in Seq(Entry) /\ NamesDiffer(t) /\ Elements(t) = {t[i] : i \in DOMAIN s}
  <1>1. DOMAIN s = 1 .. Len(s) /\ Len(s) \in Nat
    OBVIOUS
  <1>2. t \in [1 .. Len(s) -> Entry]
    BY <1>1
  <1>3. t \in Seq(Entry)
    BY <1>1, <1>2
  <1>4. NamesDiffer(t)
    BY DEF NamesDiffer
  <1>5. QED
    BY <1>3, <1>4 DEF Elements

LEMMA UsersStart == UsersInit => UsersInv
  <1> SUFFICES ASSUME UsersInit PROVE UsersInv
    OBVIOUS
  <1>1. \A l \in Lists : file[l] = <<>> /\ said[l] = {}
    BY DEF UsersInit
  <1>2. Off \in Cmds /\ Off.op = "none"
    BY DEF Off, Cmds, Lists
  <1>3. \A c \in Commands : ~AtWork(c) /\ cmd[c].op = "none"
    BY <1>2 DEF UsersInit, AtWork
  <1>4. UserTypes
    BY <1>1, <1>2, <1>3, EmptyList DEF UsersInit, UserTypes
  <1>5. AllTold
    BY <1>1, <1>3, EmptyList DEF AllTold, Told, Lists
  <1>6. <<>> # Damaged
    <2>1. <<>> \in Seq([name : Names, owner : Owners, seen : Seq(Answers)])
      OBVIOUS
    <2>2. QED
      BY <2>1, DamagedAssumption
  <1>7. OneByOne
    BY <1>1, <1>3, <1>6, EmptyList DEF OneByOne
  <1>8. QED
    BY <1>4, <1>5, <1>7 DEF UsersInv

LEMMA ListNotDamaged == Damaged \notin Seq(Entry)
  BY DamagedAssumption DEF Entry

\* What a command reads.
LEMMA LoadedFacts ==
  ASSUME UsersInv, NEW l \in Lists
  PROVE  /\ Loaded(l) \in Seq(Entry) /\ NamesDiffer(Loaded(l))
         /\ l = "alerts" => Told(Loaded(l))
         /\ said[l] \subseteq Entry
         /\ alone /\ (\A c \in Commands : ~AtWork(c)) => Elements(Loaded(l)) = said[l]
  <1>1. CASE file[l] = Damaged
    <2>1. Loaded(l) = <<>>
      BY <1>1 DEF Loaded
    <2>2. ~(alone /\ \A c \in Commands : ~AtWork(c))
      BY <1>1 DEF UsersInv, OneByOne, Writing, AtWork
    <2>3. QED
      BY <2>1, <2>2, EmptyList DEF UsersInv, UserTypes, Told
  <1>2. CASE file[l] # Damaged
    <2>1. Loaded(l) = file[l]
      BY <1>2 DEF Loaded
    <2>2. alone /\ (\A c \in Commands : ~AtWork(c)) => Elements(file[l]) = said[l]
      BY DEF UsersInv, OneByOne, Writing, AtWork
    <2>3. file[l] \in Seq(Entry) /\ NamesDiffer(file[l]) /\ (l = "alerts" => Told(file[l])) /\ said[l] \subseteq Entry
      BY <1>2 DEF UsersInv, UserTypes, AllTold
    <2>4. QED
      BY <2>1, <2>2, <2>3
  <1>3. QED
    BY <1>1, <1>2

(* A command starts, goes on or ends, and no file changes.                   *)
LEMMA CommandGoesOn ==
  ASSUME UsersInv, NEW c \in Commands, NEW r \in Cmds, cmd' = [cmd EXCEPT ![c] = r],
         UNCHANGED <<file, found, said>>, told \subseteq told',
         alone' => alone /\ cmd[c].op # "write",
         alone' /\ ~AtWork(c) /\ r.op # "none" => \A d \in Commands : ~AtWork(d),
         r.op # "write",
         r.op # "none" => /\ NamesDiffer(r.copy)
                          /\ r.on = "alerts" => Told(r.copy)'
                          /\ alone' => Elements(r.copy) = r.after
  PROVE  UsersInv'
  <1>1. cmd \in [Commands -> Cmds] /\ found \in [Names -> Answers] /\ DOMAIN file = Lists
        /\ said \in [Lists -> SUBSET Entry]
    BY DEF UsersInv, UserTypes
  <1>2. cmd' \in [Commands -> Cmds] /\ cmd'[c] = r /\ \A d \in Commands \ {c} : cmd'[d] = cmd[d]
    BY <1>1
  <1>3. \A s : Told(s) => Told(s)'
    BY DEF Told
  <1>4. UserTypes'
    <2>1. \A d \in Commands : AtWork(d)' => NamesDiffer(cmd'[d].copy)
      BY <1>2 DEF UsersInv, UserTypes, AtWork
    <2>2. QED
      BY <1>1, <1>2, <2>1 DEF UsersInv, UserTypes, NamesDiffer
  <1>5. AllTold'
    <2>1. file["alerts"] # Damaged => Told(file["alerts"])'
      BY <1>3 DEF UsersInv, AllTold, Told
    <2>2. ASSUME NEW d \in Commands, AtWork(d)', cmd'[d].on = "alerts" PROVE Told(cmd[d].copy)'
      <3>1. CASE d = c
        BY <1>2, <2>2, <3>1 DEF AtWork, Told
      <3>2. CASE d # c
        <4>1. Told(cmd[d].copy) /\ cmd'[d] = cmd[d]
          BY <1>2, <2>2, <3>2 DEF UsersInv, AllTold, AtWork
        <4>2. QED
          BY <4>1 DEF Told
      <3>3. QED
        BY <3>1, <3>2
    <2>3. QED
      BY <2>1, <2>2 DEF AllTold, Told
  <1>6. ASSUME alone' PROVE OneByOne'
    <2>1. OneByOne /\ cmd[c].op # "write" /\ (~AtWork(c) /\ r.op # "none" => \A d \in Commands : ~AtWork(d))
      BY <1>6 DEF UsersInv
    <2>2. \A d \in Commands : d # c => (AtWork(d)' <=> AtWork(d))
      BY <1>2 DEF AtWork
    <2>3. AtWork(c)' => r.op # "none"
      BY <1>2 DEF AtWork
    <2>4. \A d, e \in Commands : AtWork(d)' /\ AtWork(e)' => d = e
      BY <2>1, <2>2, <2>3 DEF OneByOne
    <2>5. \A l \in Lists : Writing(l) => Writing(l)'
      <3> SUFFICES ASSUME NEW l \in Lists, NEW d \in Commands, cmd[d].op = "write", cmd[d].on = l PROVE Writing(l)'
        BY DEF Writing
      <3>1. d # c
        BY <2>1
      <3>2. QED
        BY <1>2, <3>1 DEF Writing
    <2>6. \A d \in Commands : AtWork(d)' => Elements(cmd'[d].copy) = cmd'[d].after
      BY <1>2, <1>6, <2>1, <2>2, <2>3 DEF OneByOne
    <2>7. QED
      BY <2>1, <2>4, <2>5, <2>6 DEF OneByOne
  <1>7. QED
    BY <1>4, <1>5, <1>6 DEF UsersInv

LEMMA SaveStarts ==
  ASSUME UsersInv, NEW c \in Commands, NEW l \in Lists, NEW s \in Seq(Entry), NamesDiffer(s),
         NEW after \in SUBSET Entry, StartCommand(c), Save(c, l, s, after),
         l = "alerts" => Told(s), alone /\ (\A d \in Commands : ~AtWork(d)) => Elements(s) = after
  PROVE  UsersInv'
  <1>1. UNCHANGED <<file, found, told, said>> /\ ~AtWork(c) /\ alone' = (alone /\ \A d \in Commands : cmd[d].op = "none")
    BY DEF StartCommand, AtWork
  <1>2. PICK r : r = [op |-> "save", on |-> l, copy |-> s, left |-> <<>>, after |-> after]
    OBVIOUS
  <1>3. r.op = "save" /\ r.on = l /\ r.copy = s /\ r.after = after
    BY <1>2
  <1>4. r \in Cmds
    BY <1>2, EmptyList DEF Cmds
  <1>5. cmd' = [cmd EXCEPT ![c] = r]
    BY <1>2 DEF Save
  <1>6. cmd[c].op # "write" /\ (alone' => alone /\ \A d \in Commands : ~AtWork(d))
    BY <1>1 DEF AtWork
  <1>7. r.on = "alerts" => Told(r.copy)'
    BY <1>1, <1>3 DEF Told
  <1>8. QED
    BY <1>1, <1>3, <1>4, <1>5, <1>6, <1>7, CommandGoesOn

LEMMA CreateInv ==
  ASSUME UsersInv, NEW c \in Commands, NEW l \in {"alerts", "insights"}, NEW n \in Names, NEW o \in Owners,
         Create(c, l, n, o)
  PROVE  UsersInv'
  <1>1. l \in Lists /\ ~Named(Loaded(l), n) /\ StartCommand(c)
        /\ Save(c, l, Append(Loaded(l), New(n, o)), said[l] \cup {New(n, o)})
    BY DEF Create, Lists
  <1>2. PICK e, s, t : e = New(n, o) /\ s = Loaded(l) /\ t = Append(s, e)
    OBVIOUS
  <1>3. e \in Entry /\ e.name = n /\ e.seen = <<>>
    <2>1. e = [name |-> n, owner |-> o, seen |-> <<>>]
      BY <1>2 DEF New
    <2>2. <<>> \in Seq(Answers)
      OBVIOUS
    <2>3. \A q \in Seq(Answers) : [name |-> n, owner |-> o, seen |-> q] \in Entry
      BY DEF Entry
    <2>4. QED
      BY <2>1, <2>2, <2>3
  <1>4. /\ s \in Seq(Entry) /\ NamesDiffer(s) /\ (l = "alerts" => Told(s)) /\ said[l] \subseteq Entry
        /\ alone /\ (\A d \in Commands : ~AtWork(d)) => Elements(s) = said[l]
    BY <1>1, <1>2, LoadedFacts
  <1>5. t \in Seq(Entry) /\ NamesDiffer(t) /\ Elements(t) = Elements(s) \cup {e}
    BY <1>1, <1>2, <1>3, <1>4, AppendFacts
  <1>6. l = "alerts" => Told(t)
    <2>1. DOMAIN e.seen = {}
      BY <1>3
    <2>2. QED
      BY <1>4, <1>5, <2>1 DEF Told
  <1>7. PICK B : B = said[l] \cup {e}
    OBVIOUS
  <1>8. B \in SUBSET Entry /\ (Elements(s) = said[l] => Elements(t) = B)
    BY <1>3, <1>4, <1>5, <1>7
  <1>9. Save(c, l, t, B)
    BY <1>1, <1>2, <1>7
  <1>10. QED
    BY <1>1, <1>4, <1>5, <1>6, <1>8, <1>9, SaveStarts

LEMMA DeleteAlertInv ==
  ASSUME UsersInv, NEW c \in Commands, NEW n \in Names, DeleteAlert(c, n)
  PROVE  UsersInv'
  <1>1. "alerts" \in Lists /\ StartCommand(c)
        /\ Save(c, "alerts", Others(Loaded("alerts"), n), {e \in said["alerts"] : e.name # n})
    BY DEF DeleteAlert, Lists
  <1>2. PICK s, t, A : s = Loaded("alerts") /\ t = Others(s, n) /\ A = {e \in said["alerts"] : e.name # n}
    OBVIOUS
  <1>3. /\ s \in Seq(Entry) /\ NamesDiffer(s) /\ Told(s) /\ said["alerts"] \subseteq Entry
        /\ alone /\ (\A d \in Commands : ~AtWork(d)) => Elements(s) = said["alerts"]
    BY <1>1, <1>2, LoadedFacts
  <1>4. t \in Seq(Entry) /\ NamesDiffer(t) /\ Elements(t) = {e \in Elements(s) : e.name # n}
    BY <1>2, <1>3, OthersFacts
  <1>5. Told(t) /\ A \in SUBSET Entry
    BY <1>2, <1>3, <1>4 DEF Told
  <1>6. Elements(s) = said["alerts"] => Elements(t) = A
    BY <1>2, <1>4
  <1>7. QED
    BY <1>1, <1>2, <1>3, <1>4, <1>5, <1>6, SaveStarts

LEMMA SetKeyInv ==
  ASSUME UsersInv, NEW c \in Commands, NEW n \in Names, NEW v \in Answers, SetKey(c, n, v)
  PROVE  UsersInv'
  <1>1. PICK e : e = [New(n, CHOOSE o \in Owners : TRUE) EXCEPT !.seen = <<v>>]
    OBVIOUS
  <1>2. "settings" \in Lists /\ StartCommand(c)
        /\ Save(c, "settings", Append(Others(Loaded("settings"), n), e),
                {x \in said["settings"] : x.name # n} \cup {e})
    BY <1>1 DEF SetKey, Lists
  <1>3. e \in Entry /\ e.name = n
    BY <1>1, OwnersAssumption, NewEntry
  <1>4. PICK s, t, A : s = Loaded("settings") /\ t = Others(s, n) /\ A = {x \in said["settings"] : x.name # n}
    OBVIOUS
  <1>5. /\ s \in Seq(Entry) /\ NamesDiffer(s) /\ said["settings"] \subseteq Entry
        /\ alone /\ (\A d \in Commands : ~AtWork(d)) => Elements(s) = said["settings"]
    BY <1>2, <1>4, LoadedFacts
  <1>6. t \in Seq(Entry) /\ NamesDiffer(t) /\ Elements(t) = {x \in Elements(s) : x.name # n}
    BY <1>4, <1>5, OthersFacts
  <1>7. ~Named(t, e.name)
    BY <1>3, <1>6 DEF Named, Elements
  <1>8. Append(t, e) \in Seq(Entry) /\ NamesDiffer(Append(t, e)) /\ Elements(Append(t, e)) = Elements(t) \cup {e}
    BY <1>3, <1>6, <1>7, AppendFacts
  <1>9. PICK u, B : u = Append(t, e) /\ B = A \cup {e}
    OBVIOUS
  <1>10. B \in SUBSET Entry /\ (Elements(s) = said["settings"] => Elements(u) = B)
    BY <1>3, <1>4, <1>5, <1>6, <1>8, <1>9
  <1>11. QED
    BY <1>2, <1>4, <1>5, <1>8, <1>9, <1>10, SaveStarts

LEMMA UnsetKeyInv ==
  ASSUME UsersInv, NEW c \in Commands, NEW n \in Names, UnsetKey(c, n)
  PROVE  UsersInv'
  <1>1. "settings" \in Lists /\ StartCommand(c)
        /\ Save(c, "settings", Others(Loaded("settings"), n), {x \in said["settings"] : x.name # n})
    BY DEF UnsetKey, Lists
  <1>2. PICK s, t, A : s = Loaded("settings") /\ t = Others(s, n) /\ A = {x \in said["settings"] : x.name # n}
    OBVIOUS
  <1>3. /\ s \in Seq(Entry) /\ NamesDiffer(s) /\ said["settings"] \subseteq Entry
        /\ alone /\ (\A d \in Commands : ~AtWork(d)) => Elements(s) = said["settings"]
    BY <1>1, <1>2, LoadedFacts
  <1>4. t \in Seq(Entry) /\ NamesDiffer(t) /\ Elements(t) = {x \in Elements(s) : x.name # n}
    BY <1>2, <1>3, OthersFacts
  <1>5. A \in SUBSET Entry /\ (Elements(s) = said["settings"] => Elements(t) = A)
    BY <1>2, <1>3, <1>4
  <1>6. QED
    BY <1>1, <1>2, <1>3, <1>4, <1>5, SaveStarts

LEMMA LoginInv ==
  ASSUME UsersInv, NEW c \in Commands, NEW n \in Names, NEW v \in Answers, Login(c, n, v)
  PROVE  UsersInv'
  <1>1. PICK e : e = [New(n, CHOOSE o \in Owners : TRUE) EXCEPT !.seen = <<v>>]
    OBVIOUS
  <1>2. "login" \in Lists /\ StartCommand(c) /\ Save(c, "login", <<e>>, {e})
    BY <1>1 DEF Login, Lists
  <1>3. e \in Entry
    BY <1>1, OwnersAssumption, NewEntry
  <1>4. PICK s, A : s = <<e>> /\ A = {e}
    OBVIOUS
  <1>5. s \in Seq(Entry) /\ NamesDiffer(s) /\ Elements(s) = A /\ A \in SUBSET Entry
    BY <1>3, <1>4, OneEntry
  <1>6. QED
    BY <1>2, <1>4, <1>5, SaveStarts

(* What a command holds, of the right kinds, and told.                       *)
LEMMA AtWorkFacts ==
  ASSUME UsersInv, NEW c \in Commands, AtWork(c)
  PROVE  /\ cmd \in [Commands -> Cmds] /\ cmd[c] \in Cmds
         /\ cmd[c].on \in Lists /\ cmd[c].copy \in Seq(Entry) /\ cmd[c].left \in Seq(Entry)
         /\ cmd[c].after \subseteq Entry
         /\ cmd[c] = [op |-> cmd[c].op, on |-> cmd[c].on, copy |-> cmd[c].copy,
                      left |-> cmd[c].left, after |-> cmd[c].after]
         /\ NamesDiffer(cmd[c].copy) /\ (cmd[c].on = "alerts" => Told(cmd[c].copy))
         /\ alone => Elements(cmd[c].copy) = cmd[c].after
  <1>1. cmd \in [Commands -> Cmds] /\ cmd[c] \in Cmds
    BY DEF UsersInv, UserTypes
  <1>2. NamesDiffer(cmd[c].copy) /\ (cmd[c].on = "alerts" => Told(cmd[c].copy))
        /\ (alone => Elements(cmd[c].copy) = cmd[c].after)
    BY DEF UsersInv, UserTypes, AllTold, OneByOne
  <1>3. QED
    BY <1>1, <1>2 DEF Cmds

LEMMA OffFacts == Off \in Cmds /\ Off.op = "none"
  BY DEF Off, Cmds, Lists

LEMMA StartCheckInv ==
  ASSUME UsersInv, NEW c \in Commands, NEW owners, StartCheck(c, owners)
  PROVE  UsersInv'
  <1>1. PICK s : s = Loaded("alerts")
    OBVIOUS
  <1>2. PICK I \in SUBSET DOMAIN s : I = {i \in DOMAIN s : s[i].owner \in owners}
    OBVIOUS
  <1>3. PICK u, r : u = Those(s, I) /\ r = [op |-> "check", on |-> "alerts", copy |-> s, left |-> u, after |-> said["alerts"]]
    OBVIOUS
  <1>4. StartCommand(c) /\ cmd' = [cmd EXCEPT ![c] = r]
    BY <1>1, <1>2, <1>3 DEF StartCheck
  <1>5. /\ s \in Seq(Entry) /\ NamesDiffer(s) /\ Told(s) /\ said["alerts"] \subseteq Entry
        /\ alone /\ (\A d \in Commands : ~AtWork(d)) => Elements(s) = said["alerts"]
    BY <1>1, LoadedFacts DEF Lists
  <1>6. u \in Seq(Entry)
    BY <1>3, <1>5, ThoseFacts
  <1>7. r \in Cmds /\ r.op = "check" /\ r.copy = s /\ r.after = said["alerts"]
    BY <1>3, <1>5, <1>6 DEF Cmds, Lists
  <1>8. UNCHANGED <<file, found, told, said>> /\ ~AtWork(c) /\ (alone' => alone /\ \A d \in Commands : ~AtWork(d))
        /\ cmd[c].op # "write"
    BY <1>4 DEF StartCommand, AtWork
  <1>9. Told(r.copy)'
    BY <1>5, <1>7, <1>8 DEF Told
  <1>10. QED
    BY <1>4, <1>5, <1>7, <1>8, <1>9, CommandGoesOn

LEMMA WithAnswerFacts ==
  ASSUME NEW s \in Seq(Entry), NamesDiffer(s), NEW e \in Entry, NEW a \in Answers
  PROVE  /\ WithAnswer(s, e, a) \in Seq(Entry) /\ NamesDiffer(WithAnswer(s, e, a))
         /\ Elements(WithAnswer(s, e, a)) =
              {IF x.name = e.name /\ x.owner = e.owner THEN [x EXCEPT !.seen = <<a>>] ELSE x : x \in Elements(s)}
         /\ {IF x.name = e.name /\ x.owner = e.owner THEN [x EXCEPT !.seen = <<a>>] ELSE x : x \in Elements(s)}
              \subseteq Entry
  <1> DEFINE noted(x) == IF x.name = e.name /\ x.owner = e.owner THEN [x EXCEPT !.seen = <<a>>] ELSE x
  <1>1. \A x \in Entry : noted(x) \in Entry /\ noted(x).name = x.name
    <2>1. <<a>> \in Seq(Answers)
      <3>1. PICK z : z = <<a>>
        OBVIOUS
      <3>2. z = [i \in 1 .. 1 |-> a]
        BY <3>1
      <3>3. QED
        BY <3>1, <3>2
    <2>2. \A x \in Entry : [x EXCEPT !.seen = <<a>>] \in Entry /\ [x EXCEPT !.seen = <<a>>].name = x.name
      BY <2>1, SeenFacts
    <2>3. QED
      BY <2>2
  <1>2. DOMAIN s = 1 .. Len(s) /\ Len(s) \in Nat /\ \A i \in DOMAIN s : s[i] \in Entry
    OBVIOUS
  <1>3. PICK H : H = {i \in DOMAIN s : s[i].name = e.name /\ s[i].owner = e.owner}
    OBVIOUS
  <1>4. PICK t : t = WithAnswer(s, e, a)
    OBVIOUS
  <1>5. t = [i \in DOMAIN s |-> IF i \in H /\ \A j \in H : i <= j THEN [s[i] EXCEPT !.seen = <<a>>] ELSE s[i]]
    BY <1>3, <1>4 DEF WithAnswer
  <1>6. ASSUME NEW i \in DOMAIN s PROVE t[i] = noted(s[i])
    <2>1. i \in H => \A j \in H : i <= j
      BY <1>2, <1>3 DEF NamesDiffer
    <2>2. QED
      BY <1>3, <1>5, <2>1
  <1> HIDE DEF noted
  <1>7. DOMAIN t = DOMAIN s /\ t = [i \in DOMAIN s |-> t[i]] /\ \A i \in DOMAIN s : t[i] \in Entry /\ t[i].name = s[i].name
    BY <1>1, <1>2, <1>5, <1>6
  <1>8. t \in Seq(Entry) /\ NamesDiffer(t) /\ Elements(t) = {t[i] : i \in DOMAIN s}
    BY <1>7, MapFacts
  <1>9. {t[i] : i \in DOMAIN s} = {noted(x) : x \in Elements(s)}
    BY <1>6 DEF Elements
  <1>10. {noted(x) : x \in Elements(s)} \subseteq Entry
    BY <1>1, <1>2 DEF Elements
  <1>11. QED
    BY <1>4, <1>8, <1>9, <1>10 DEF noted

LEMMA CheckOneInv ==
  ASSUME UsersInv, NEW c \in Commands, CheckOne(c)
  PROVE  UsersInv'
  <1>1. PICK e, a : e = Head(cmd[c].left) /\ a = found[e.name]
    OBVIOUS
  <1>2. PICK s, u, l, A : s = cmd[c].copy /\ u = cmd[c].left /\ l = cmd[c].on /\ A = cmd[c].after
    OBVIOUS
  <1>3. PICK t, B : /\ t = WithAnswer(s, e, a)
                    /\ B = {IF x.name = e.name /\ x.owner = e.owner THEN [x EXCEPT !.seen = <<a>>] ELSE x : x \in A}
    OBVIOUS
  <1>4. PICK r : r = [op |-> "check", on |-> l, copy |-> t, left |-> Tail(u), after |-> B]
    OBVIOUS
  <1>5. /\ cmd[c].op = "check" /\ u # <<>> /\ told' = told \cup {<<e.name, e.owner, a>>}
        /\ UNCHANGED <<file, found, said, alone>>
        /\ cmd' = [cmd EXCEPT ![c].left = Tail(@), ![c].copy = WithAnswer(@, e, a),
                              ![c].after = {IF x.name = e.name /\ x.owner = e.owner
                                            THEN [x EXCEPT !.seen = <<a>>] ELSE x : x \in @}]
    BY <1>1, <1>2 DEF CheckOne
  <1>6. AtWork(c)
    BY <1>5 DEF AtWork
  <1>7. /\ cmd \in [Commands -> Cmds] /\ l \in Lists /\ s \in Seq(Entry) /\ u \in Seq(Entry) /\ A \subseteq Entry
        /\ cmd[c] = [op |-> "check", on |-> l, copy |-> s, left |-> u, after |-> A]
        /\ NamesDiffer(s) /\ (l = "alerts" => Told(s)) /\ (alone => Elements(s) = A)
    BY <1>2, <1>5, <1>6, AtWorkFacts
  <1>8. e \in Entry /\ Tail(u) \in Seq(Entry)
    BY <1>1, <1>2, <1>5, <1>7, SMTT(60)
  <1>9. a \in Answers /\ e.name \in Names /\ e.owner \in Owners
    BY <1>1, <1>8 DEF UsersInv, UserTypes, Entry
  <1>10. cmd' = [cmd EXCEPT ![c] = r]
    <2>1. PICK k : k = cmd[c]
      OBVIOUS
    <2>2. [k EXCEPT !.left = Tail(@), !.copy = WithAnswer(@, e, a),
                    !.after = {IF x.name = e.name /\ x.owner = e.owner
                               THEN [x EXCEPT !.seen = <<a>>] ELSE x : x \in @}] = r
      <3>1. k = [op |-> "check", on |-> l, copy |-> s, left |-> u, after |-> A]
        BY <1>7, <2>1
      <3>2. k.copy = s /\ k.left = u /\ k.after = A
        BY <3>1
      <3>3. [k EXCEPT !.left = Tail(u), !.copy = t, !.after = B] = r
        <4>1. PICK z : z = Tail(u)
          OBVIOUS
        <4>2. r = [op |-> "check", on |-> l, copy |-> t, left |-> z, after |-> B]
          BY <1>4, <4>1, Zenon
        <4>3. PICK k1 : k1 = [k EXCEPT !.left = z]
          OBVIOUS
        <4>4. k1 = [op |-> "check", on |-> l, copy |-> s, left |-> z, after |-> A]
          BY <3>1, <4>3
        <4>5. PICK k2 : k2 = [k1 EXCEPT !.copy = t]
          OBVIOUS
        <4>6. k2 = [op |-> "check", on |-> l, copy |-> t, left |-> z, after |-> A]
          BY <4>4, <4>5
        <4>7. [k2 EXCEPT !.after = B] = r
          BY <4>2, <4>6
        <4>8. [k EXCEPT !.left = z, !.copy = t, !.after = B] = r
          BY <4>3, <4>5, <4>7
        <4>9. QED
          BY <4>1, <4>8, Zenon
      <3>4. [k EXCEPT !.left = Tail(@), !.copy = WithAnswer(@, e, a),
                      !.after = {IF x.name = e.name /\ x.owner = e.owner
                                 THEN [x EXCEPT !.seen = <<a>>] ELSE x : x \in @}]
            = [k EXCEPT !.left = Tail(k.left), !.copy = WithAnswer(k.copy, e, a),
                        !.after = {IF x.name = e.name /\ x.owner = e.owner
                                   THEN [x EXCEPT !.seen = <<a>>] ELSE x : x \in k.after}]
        BY Zenon
      <3>5. Tail(k.left) = Tail(u) /\ WithAnswer(k.copy, e, a) = t
            /\ {IF x.name = e.name /\ x.owner = e.owner THEN [x EXCEPT !.seen = <<a>>] ELSE x : x \in k.after} = B
        BY <1>3, <3>2
      <3>6. QED
        BY <3>3, <3>4, <3>5, Zenon
    <2>3. cmd' = [cmd EXCEPT ![c] = [k EXCEPT !.left = Tail(@), !.copy = WithAnswer(@, e, a),
                    !.after = {IF x.name = e.name /\ x.owner = e.owner
                               THEN [x EXCEPT !.seen = <<a>>] ELSE x : x \in @}]]
      BY <1>5, <2>1
    <2>4. QED
      BY <2>2, <2>3
  <1> DEFINE noted(x) == IF x.name = e.name /\ x.owner = e.owner THEN [x EXCEPT !.seen = <<a>>] ELSE x
  <1>11. t \in Seq(Entry) /\ NamesDiffer(t) /\ Elements(t) = {noted(x) : x \in Elements(s)}
    BY <1>3, <1>7, <1>8, <1>9, WithAnswerFacts
  <1>12. \A x \in Entry : noted(x) \in Entry
    <2>1. <<a>> \in Seq(Answers)
      BY <1>9
    <2>2. QED
      BY <2>1, SeenFacts
  <1>13. ASSUME l = "alerts" PROVE Told(t)'
    <2>1. \A x \in Elements(s) : \A i \in DOMAIN x.seen : <<x.name, x.owner, x.seen[i]>> \in told
      BY <1>7, <1>13 DEF Told
    <2>2. ASSUME NEW x \in Elements(s), NEW i \in DOMAIN noted(x).seen
          PROVE  <<noted(x).name, noted(x).owner, noted(x).seen[i]>> \in told'
      <3>1. x \in Entry
        BY <1>7 DEF Elements
      <3>2. CASE x.name = e.name /\ x.owner = e.owner
        <4>1. noted(x) = [name |-> e.name, owner |-> e.owner, seen |-> <<a>>]
          <5>1. <<a>> \in Seq(Answers)
            BY <1>9
          <5>2. QED
            BY <3>1, <3>2, <5>1, SeenFacts
        <4>2. noted(x).name = e.name /\ noted(x).owner = e.owner /\ noted(x).seen = <<a>>
          BY <4>1
        <4> HIDE DEF noted
        <4>3. i = 1 /\ noted(x).seen[i] = a
          BY <2>2, <4>2
        <4>4. QED
          BY <1>5, <4>2, <4>3
      <3>3. CASE ~(x.name = e.name /\ x.owner = e.owner)
        BY <1>5, <2>1, <2>2, <3>3
      <3>4. QED
        BY <3>2, <3>3
    <2> HIDE DEF noted
    <2>3. \A y \in Elements(t) : \A i \in DOMAIN y.seen : <<y.name, y.owner, y.seen[i]>> \in told'
      BY <1>11, <2>2
    <2>4. QED
      BY <2>3 DEF Told
  <1>14. B = {noted(x) : x \in A}
    BY <1>3
  <1> HIDE DEF noted
  <1>15. B \in SUBSET Entry /\ (alone => Elements(t) = B)
    BY <1>7, <1>11, <1>12, <1>14
  <1>16. r \in Cmds
    BY <1>4, <1>7, <1>8, <1>11, <1>15 DEF Cmds
  <1>17. r.op = "check" /\ r.on = l /\ r.copy = t /\ r.after = B
    BY <1>4
  <1>18. told \subseteq told' /\ (alone' => alone)
    BY <1>5
  <1>19. r.on = "alerts" => Told(r.copy)'
    BY <1>13, <1>17 DEF Told
  <1>20. QED
    BY <1>5, <1>6, <1>10, <1>11, <1>15, <1>16, <1>17, <1>18, <1>19, CommandGoesOn

LEMMA CheckFailsInv ==
  ASSUME UsersInv, NEW c \in Commands, CheckFails(c)
  PROVE  UsersInv'
  <1>1. PICK r : r = [op |-> "check", on |-> cmd[c].on, copy |-> cmd[c].copy, left |-> Tail(cmd[c].left), after |-> cmd[c].after]
    OBVIOUS
  <1>2. /\ cmd[c].op = "check" /\ cmd[c].left # <<>> /\ UNCHANGED <<file, found, told, said, alone>> /\ AtWork(c)
        /\ cmd' = [cmd EXCEPT ![c].left = Tail(@)]
    BY DEF CheckFails, AtWork
  <1>3. cmd' = [cmd EXCEPT ![c] = r]
    <2>1. PICK k : k = cmd[c]
      OBVIOUS
    <2>2. k = [op |-> "check", on |-> cmd[c].on, copy |-> cmd[c].copy, left |-> cmd[c].left, after |-> cmd[c].after]
      BY <1>2, <2>1, AtWorkFacts
    <2>3. [k EXCEPT !.left = Tail(@)] = r
      <3>1. [k EXCEPT !.left = Tail(@)] = [k EXCEPT !.left = Tail(k.left)]
        BY Zenon
      <3>2. k.left = cmd[c].left
        BY <2>2
      <3>3. [k EXCEPT !.left = Tail(cmd[c].left)] = r
        <4>1. PICK z : z = Tail(cmd[c].left)
          OBVIOUS
        <4>2. r = [op |-> "check", on |-> cmd[c].on, copy |-> cmd[c].copy, left |-> z, after |-> cmd[c].after]
          BY <1>1, <4>1, Zenon
        <4>3. [k EXCEPT !.left = z] = r
          BY <2>2, <4>2
        <4>4. QED
          BY <4>1, <4>3, Zenon
      <3>4. QED
        BY <3>1, <3>2, <3>3, Zenon
    <2>4. QED
      BY <1>2, <2>1, <2>3
  <1>4. r \in Cmds
    <2>1. cmd[c].left \in Seq(Entry) /\ cmd[c].left # <<>>
      BY <1>2, AtWorkFacts
    <2>2. Tail(cmd[c].left) \in Seq(Entry)
      BY <2>1
    <2>3. cmd[c].on \in Lists /\ cmd[c].copy \in Seq(Entry) /\ cmd[c].after \subseteq Entry
      BY <1>2, AtWorkFacts
    <2>4. QED
      BY <1>1, <2>2, <2>3 DEF Cmds
  <1>5. NamesDiffer(r.copy) /\ (r.on = "alerts" => Told(r.copy)) /\ (alone => Elements(r.copy) = r.after) /\ r.op = "check"
    BY <1>1, <1>2, AtWorkFacts
  <1>6. r.on = "alerts" => Told(r.copy)'
    BY <1>2, <1>5 DEF Told
  <1>7. QED
    BY <1>2, <1>3, <1>4, <1>5, <1>6, CommandGoesOn

LEMMA CheckDoneInv ==
  ASSUME UsersInv, NEW c \in Commands, CheckDone(c)
  PROVE  UsersInv'
  <1>1. PICK r : r = [op |-> "save", on |-> cmd[c].on, copy |-> cmd[c].copy, left |-> cmd[c].left, after |-> cmd[c].after]
    OBVIOUS
  <1>2. /\ cmd[c].op = "check" /\ UNCHANGED <<file, found, told, said, alone>> /\ AtWork(c)
        /\ cmd' = [cmd EXCEPT ![c].op = "save"]
    BY DEF CheckDone, AtWork
  <1>3. cmd' = [cmd EXCEPT ![c] = r]
    <2>1. PICK k : k = cmd[c]
      OBVIOUS
    <2>2. k = [op |-> "check", on |-> cmd[c].on, copy |-> cmd[c].copy, left |-> cmd[c].left, after |-> cmd[c].after]
      BY <1>2, <2>1, AtWorkFacts
    <2>3. [k EXCEPT !.op = "save"] = r
      BY <1>1, <2>2
    <2>4. QED
      BY <1>2, <2>1, <2>3
  <1>4. r \in Cmds
    BY <1>1, <1>2, AtWorkFacts DEF Cmds
  <1>5. NamesDiffer(r.copy) /\ (r.on = "alerts" => Told(r.copy)) /\ (alone => Elements(r.copy) = r.after) /\ r.op = "save"
    BY <1>1, <1>2, AtWorkFacts
  <1>6. r.on = "alerts" => Told(r.copy)'
    BY <1>2, <1>5 DEF Told
  <1>7. QED
    BY <1>2, <1>3, <1>4, <1>5, <1>6, CommandGoesOn

LEMMA StartRecordInv ==
  ASSUME UsersInv, NEW c \in Commands, NEW n \in Names, StartRecord(c, n)
  PROVE  UsersInv'
  <1>1. PICK s : s = Loaded("insights")
    OBVIOUS
  <1>2. PICK I \in SUBSET DOMAIN s : I = {i \in DOMAIN s : s[i].name = n}
    OBVIOUS
  <1>3. PICK u, r : u = Those(s, I) /\ r = [op |-> "record", on |-> "insights", copy |-> s, left |-> u, after |-> said["insights"]]
    OBVIOUS
  <1>4. StartCommand(c) /\ cmd' = [cmd EXCEPT ![c] = r]
    BY <1>1, <1>2, <1>3 DEF StartRecord
  <1>5. /\ s \in Seq(Entry) /\ NamesDiffer(s) /\ said["insights"] \subseteq Entry
        /\ alone /\ (\A d \in Commands : ~AtWork(d)) => Elements(s) = said["insights"]
    BY <1>1, LoadedFacts DEF Lists
  <1>6. u \in Seq(Entry)
    BY <1>3, <1>5, ThoseFacts
  <1>7. r \in Cmds /\ r.op = "record" /\ r.on = "insights" /\ r.copy = s /\ r.after = said["insights"]
    BY <1>3, <1>5, <1>6 DEF Cmds, Lists
  <1>8. UNCHANGED <<file, found, told, said>> /\ ~AtWork(c) /\ (alone' => alone /\ \A d \in Commands : ~AtWork(d))
        /\ cmd[c].op # "write"
    BY <1>4 DEF StartCommand, AtWork
  <1>9. QED
    BY <1>4, <1>5, <1>7, <1>8, CommandGoesOn

LEMMA RecordOneInv ==
  ASSUME UsersInv, NEW c \in Commands, RecordOne(c)
  PROVE  UsersInv'
  <1>1. PICK n : n = Head(cmd[c].left).name
    OBVIOUS
  <1>2. PICK s, A : s = cmd[c].copy /\ A = cmd[c].after
    OBVIOUS
  <1> DEFINE grown(x) == IF x.name = n THEN [x EXCEPT !.seen = Append(@, found[n])] ELSE x
  <1>3. PICK t, B : t = [i \in DOMAIN s |-> grown(s[i])] /\ B = {grown(x) : x \in A}
    OBVIOUS
  <1>4. PICK r : r = [op |-> "save", on |-> "insights", copy |-> t, left |-> <<>>, after |-> B]
    OBVIOUS
  <1>5. cmd[c].op = "record" /\ UNCHANGED <<file, found, told, said, alone>> /\ AtWork(c)
        /\ Save(c, "insights", t, B)
    BY <1>1, <1>2, <1>3 DEF RecordOne, AtWork
  <1>6. cmd' = [cmd EXCEPT ![c] = r]
    BY <1>4, <1>5 DEF Save
  <1>7. s \in Seq(Entry) /\ A \subseteq Entry /\ NamesDiffer(s) /\ (alone => Elements(s) = A)
    BY <1>2, <1>5, AtWorkFacts
  <1>8. \A x \in Entry : grown(x) \in Entry /\ grown(x).name = x.name
    <2> SUFFICES ASSUME NEW x \in Entry, x.name = n
                 PROVE  [x EXCEPT !.seen = Append(@, found[n])] \in Entry /\ [x EXCEPT !.seen = Append(@, found[n])].name = x.name
      OBVIOUS
    <2>1. PICK q : q = Append(x.seen, found[n])
      OBVIOUS
    <2>2. n \in Names /\ x.seen \in Seq(Answers) /\ found[n] \in Answers
      BY DEF Entry, UsersInv, UserTypes
    <2>3. q \in Seq(Answers)
      BY <2>1, <2>2
    <2>4. [x EXCEPT !.seen = Append(@, found[n])] = [x EXCEPT !.seen = q]
      BY <2>1
    <2>5. QED
      BY <2>3, <2>4, SeenFacts
  <1> HIDE DEF grown
  <1>9. DOMAIN t = DOMAIN s /\ \A i \in DOMAIN s : s[i] \in Entry /\ t[i] = grown(s[i])
    BY <1>3, <1>7
  <1>10. t = [i \in DOMAIN s |-> t[i]] /\ \A i \in DOMAIN s : t[i] \in Entry /\ t[i].name = s[i].name
    BY <1>3, <1>8, <1>9
  <1>11. t \in Seq(Entry) /\ NamesDiffer(t) /\ Elements(t) = {t[i] : i \in DOMAIN s}
    BY <1>7, <1>9, <1>10, MapFacts
  <1>12. Elements(t) = {grown(x) : x \in Elements(s)}
    BY <1>9, <1>11 DEF Elements
  <1>13. B \in SUBSET Entry /\ (alone => Elements(t) = B)
    BY <1>3, <1>7, <1>8, <1>12
  <1>14. r \in Cmds
    BY <1>4, <1>11, <1>13, EmptyList DEF Cmds, Lists
  <1>15. r.op = "save" /\ r.on = "insights" /\ r.copy = t /\ r.after = B
    BY <1>4
  <1>16. QED
    BY <1>5, <1>6, <1>11, <1>13, <1>14, <1>15, CommandGoesOn

LEMMA RecordFailsInv ==
  ASSUME UsersInv, NEW c \in Commands, RecordFails(c)
  PROVE  UsersInv'
  <1>1. cmd[c].op = "record" /\ UNCHANGED <<file, found, told, said, alone>> /\ cmd' = [cmd EXCEPT ![c] = Off]
    BY DEF RecordFails
  <1>2. QED
    BY <1>1, OffFacts, CommandGoesOn

LEMMA KillInv ==
  ASSUME UsersInv, NEW c \in Commands, Kill(c)
  PROVE  UsersInv'
  <1>1. UNCHANGED <<file, found, told, said>> /\ cmd' = [cmd EXCEPT ![c] = Off] /\ (alone' => alone /\ cmd[c].op # "write")
    BY DEF Kill
  <1>2. QED
    BY <1>1, OffFacts, CommandGoesOn

(* The two steps of a write, and the one of a logout.                        *)
LEMMA TruncateInv ==
  ASSUME UsersInv, NEW c \in Commands, Truncate(c)
  PROVE  UsersInv'
  <1>1. PICK l : l = cmd[c].on
    OBVIOUS
  <1>2. cmd[c].op = "save" /\ AtWork(c) /\ file' = [file EXCEPT ![l] = Damaged]
        /\ cmd' = [cmd EXCEPT ![c].op = "write"] /\ UNCHANGED <<found, told, said, alone>>
    BY <1>1 DEF Truncate, AtWork
  <1>3. cmd[c] \in Cmds /\ l \in Lists /\ cmd \in [Commands -> Cmds] /\ DOMAIN file = Lists
    BY <1>1, <1>2, AtWorkFacts DEF UsersInv, UserTypes
  <1>4. DOMAIN file' = Lists /\ file'[l] = Damaged /\ \A k \in Lists \ {l} : file'[k] = file[k]
    BY <1>2, <1>3
  <1>5. cmd'[c] = [cmd[c] EXCEPT !.op = "write"] /\ \A d \in Commands \ {c} : cmd'[d] = cmd[d]
    BY <1>2, <1>3
  <1>6. cmd'[c] \in Cmds /\ cmd'[c].op = "write" /\ cmd'[c].on = l /\ cmd'[c].copy = cmd[c].copy /\ cmd'[c].after = cmd[c].after
    BY <1>1, <1>3, <1>5 DEF Cmds
  <1>7. cmd' \in [Commands -> Cmds]
    BY <1>2, <1>3, <1>5, <1>6
  <1>8. \A d \in Commands : /\ AtWork(d)' <=> AtWork(d)
                            /\ cmd'[d].on = cmd[d].on /\ cmd'[d].copy = cmd[d].copy /\ cmd'[d].after = cmd[d].after
    BY <1>1, <1>2, <1>5, <1>6 DEF AtWork
  <1>9. UserTypes'
    BY <1>2, <1>4, <1>7, <1>8 DEF UsersInv, UserTypes, NamesDiffer
  <1>10. AllTold'
    <2>1. file'["alerts"] # Damaged => file'["alerts"] = file["alerts"]
      BY <1>4 DEF Lists
    <2>2. QED
      BY <1>2, <1>8, <2>1 DEF UsersInv, AllTold, Told
  <1>11. ASSUME alone' PROVE OneByOne'
    <2>1. OneByOne
      BY <1>2, <1>11 DEF UsersInv
    <2>2. ASSUME NEW k \in Lists PROVE Writing(k)' \/ (file'[k] # Damaged /\ Elements(file'[k]) = said'[k])
      <3>1. CASE k = l
        BY <1>6, <3>1 DEF Writing
      <3>2. CASE k # l
        <4>1. ~Writing(k)
          BY <1>2, <2>1 DEF OneByOne, Writing, AtWork
        <4>2. QED
          BY <1>2, <1>4, <2>1, <3>2, <4>1 DEF OneByOne
      <3>3. QED
        BY <3>1, <3>2
    <2>3. QED
      BY <1>8, <2>1, <2>2 DEF OneByOne
  <1>12. QED
    BY <1>9, <1>10, <1>11 DEF UsersInv

LEMMA WriteInv ==
  ASSUME UsersInv, NEW c \in Commands, Write(c)
  PROVE  UsersInv'
  <1>1. PICK l, s, A : l = cmd[c].on /\ s = cmd[c].copy /\ A = cmd[c].after
    OBVIOUS
  <1>2. cmd[c].op = "write" /\ AtWork(c) /\ file' = [file EXCEPT ![l] = s] /\ said' = [said EXCEPT ![l] = A]
        /\ cmd' = [cmd EXCEPT ![c] = Off] /\ UNCHANGED <<found, told, alone>>
    BY <1>1 DEF Write, AtWork
  <1>3. /\ l \in Lists /\ s \in Seq(Entry) /\ A \subseteq Entry /\ cmd \in [Commands -> Cmds]
        /\ NamesDiffer(s) /\ (l = "alerts" => Told(s)) /\ (alone => Elements(s) = A)
    BY <1>1, <1>2, AtWorkFacts
  <1>4. DOMAIN file = Lists /\ said \in [Lists -> SUBSET Entry]
    BY DEF UsersInv, UserTypes
  <1>5. DOMAIN file' = Lists /\ file'[l] = s /\ \A k \in Lists \ {l} : file'[k] = file[k]
    BY <1>2, <1>3, <1>4
  <1>6. said' \in [Lists -> SUBSET Entry] /\ said'[l] = A /\ \A k \in Lists \ {l} : said'[k] = said[k]
    BY <1>2, <1>3, <1>4
  <1>7. cmd' \in [Commands -> Cmds] /\ cmd'[c] = Off /\ \A d \in Commands \ {c} : cmd'[d] = cmd[d]
    BY <1>2, <1>3, OffFacts
  <1>8. \A d \in Commands : AtWork(d)' => d # c /\ AtWork(d) /\ cmd'[d] = cmd[d]
    BY <1>7, OffFacts DEF AtWork
  <1>9. s # Damaged
    BY <1>3, ListNotDamaged
  <1>10. UserTypes'
    <2>1. \A k \in Lists : file'[k] # Damaged => file'[k] \in Seq(Entry) /\ NamesDiffer(file'[k])
      BY <1>3, <1>5 DEF UsersInv, UserTypes
    <2>2. \A d \in Commands : AtWork(d)' => NamesDiffer(cmd'[d].copy)
      BY <1>8 DEF UsersInv, UserTypes
    <2>3. QED
      BY <1>2, <1>5, <1>6, <1>7, <2>1, <2>2 DEF UsersInv, UserTypes, NamesDiffer
  <1>11. AllTold'
    <2>1. file'["alerts"] # Damaged => Told(file'["alerts"])
      BY <1>3, <1>5 DEF UsersInv, AllTold, Lists
    <2>2. \A d \in Commands : AtWork(d)' /\ cmd'[d].on = "alerts" => Told(cmd'[d].copy)
      BY <1>8 DEF UsersInv, AllTold
    <2>3. QED
      BY <1>2, <2>1, <2>2 DEF AllTold, Told
  <1>12. ASSUME alone' PROVE OneByOne'
    <2>1. OneByOne /\ Elements(s) = A
      BY <1>2, <1>3, <1>12 DEF UsersInv
    <2>2. \A d \in Commands : ~AtWork(d)'
      BY <1>2, <1>8, <2>1 DEF OneByOne
    <2>3. ASSUME NEW k \in Lists PROVE file'[k] # Damaged /\ Elements(file'[k]) = said'[k]
      <3>1. CASE k = l
        BY <1>5, <1>6, <1>9, <2>1, <3>1
      <3>2. CASE k # l
        <4>1. ~Writing(k)
          BY <1>1, <1>2, <2>1, <3>2 DEF OneByOne, Writing, AtWork
        <4>2. QED
          BY <1>5, <1>6, <2>1, <3>2, <4>1 DEF OneByOne
      <3>3. QED
        BY <3>1, <3>2
    <2>4. QED
      BY <2>2, <2>3 DEF OneByOne, Elements
  <1>13. QED
    BY <1>10, <1>11, <1>12 DEF UsersInv

LEMMA LogoutInv ==
  ASSUME UsersInv, NEW c \in Commands, Logout(c)
  PROVE  UsersInv'
  <1>1. PICK s : s = <<>>
    OBVIOUS
  <1>2. /\ ~AtWork(c) /\ file' = [file EXCEPT !["login"] = s] /\ said' = [said EXCEPT !["login"] = {}]
        /\ UNCHANGED <<found, cmd, told>> /\ alone' = (alone /\ \A d \in Commands : ~AtWork(d))
    BY <1>1 DEF Logout, AtWork
  <1>3. s \in Seq(Entry) /\ NamesDiffer(s) /\ Elements(s) = {} /\ s # Damaged
    BY <1>1, EmptyList, ListNotDamaged
  <1>4. DOMAIN file = Lists /\ said \in [Lists -> SUBSET Entry] /\ "login" \in Lists /\ "alerts" # "login"
    BY DEF UsersInv, UserTypes, Lists
  <1>5. DOMAIN file' = Lists /\ file'["login"] = s /\ \A k \in Lists \ {"login"} : file'[k] = file[k]
    BY <1>2, <1>4
  <1>6. said' \in [Lists -> SUBSET Entry] /\ said'["login"] = {} /\ \A k \in Lists \ {"login"} : said'[k] = said[k]
    BY <1>2, <1>4
  <1>7. UserTypes'
    <2>1. \A k \in Lists : file'[k] # Damaged => file'[k] \in Seq(Entry) /\ NamesDiffer(file'[k])
      BY <1>3, <1>5 DEF UsersInv, UserTypes
    <2>2. QED
      BY <1>2, <1>5, <1>6, <2>1 DEF UsersInv, UserTypes, NamesDiffer, AtWork
  <1>8. AllTold'
    <2>1. file'["alerts"] = file["alerts"]
      BY <1>4, <1>5 DEF Lists
    <2>2. QED
      BY <1>2, <2>1 DEF UsersInv, AllTold, Told, AtWork
  <1>9. ASSUME alone' PROVE OneByOne'
    <2>1. OneByOne /\ \A d \in Commands : ~AtWork(d)
      BY <1>2, <1>9 DEF UsersInv
    <2>2. \A k \in Lists : file[k] # Damaged /\ Elements(file[k]) = said[k]
      BY <2>1 DEF OneByOne, Writing, AtWork
    <2>3. \A k \in Lists : file'[k] # Damaged /\ Elements(file'[k]) = said'[k]
      BY <1>3, <1>5, <1>6, <2>2
    <2>4. \A d \in Commands : ~AtWork(d)'
      BY <1>2, <2>1 DEF AtWork
    <2>5. QED
      BY <2>3, <2>4 DEF OneByOne, Elements
  <1>10. QED
    BY <1>7, <1>8, <1>9 DEF UsersInv

LEMMA NothingMoves ==
  ASSUME UsersInv, found' \in [Names -> Answers], UNCHANGED <<file, cmd, told, said, alone>>
  PROVE  UsersInv'
  <1>1. UserTypes'
    BY DEF UsersInv, UserTypes, NamesDiffer, AtWork
  <1>2. AllTold'
    BY DEF UsersInv, AllTold, Told, AtWork
  <1>3. (alone => OneByOne)'
    BY DEF UsersInv, OneByOne, Writing, AtWork, Elements
  <1>4. QED
    BY <1>1, <1>2, <1>3 DEF UsersInv

LEMMA FlipInv ==
  ASSUME UsersInv, NEW n \in Names, NEW a \in Answers, Flip(n, a)
  PROVE  UsersInv'
  <1>1. found' \in [Names -> Answers] /\ UNCHANGED <<file, cmd, told, said, alone>>
    BY DEF Flip, UsersInv, UserTypes
  <1>2. QED
    BY <1>1, NothingMoves

LEMMA UsersStep == UsersInv /\ [UsersNext]_uvars => UsersInv'
  <1> SUFFICES ASSUME UsersInv, [UsersNext]_uvars PROVE UsersInv'
    OBVIOUS
  <1>1. ASSUME NEW c \in Commands, NEW n \in Names, DeleteAlert(c, n) \/ UnsetKey(c, n) \/ StartRecord(c, n)
        PROVE  UsersInv'
    BY <1>1, DeleteAlertInv, UnsetKeyInv, StartRecordInv
  <1>2. ASSUME NEW c \in Commands, NEW n \in Names, NEW o \in Owners,
               Create(c, "alerts", n, o) \/ Create(c, "insights", n, o)
        PROVE  UsersInv'
    BY <1>2, CreateInv
  <1>3. ASSUME NEW c \in Commands, NEW n \in Names, NEW v \in Answers, SetKey(c, n, v) \/ Login(c, n, v)
        PROVE  UsersInv'
    BY <1>3, SetKeyInv, LoginInv
  <1>4. ASSUME NEW c \in Commands, StartCheck(c, Owners) \/ \E o \in Owners : StartCheck(c, {o})
        PROVE  UsersInv'
    BY <1>4, StartCheckInv
  <1>5. ASSUME NEW c \in Commands, CheckOne(c) \/ CheckFails(c) \/ CheckDone(c) PROVE UsersInv'
    BY <1>5, CheckOneInv, CheckFailsInv, CheckDoneInv
  <1>6. ASSUME NEW c \in Commands, RecordOne(c) \/ RecordFails(c) PROVE UsersInv'
    BY <1>6, RecordOneInv, RecordFailsInv
  <1>7. ASSUME NEW c \in Commands, Truncate(c) \/ Write(c) \/ Kill(c) \/ Logout(c) PROVE UsersInv'
    BY <1>7, TruncateInv, WriteInv, KillInv, LogoutInv
  <1>8. ASSUME NEW n \in Names, NEW a \in Answers, Flip(n, a) PROVE UsersInv'
    BY <1>8, FlipInv
  <1>9. CASE UNCHANGED uvars
    <2>1. found' \in [Names -> Answers] /\ UNCHANGED <<file, cmd, told, said, alone>>
      BY <1>9 DEF uvars, UsersInv, UserTypes
    <2>2. QED
      BY <2>1, NothingMoves
  <1>10. QED
    BY <1>1, <1>2, <1>3, <1>4, <1>5, <1>6, <1>7, <1>8, <1>9 DEF UsersNext

LEMMA UsersInvHolds == UsersInv => ListsHonest
  <1> SUFFICES ASSUME UsersInv PROVE ListsHonest
    OBVIOUS
  <1>1. BaselineWasTold
    BY DEF UsersInv, AllTold, Told, BaselineWasTold
  <1>2. ASSUME alone, \A c \in Commands : cmd[c].op = "none", NEW l \in Lists
        PROVE  file[l] # Damaged /\ Elements(file[l]) = said[l] /\ NamesDiffer(file[l])
    BY <1>2 DEF UsersInv, OneByOne, Writing, UserTypes
  <1>3. AsTold
    BY <1>2 DEF AsTold, NamesDiffer
  <1>4. QED
    BY <1>1, <1>3 DEF ListsHonest

\* Of the searches to watch, the counts, the settings and the login
\* (cmd/semidx/alerts.go and insights.go, internal/config/config.go,
\* internal/clientconfig), with any number of commands side by side and killed at
\* any step: the answer `alerts check` compares with is one it has printed, and as
\* long as commands follow one another and none is killed in a write, every list
\* holds, each name once, what the commands said.
THEOREM ListsAreHonest == UsersSpec => []ListsHonest
  <1>1. UsersInit => UsersInv
    BY UsersStart
  <1>2. UsersInv /\ [UsersNext]_uvars => UsersInv'
    BY UsersStep
  <1>3. UsersInv => ListsHonest
    BY UsersInvHolds
  <1>4. QED
    BY <1>1, <1>2, <1>3, PTL DEF UsersSpec

------------------------------------------------------------------------------
(* A migration                                                               *)

Passages == UNION {TextsOf(v) : v \in Vers}

OnePath(vs) == \A v, w \in vs : v[1] = w[1] => v = w

(* ORDER BY path, chunk_index: a path is in one piece, its chunks in order.  *)
InOrder(list) ==
  /\ \A i, j \in DOMAIN list : list[i] = list[j] => i = j
  /\ \A i, j \in DOMAIN list : list[i][1][1] = list[j][1][1] /\ list[i][2] < list[j][2] => i < j
  /\ \A i, j, k \in DOMAIN list : i < j /\ j < k /\ list[i][1][1] = list[k][1][1] => list[j][1][1] = list[i][1][1]

(* Of a version whose rows are still to come, all are.                       *)
Uncut(list, vs) ==
  \A i \in DOMAIN list :
    /\ list[i][1] \in vs /\ list[i] \in TextsOf(list[i][1])
    /\ \A t \in TextsOf(list[i][1]) : \E j \in DOMAIN list : list[j] = t

ToCome(list, v) == \E i \in DOMAIN list : list[i][1] = v
InTarget(v) == \A t \in TextsOf(v) : \E r \in dst : r.text = t
FullGroup(v) == [i \in 1 .. Chunks[v] |-> <<v, i - 1>>]

MigrateTypes ==
  /\ src \subseteq Vers /\ IsFiniteSet(src) /\ OnePath(src)
  /\ due \subseteq Vers /\ OnePath(due) /\ fresh \subseteq Vers
  /\ run \in [st : {"idle", "group", "chunks"}, rows : Seq(Passages), group : Seq(Passages)]

TargetSound ==
  /\ \A r \in dst : r.text = <<r.ver, r.index>> /\ (r.vector <=> r.ver \notin Sensitive)
  /\ \A v \in fresh : InTarget(v)

RunSound ==
  run.st # "idle" =>
    /\ InOrder(run.rows) /\ Uncut(run.rows, due)
    /\ run.st = "chunks" => \E v \in due : run.group = FullGroup(v)
    /\ \A v \in due : InTarget(v) \/ ToCome(run.rows, v) \/ (run.st = "chunks" /\ run.group = FullGroup(v))

MigrateInv == MigrateTypes /\ TargetSound /\ RunSound

LEMMA LeastNumber ==
  ASSUME NEW S \in SUBSET Nat, S # {}
  PROVE  \E k \in S : \A j \in S : k <= j
  <1> DEFINE R == OpToRel(<, Nat)
  <1>1. IsWellFoundedOn(R, Nat)
    BY NatLessThanWellFounded
  <1>2. \A x, y \in Nat : y < x => <<y, x>> \in R
    <2> SUFFICES ASSUME NEW x \in Nat, NEW y \in Nat, y < x PROVE <<y, x>> \in R
      OBVIOUS
    <2> DEFINE t == <<y, x>>
    <2>1. t \in Nat \X Nat /\ t[1] < t[2]
      OBVIOUS
    <2>2. QED
      BY <2>1, Zenon DEF OpToRel
  <1> HIDE DEF R
  <1>3. PICK x \in S : \A y \in S : ~ (<<y, x>> \in R)
    BY <1>1, WFMin
  <1>4. ASSUME NEW y \in S PROVE x <= y
    <2>1. x \in Nat /\ y \in Nat
      OBVIOUS
    <2>2. ~ (y < x)
      BY <1>2, <1>3, <2>1, Zenon
    <2>3. QED
      BY <2>1, <2>2
  <1>5. QED
    BY <1>4

LEMMA TextFacts ==
  ASSUME NEW v \in Vers
  PROVE  /\ Chunks[v] \in Nat \ {0} /\ TextsOf(v) \subseteq Passages
         /\ \A t \in TextsOf(v) : t[1] = v /\ t[2] \in 0 .. Chunks[v] - 1 /\ t = <<v, t[2]>>
         /\ \A i \in 0 .. Chunks[v] - 1 : <<v, i>> \in TextsOf(v) /\ <<v, i>>[1] = v /\ <<v, i>>[2] = i
  <1>1. Chunks[v] \in Nat \ {0}
    BY ChunksAssumption
  <1>2. TextsOf(v) \subseteq Passages
    BY DEF Passages
  <1>3. \A t \in TextsOf(v) : t[1] = v /\ t[2] \in 0 .. Chunks[v] - 1 /\ t = <<v, t[2]>>
    BY DEF TextsOf
  <1>4. \A i \in 0 .. Chunks[v] - 1 : <<v, i>> \in TextsOf(v)
    BY DEF TextsOf
  <1>5. QED
    BY <1>1, <1>2, <1>3, <1>4

LEMMA PassageFacts ==
  ASSUME NEW t \in Passages
  PROVE  t[1] \in Vers /\ t[1][1] \in Files /\ t[2] \in Nat /\ t \in TextsOf(t[1])
  <1>1. PICK v \in Vers : t \in TextsOf(v)
    BY DEF Passages
  <1>2. t[1] = v /\ t[2] \in 0 .. Chunks[v] - 1 /\ Chunks[v] \in Nat
    BY <1>1, TextFacts
  <1>3. v[1] \in Files
    BY DEF Vers
  <1>4. QED
    BY <1>1, <1>2, <1>3

LEMMA FiniteTexts ==
  ASSUME NEW vs \in SUBSET Vers, IsFiniteSet(vs)
  PROVE  IsFiniteSet(UNION {TextsOf(v) : v \in vs})
  <1>1. ASSUME NEW v \in vs PROVE IsFiniteSet(TextsOf(v))
    <2> DEFINE f == [i \in 0 .. Chunks[v] - 1 |-> <<v, i>>]
    <2>1. Chunks[v] \in Nat /\ IsFiniteSet(0 .. Chunks[v] - 1)
      BY TextFacts, FS_Interval
    <2>2. f \in Surjection(0 .. Chunks[v] - 1, TextsOf(v))
      BY DEF Surjection, TextsOf
    <2>3. QED
      BY <2>1, <2>2, FS_Surjection
  <1> DEFINE F == {TextsOf(v) : v \in vs}
             g == [v \in vs |-> TextsOf(v)]
  <1>2. g \in Surjection(vs, F)
    BY Zenon DEF Surjection
  <1> HIDE DEF g, F
  <1>3. IsFiniteSet(F)
    BY <1>2, FS_Surjection
  <1>4. \A T \in F : IsFiniteSet(T)
    BY <1>1 DEF F
  <1>5. IsFiniteSet(UNION F)
    BY <1>3, <1>4, FS_UNION
  <1>6. QED
    BY <1>5 DEF F

\* What an export lists.
LEMMA ExportFacts ==
  ASSUME NEW vs \in SUBSET Vers, IsFiniteSet(vs), NEW list \in Exports(vs)
  PROVE  list \in Seq(Passages) /\ InOrder(list) /\ Uncut(list, vs) /\ \A v \in vs : ToCome(list, v)
  <1>1. PICK X : X = UNION {TextsOf(v) : v \in vs}
    OBVIOUS
  <1>2. PICK n : n = Cardinality(X)
    OBVIOUS
  <1>3. IsFiniteSet(X) /\ n \in Nat
    BY <1>1, <1>2, FiniteTexts, FS_CardinalityType
  <1>4. /\ list \in [1 .. n -> X]
        /\ \A i, j \in 1 .. n : list[i] = list[j] => i = j
        /\ \A i, j \in 1 .. n : list[i][1][1] = list[j][1][1] /\ list[i][2] < list[j][2] => i < j
        /\ \A i, j, k \in 1 .. n : (i < j /\ j < k /\ list[i][1][1] = list[k][1][1]) => list[j][1][1] = list[i][1][1]
    BY <1>1, <1>2 DEF Exports
  <1>5. DOMAIN list = 1 .. n
    BY <1>4
  <1>6. \A t \in X : t \in Passages /\ t[1] \in vs /\ t \in TextsOf(t[1])
    <2> SUFFICES ASSUME NEW v \in vs, NEW t \in TextsOf(v) PROVE t \in Passages /\ t[1] = v
      BY <1>1
    <2>1. QED
      BY TextFacts
  <1>7. \A v \in vs : TextsOf(v) \subseteq X
    BY <1>1
  <1>8. list \in Seq(Passages)
    <2>1. list \in [1 .. n -> Passages]
      BY <1>4, <1>6
    <2>2. QED
      BY <1>3, <2>1
  <1>9. \A t \in X : \E i \in 1 .. n : list[i] = t
    <2>1. IsFiniteSet(1 .. n) /\ Cardinality(1 .. n) = n
      BY <1>3, FS_Interval
    <2>2. list \in Injection(1 .. n, X)
      BY <1>4, Zenon DEF Injection, IsInjective
    <2>3. list \in Surjection(1 .. n, X)
      BY <1>2, <1>3, <2>1, <2>2, FS_Injection
    <2>4. QED
      BY <2>3, Zenon DEF Surjection
  <1>10. InOrder(list)
    BY <1>4, <1>5 DEF InOrder
  <1>11. Uncut(list, vs)
    BY <1>4, <1>5, <1>6, <1>7, <1>9 DEF Uncut
  <1>12. ASSUME NEW v \in vs PROVE ToCome(list, v)
    <2>1. <<v, 0>> \in TextsOf(v) /\ <<v, 0>>[1] = v
      BY TextFacts
    <2>2. QED
      BY <1>5, <1>7, <1>9, <2>1 DEF ToCome
  <1>13. QED
    BY <1>8, <1>10, <1>11, <1>12

\* The rows in front that share the path of the first.
LEMMA PrefixFacts ==
  ASSUME NEW list \in Seq(Passages), list # <<>>, InOrder(list)
  PROVE  \E n \in 1 .. Len(list) : /\ Prefix(list) = SubSeq(list, 1, n)
                                   /\ \A i \in 1 .. Len(list) : list[i][1][1] = list[1][1][1] <=> i <= n
  <1>1. DOMAIN list = 1 .. Len(list) /\ Len(list) \in Nat \ {0}
    OBVIOUS
  <1>2. PICK own : own = [i \in 1 .. Len(list) |-> list[i][1][1]]
    OBVIOUS
  <1>3. \A i, j, k \in 1 .. Len(list) : i < j /\ j < k /\ own[i] = own[k] => own[j] = own[i]
    BY <1>1, <1>2 DEF InOrder
  <1> DEFINE Over == {k \in 1 .. Len(list) : \A j \in 1 .. Len(list) : j > k => own[j] # own[1]}
  <1>4. PICK n \in Over : \A k \in Over : n <= k
    <2>1. Over \subseteq Nat /\ Len(list) \in Over
      BY <1>1
    <2> HIDE DEF Over
    <2>2. QED
      BY <2>1, LeastNumber
  <1>5. n \in 1 .. Len(list) /\ \A j \in 1 .. Len(list) : j > n => own[j] # own[1]
    BY <1>4
  <1>6. own[n] = own[1]
    <2> SUFFICES ASSUME own[n] # own[1] PROVE FALSE
      OBVIOUS
    <2>1. n - 1 \in 1 .. Len(list)
      BY <1>5
    <2>2. \A j \in 1 .. Len(list) : j > n - 1 => own[j] # own[1]
      BY <1>5
    <2>3. n - 1 \in Over
      BY <2>1, <2>2
    <2> HIDE DEF Over
    <2>4. n <= n - 1
      BY <1>4, <2>3
    <2>5. QED
      BY <1>5, <2>4
  <1> HIDE DEF Over
  <1>7. ASSUME NEW i \in 1 .. Len(list) PROVE own[i] = own[1] <=> i <= n
    <2>1. CASE i > n
      BY <1>5, <2>1
    <2>2. CASE i = n \/ i = 1
      BY <1>5, <1>6, <2>2
    <2>3. CASE 1 < i /\ i < n
      <3>1. 1 \in 1 .. Len(list)
        BY <1>1
      <3>2. QED
        BY <1>3, <1>5, <1>6, <2>3, <3>1
    <2>4. QED
      BY <1>5, <2>1, <2>2, <2>3
  <1> DEFINE Front(k) == /\ \A i \in 1 .. k : list[i][1][1] = list[1][1][1]
                         /\ k < Len(list) => list[k + 1][1][1] # list[1][1][1]
  <1>8. \A i \in 1 .. Len(list) : own[i] = list[i][1][1]
    BY <1>2
  <1>9. 1 \in 1 .. Len(list) /\ own[1] = list[1][1][1]
    BY <1>1, <1>8
  <1>10. Front(n)
    <2>1. ASSUME NEW i \in 1 .. n PROVE list[i][1][1] = list[1][1][1]
      <3>1. i \in 1 .. Len(list) /\ i <= n
        BY <1>5
      <3>2. QED
        BY <1>7, <1>8, <1>9, <3>1
    <2>2. ASSUME n < Len(list) PROVE list[n + 1][1][1] # list[1][1][1]
      <3>1. n + 1 \in 1 .. Len(list) /\ ~(n + 1 <= n)
        BY <1>5, <2>2
      <3>2. QED
        BY <1>7, <1>8, <1>9, <3>1
    <2>3. QED
      BY <2>1, <2>2
  <1>11. ASSUME NEW k \in 1 .. Len(list), Front(k) PROVE k = n
    <2>1. k <= n
      <3>1. k \in 1 .. k
        OBVIOUS
      <3>2. QED
        BY <1>7, <1>8, <1>9, <1>11, <3>1
    <2>2. ~(k < n)
      <3> SUFFICES ASSUME k < n PROVE FALSE
        OBVIOUS
      <3>1. k + 1 \in 1 .. Len(list) /\ k + 1 <= n /\ k < Len(list)
        BY <1>5
      <3>2. QED
        BY <1>7, <1>8, <1>9, <1>11, <3>1
    <2>3. QED
      BY <1>5, <2>1, <2>2
  <1> HIDE DEF Front
  <1>12. (CHOOSE k \in 1 .. Len(list) : Front(k)) = n
    BY <1>5, <1>10, <1>11
  <1>13. Prefix(list) = SubSeq(list, 1, n)
    BY <1>12 DEF Prefix, Front
  <1>14. QED
    BY <1>5, <1>7, <1>8, <1>9, <1>13

\* Where a path has one version, the rows in front are that version's chunks, all of them.
LEMMA GroupIsFile ==
  ASSUME NEW vs \in SUBSET Vers, OnePath(vs), NEW list \in Seq(Passages), list # <<>>, InOrder(list), Uncut(list, vs)
  PROVE  \E v \in vs : /\ Prefix(list) = FullGroup(v) /\ Chunks[v] \in 1 .. Len(list)
                       /\ \A i \in 1 .. Len(list) : list[i][1] = v <=> i <= Chunks[v]
  <1>1. PICK n \in 1 .. Len(list) : /\ Prefix(list) = SubSeq(list, 1, n)
                                    /\ \A i \in 1 .. Len(list) : list[i][1][1] = list[1][1][1] <=> i <= n
    BY PrefixFacts
  <1>2. PICK v : v = list[1][1]
    OBVIOUS
  <1>3. DOMAIN list = 1 .. Len(list) /\ Len(list) \in Nat \ {0} /\ 1 \in 1 .. Len(list)
    OBVIOUS
  <1>4. v \in vs /\ v \in Vers
    BY <1>2, <1>3 DEF Uncut
  <1>5. ASSUME NEW i \in 1 .. Len(list) PROVE list[i][1] = v <=> i <= n
    <2>1. list[i][1] \in vs
      BY <1>3 DEF Uncut
    <2>2. list[i][1][1] = v[1] <=> list[i][1] = v
      BY <1>4, <2>1 DEF OnePath
    <2>3. QED
      BY <1>1, <1>2, <2>2
  <1> DEFINE C == Chunks[v]
             at == [i \in 1 .. n |-> list[i][2]]
  <1>6. C \in Nat \ {0}
    BY <1>4, TextFacts
  <1>7. ASSUME NEW i \in 1 .. n PROVE at[i] \in 0 .. C - 1 /\ list[i] = <<v, at[i]>>
    <2>1. i \in 1 .. Len(list) /\ i <= n
      BY <1>1
    <2>2. list[i][1] = v /\ list[i] \in TextsOf(v)
      BY <1>3, <1>5, <2>1 DEF Uncut
    <2>3. QED
      BY <1>4, <2>2, TextFacts
  <1>8. \A i, j \in 1 .. n : i < j => at[i] < at[j]
    <2> SUFFICES ASSUME NEW i \in 1 .. n, NEW j \in 1 .. n, i < j PROVE at[i] < at[j]
      OBVIOUS
    <2>1. i \in DOMAIN list /\ j \in DOMAIN list /\ i # j
      BY <1>1, <1>3
    <2>2. list[i] # list[j]
      BY <2>1 DEF InOrder
    <2>3. at[i] # at[j]
      BY <1>7, <2>2
    <2>4. list[i][1][1] = list[j][1][1]
      BY <1>1, <2>1, <1>3
    <2>5. ~(at[j] < at[i])
      BY <2>1, <2>4 DEF InOrder
    <2>6. at[i] \in Int /\ at[j] \in Int
      BY <1>7
    <2> HIDE DEF at
    <2>7. QED
      BY <2>3, <2>5, <2>6
  <1>9. \A k \in 0 .. C - 1 : \E j \in 1 .. n : at[j] = k
    <2> SUFFICES ASSUME NEW k \in 0 .. C - 1 PROVE \E j \in 1 .. n : at[j] = k
      OBVIOUS
    <2>1. <<v, k>> \in TextsOf(v) /\ <<v, k>>[1] = v /\ <<v, k>>[2] = k
      BY <1>4, TextFacts
    <2>2. PICK j \in 1 .. Len(list) : list[j] = <<v, k>>
      BY <1>2, <1>3, <2>1 DEF Uncut
    <2>3. j \in 1 .. n
      BY <1>1, <1>5, <2>1, <2>2
    <2>4. QED
      BY <2>1, <2>2, <2>3
  <1>10. at \in [1 .. n -> 0 .. C - 1]
    BY <1>7
  <1> HIDE DEF at, C
  <1>11. \A i \in 1 .. n : at[i] = i - 1
    <2> SUFFICES ASSUME \E i \in 1 .. n : at[i] # i - 1 PROVE FALSE
      OBVIOUS
    <2>1. PICK i \in {k \in 1 .. n : at[k] # k - 1} : \A j \in {k \in 1 .. n : at[k] # k - 1} : i <= j
      <3>1. {k \in 1 .. n : at[k] # k - 1} \subseteq Nat
        OBVIOUS
      <3>2. QED
        BY <3>1, LeastNumber
    <2>2. i \in 1 .. n /\ at[i] # i - 1 /\ \A j \in 1 .. n : j < i => at[j] = j - 1
      BY <2>1
    <2>3. at[i] > i - 1
      <3>1. CASE i = 1
        BY <1>6, <1>10, <2>2, <3>1
      <3>2. CASE i # 1
        <4>1. i - 1 \in 1 .. n /\ i - 1 < i
          BY <2>2, <3>2
        <4>2. at[i - 1] = i - 2 /\ at[i - 1] < at[i]
          BY <1>8, <2>2, <4>1
        <4>3. QED
          BY <1>6, <1>10, <2>2, <4>2
      <3>3. QED
        BY <3>1, <3>2
    <2>4. i - 1 \in 0 .. C - 1
      BY <1>6, <1>10, <2>2, <2>3
    <2>5. PICK j \in 1 .. n : at[j] = i - 1
      BY <1>9, <2>4
    <2>6. ~(j < i)
      BY <2>2, <2>5
    <2>7. ~(i < j)
      BY <1>6, <1>8, <1>10, <2>2, <2>3, <2>5
    <2>8. QED
      BY <2>2, <2>5, <2>6, <2>7
  <1>12. n = C
    <2>1. n - 1 <= C - 1
      <3>1. n \in 1 .. n
        BY <1>1
      <3>2. QED
        BY <1>6, <1>10, <1>11, <3>1
    <2>2. PICK j \in 1 .. n : at[j] = C - 1
      BY <1>6, <1>9
    <2>3. QED
      BY <1>1, <1>6, <1>11, <2>1, <2>2
  <1>13. Prefix(list) = FullGroup(v)
    <2>1. SubSeq(list, 1, n) = [i \in 1 .. n |-> list[i]]
      BY <1>1
    <2>2. \A i \in 1 .. n : list[i] = <<v, i - 1>>
      BY <1>7, <1>11
    <2>3. QED
      BY <1>1, <1>12, <2>1, <2>2 DEF FullGroup, C
  <1>14. QED
    BY <1>1, <1>4, <1>5, <1>12, <1>13 DEF C

LEMMA GroupFacts ==
  ASSUME NEW v \in Vers
  PROVE  /\ FullGroup(v) \in Seq(Passages) /\ Len(FullGroup(v)) = Chunks[v] /\ FullGroup(v)[1] = <<v, 0>>
         /\ HeadFile(FullGroup(v)) = v
         /\ DOMAIN FullGroup(v) = 1 .. Chunks[v] /\ \A i \in 1 .. Chunks[v] : FullGroup(v)[i] = <<v, i - 1>>
  <1>1. Chunks[v] \in Nat \ {0} /\ TextsOf(v) \subseteq Passages
        /\ \A i \in 0 .. Chunks[v] - 1 : <<v, i>> \in TextsOf(v) /\ <<v, i>>[1] = v
    BY TextFacts
  <1>2. \A i \in 1 .. Chunks[v] : <<v, i - 1>> \in Passages
    <2> SUFFICES ASSUME NEW i \in 1 .. Chunks[v] PROVE <<v, i - 1>> \in Passages
      OBVIOUS
    <2>1. i - 1 \in 0 .. Chunks[v] - 1
      BY <1>1
    <2>2. QED
      BY <1>1, <2>1
  <1>3. FullGroup(v) \in Seq(Passages) /\ Len(FullGroup(v)) = Chunks[v]
    BY <1>1, <1>2 DEF FullGroup
  <1>4. FullGroup(v)[1] = <<v, 0>>
    BY <1>1 DEF FullGroup
  <1>5. HeadFile(FullGroup(v)) = v
    BY <1>4 DEF HeadFile
  <1>6. QED
    BY <1>3, <1>4, <1>5 DEF FullGroup

LEMMA BehindFacts ==
  ASSUME NEW list \in Seq(Passages), NEW n \in 1 .. Len(list)
  PROVE  LET rest == SubSeq(list, n + 1, Len(list)) IN
         /\ rest \in Seq(Passages) /\ Len(rest) = Len(list) - n
         /\ \A i \in 1 .. Len(rest) : rest[i] = list[n + i]
  <1>1. \A a \in 1 .. Len(list) + 1 : /\ SubSeq(list, a, Len(list)) \in Seq(Passages)
                                      /\ Len(SubSeq(list, a, Len(list))) = Len(list) - a + 1
                                      /\ \A i \in 1 .. Len(list) - a + 1 : SubSeq(list, a, Len(list))[i] = list[a + i - 1]
    OBVIOUS
  <1>2. n + 1 \in 1 .. Len(list) + 1
    OBVIOUS
  <1>3. QED
    BY <1>1, <1>2

\* The rows behind the first version's.
LEMMA RestFacts ==
  ASSUME NEW vs, NEW list \in Seq(Passages), InOrder(list), Uncut(list, vs), NEW v, NEW n \in 1 .. Len(list),
         \A i \in 1 .. Len(list) : list[i][1] = v <=> i <= n,
         NEW rest \in Seq(Passages), Len(rest) = Len(list) - n, \A i \in 1 .. Len(rest) : rest[i] = list[n + i]
  PROVE  /\ InOrder(rest) /\ Uncut(rest, vs)
         /\ \A w : ToCome(list, w) => w = v \/ ToCome(rest, w)
  <1>1. Len(list) \in Nat /\ Len(rest) \in Nat
    OBVIOUS
  <1>2. DOMAIN rest = 1 .. Len(rest) /\ DOMAIN list = 1 .. Len(list)
    BY <1>1
  <1>3. \A i \in DOMAIN rest : n + i \in DOMAIN list /\ rest[i] = list[n + i] /\ list[n + i][1] # v
    <2> SUFFICES ASSUME NEW i \in 1 .. Len(rest) PROVE n + i \in 1 .. Len(list) /\ rest[i] = list[n + i] /\ list[n + i][1] # v
      BY <1>2
    <2>1. n + i \in 1 .. Len(list) /\ ~(n + i <= n)
      BY <1>1
    <2>2. QED
      BY <1>1, <2>1
  <1>4. \A j \in DOMAIN list : list[j][1] # v => j - n \in DOMAIN rest /\ rest[j - n] = list[j]
    <2> SUFFICES ASSUME NEW j \in 1 .. Len(list), list[j][1] # v PROVE j - n \in 1 .. Len(rest) /\ rest[j - n] = list[j]
      BY <1>2
    <2>1. ~(j <= n)
      OBVIOUS
    <2>2. j - n \in 1 .. Len(rest) /\ n + (j - n) = j
      BY <1>1, <2>1
    <2>3. QED
      BY <1>1, <2>2
  <1>5. InOrder(rest)
    <2>1. \A i, j \in DOMAIN rest : (n + i < n + j <=> i < j) /\ (n + i = n + j <=> i = j)
      <3>1. \A i \in DOMAIN rest : i \in Int
        BY <1>2
      <3>2. \A i, j \in Int : (n + i < n + j <=> i < j) /\ (n + i = n + j <=> i = j)
        OBVIOUS
      <3>3. QED
        BY <3>1, <3>2
    <2>2. \A i, j \in DOMAIN rest : rest[i] = rest[j] => i = j
      BY <1>3, <2>1 DEF InOrder
    <2>3. \A i, j \in DOMAIN rest : rest[i][1][1] = rest[j][1][1] /\ rest[i][2] < rest[j][2] => i < j
      <3> SUFFICES ASSUME NEW i \in DOMAIN rest, NEW j \in DOMAIN rest, rest[i][1][1] = rest[j][1][1], rest[i][2] < rest[j][2]
                   PROVE  i < j
        OBVIOUS
      <3>1. PICK a, b : a = n + i /\ b = n + j
        OBVIOUS
      <3>2. a \in DOMAIN list /\ b \in DOMAIN list /\ rest[i] = list[a] /\ rest[j] = list[b]
        BY <1>3, <3>1
      <3>3. \A x, y \in DOMAIN list : list[x][1][1] = list[y][1][1] /\ list[x][2] < list[y][2] => x < y
        BY Zenon DEF InOrder
      <3>4. a < b
        BY <3>2, <3>3, Zenon
      <3>5. QED
        BY <2>1, <3>1, <3>4
    <2>4. ASSUME NEW i \in DOMAIN rest, NEW j \in DOMAIN rest, NEW k \in DOMAIN rest, i < j, j < k, rest[i][1][1] = rest[k][1][1]
          PROVE  rest[j][1][1] = rest[i][1][1]
      <3>1. PICK a, b, d : a = n + i /\ b = n + j /\ d = n + k
        OBVIOUS
      <3>2. a < b /\ b < d
        BY <2>1, <2>4, <3>1
      <3>3. a \in DOMAIN list /\ b \in DOMAIN list /\ d \in DOMAIN list
            /\ rest[i] = list[a] /\ rest[j] = list[b] /\ rest[k] = list[d]
        BY <1>3, <3>1
      <3>4. \A x, y, z \in DOMAIN list : x < y /\ y < z /\ list[x][1][1] = list[z][1][1] => list[y][1][1] = list[x][1][1]
        BY Zenon DEF InOrder
      <3>5. list[a][1][1] = list[d][1][1]
        BY <2>4, <3>3, Zenon
      <3>6. list[b][1][1] = list[a][1][1]
        BY <3>2, <3>3, <3>4, <3>5, Zenon
      <3>7. QED
        BY <3>3, <3>6, Zenon
    <2>5. \A i, j, k \in DOMAIN rest : i < j /\ j < k /\ rest[i][1][1] = rest[k][1][1] => rest[j][1][1] = rest[i][1][1]
      BY <2>4, Zenon
    <2>6. QED
      BY <2>2, <2>3, <2>5, Zenon DEF InOrder
  <1>6. Uncut(rest, vs)
    <2> SUFFICES ASSUME NEW i \in DOMAIN rest
                 PROVE  /\ rest[i][1] \in vs /\ rest[i] \in TextsOf(rest[i][1])
                        /\ \A t \in TextsOf(rest[i][1]) : \E j \in DOMAIN rest : rest[j] = t
      BY DEF Uncut
    <2>1. n + i \in DOMAIN list /\ rest[i] = list[n + i] /\ list[n + i][1] # v
      BY <1>3
    <2>2. rest[i][1] \in vs /\ rest[i] \in TextsOf(rest[i][1])
      BY <2>1 DEF Uncut
    <2>3. ASSUME NEW t \in TextsOf(rest[i][1]) PROVE \E j \in DOMAIN rest : rest[j] = t
      <3>1. PICK j \in DOMAIN list : list[j] = t
        BY <2>1, <2>3 DEF Uncut
      <3>2. t[1] = rest[i][1]
        <4>1. rest[i] \in Passages
          OBVIOUS
        <4>2. rest[i][1] \in Vers
          BY <4>1, PassageFacts
        <4>3. QED
          BY <2>3, <4>2, TextFacts
      <3>3. QED
        BY <1>4, <2>1, <3>1, <3>2
    <2>4. QED
      BY <2>2, <2>3
  <1>7. ASSUME NEW w, ToCome(list, w), w # v PROVE ToCome(rest, w)
    BY <1>4, <1>7 DEF ToCome
  <1>8. QED
    BY <1>5, <1>6, <1>7

LEMMA RestingRun ==
  /\ NoRun \in [st : {"idle", "group", "chunks"}, rows : Seq(Passages), group : Seq(Passages)]
  /\ NoRun.st = "idle"
  <1>1. PICK s : s = <<>>
    OBVIOUS
  <1>2. s \in Seq(Passages)
    BY <1>1
  <1>3. NoRun = [st |-> "idle", rows |-> s, group |-> s]
    BY <1>1 DEF NoRun
  <1>4. QED
    BY <1>2, <1>3

LEMMA MigrateStarts == MigrateInit => MigrateInv
  <1> SUFFICES ASSUME MigrateInit PROVE MigrateInv
    OBVIOUS
  <1>1. src = {} /\ dst = {} /\ due = {} /\ fresh = {} /\ run = NoRun
    BY DEF MigrateInit
  <1>2. MigrateTypes
    BY <1>1, RestingRun, FS_EmptySet DEF MigrateTypes, OnePath
  <1>3. TargetSound /\ RunSound
    BY <1>1, RestingRun DEF TargetSound, RunSound
  <1>4. QED
    BY <1>2, <1>3 DEF MigrateInv

LEMMA IndexSourceInv ==
  ASSUME ~Beside, MigrateInv, NEW v \in Vers, IndexSource(v)
  PROVE  MigrateInv'
  <1>1. src' = {w \in src : w[1] # v[1]} \cup {v} /\ UNCHANGED <<dst, run, due, fresh>>
    BY DEF IndexSource
  <1>2. PICK D : D = {w \in src : w[1] # v[1]}
    OBVIOUS
  <1>3. src \subseteq Vers /\ IsFiniteSet(src) /\ OnePath(src)
    BY DEF MigrateInv, MigrateTypes
  <1>4. D \subseteq src /\ \A w \in D : w[1] # v[1]
    BY <1>2
  <1>5. IsFiniteSet(D) /\ IsFiniteSet(D \cup {v})
    BY <1>3, <1>4, FS_Subset, FS_AddElement
  <1>6. src' = D \cup {v} /\ src' \subseteq Vers
    BY <1>1, <1>2, <1>3, <1>4
  <1>7. \A x, y \in D \cup {v} : x[1] = y[1] => x = y
    BY <1>3, <1>4 DEF OnePath
  <1>8. MigrateTypes'
    BY <1>1, <1>5, <1>6, <1>7 DEF MigrateInv, MigrateTypes, OnePath
  <1>9. TargetSound' /\ RunSound'
    BY <1>1 DEF MigrateInv, TargetSound, RunSound, InTarget
  <1>10. QED
    BY <1>8, <1>9 DEF MigrateInv

LEMMA StartMigrateInv ==
  ASSUME MigrateInv, StartMigrate
  PROVE  MigrateInv'
  <1>1. PICK list \in Exports(src) : run' = [st |-> "group", rows |-> list, group |-> <<>>]
    BY DEF StartMigrate
  <1>2. due' = src /\ fresh' = {} /\ UNCHANGED <<src, dst>>
    BY DEF StartMigrate
  <1>3. src \subseteq Vers /\ IsFiniteSet(src) /\ OnePath(src)
    BY DEF MigrateInv, MigrateTypes
  <1>4. list \in Seq(Passages) /\ InOrder(list) /\ Uncut(list, src) /\ \A v \in src : ToCome(list, v)
    BY <1>3, ExportFacts
  <1>5. PICK s : s = <<>>
    OBVIOUS
  <1>6. s \in Seq(Passages) /\ run' = [st |-> "group", rows |-> list, group |-> s]
    BY <1>1, <1>5
  <1>7. run'.st = "group" /\ run'.rows = list
        /\ run' \in [st : {"idle", "group", "chunks"}, rows : Seq(Passages), group : Seq(Passages)]
    BY <1>4, <1>6
  <1>8. MigrateTypes'
    BY <1>2, <1>3, <1>7 DEF MigrateTypes, OnePath
  <1>9. TargetSound'
    BY <1>2 DEF MigrateInv, TargetSound
  <1>10. InOrder(run'.rows) /\ Uncut(run'.rows, due') /\ \A v \in due' : ToCome(run'.rows, v)
    BY <1>2, <1>4, <1>7
  <1>11. RunSound'
    BY <1>7, <1>10 DEF RunSound, InOrder, Uncut, ToCome
  <1>12. QED
    BY <1>8, <1>9, <1>11 DEF MigrateInv

LEMMA UpsertHeadInv ==
  ASSUME MigrateInv, UpsertHead
  PROVE  MigrateInv'
  <1>1. PICK list, group, rest : /\ list = run.rows /\ group = Prefix(list)
                                 /\ rest = SubSeq(list, Len(group) + 1, Len(list))
    OBVIOUS
  <1>2. run.st = "group" /\ list # <<>> /\ UNCHANGED <<src, dst, due, fresh>>
        /\ run' = [st |-> "chunks", group |-> group, rows |-> rest]
    BY <1>1 DEF UpsertHead
  <1>3. list \in Seq(Passages) /\ due \in SUBSET Vers /\ OnePath(due)
    BY <1>1 DEF MigrateInv, MigrateTypes
  <1>4. InOrder(list) /\ Uncut(list, due) /\ \A v \in due : InTarget(v) \/ ToCome(list, v)
    BY <1>1, <1>2 DEF MigrateInv, RunSound
  <1>5. PICK v \in due : /\ group = FullGroup(v) /\ Chunks[v] \in 1 .. Len(list)
                         /\ \A i \in 1 .. Len(list) : list[i][1] = v <=> i <= Chunks[v]
    BY <1>1, <1>2, <1>3, <1>4, GroupIsFile
  <1>6. group \in Seq(Passages) /\ Len(group) = Chunks[v]
    BY <1>3, <1>5, GroupFacts
  <1>7. PICK n \in 1 .. Len(list) : n = Chunks[v]
    BY <1>5
  <1>8. InOrder(rest) /\ Uncut(rest, due) /\ (\A w : ToCome(list, w) => w = v \/ ToCome(rest, w)) /\ rest \in Seq(Passages)
    <2>1. rest = SubSeq(list, n + 1, Len(list))
      BY <1>1, <1>6, <1>7
    <2>2. rest \in Seq(Passages) /\ Len(rest) = Len(list) - n /\ \A i \in 1 .. Len(rest) : rest[i] = list[n + i]
      BY <1>3, <2>1, BehindFacts
    <2>3. \A i \in 1 .. Len(list) : list[i][1] = v <=> i <= n
      BY <1>5, <1>7
    <2>4. QED
      <3>1. list \in Seq(Passages) /\ InOrder(list) /\ Uncut(list, due)
        BY <1>3, <1>4
      <3>2. InOrder(rest) /\ Uncut(rest, due) /\ (\A w : ToCome(list, w) => w = v \/ ToCome(rest, w))
        BY <2>2, <2>3, <3>1, RestFacts, ZenonT(90)
      <3>3. QED
        BY <2>2, <3>2
  <1>9. run'.st = "chunks" /\ run'.rows = rest /\ run'.group = group
        /\ run' \in [st : {"idle", "group", "chunks"}, rows : Seq(Passages), group : Seq(Passages)]
    BY <1>2, <1>6, <1>8
  <1>10. MigrateTypes'
    BY <1>2, <1>9 DEF MigrateInv, MigrateTypes, OnePath
  <1>11. TargetSound'
    BY <1>2 DEF MigrateInv, TargetSound, InTarget
  <1>12. \A w \in due : InTarget(w) \/ ToCome(rest, w) \/ group = FullGroup(w)
    BY <1>4, <1>5, <1>8
  <1>13. RunSound'
    <2>1. InOrder(run'.rows) /\ Uncut(run'.rows, due') /\ \E w \in due' : run'.group = FullGroup(w)
      BY <1>2, <1>5, <1>8, <1>9
    <2>2. \A w \in due' : InTarget(w)' \/ ToCome(run'.rows, w) \/ run'.group = FullGroup(w)
      BY <1>2, <1>9, <1>12 DEF InTarget
    <2>3. QED
      BY <1>9, <2>1, <2>2 DEF RunSound, InOrder, Uncut, ToCome, FullGroup
  <1>14. QED
    BY <1>10, <1>11, <1>13 DEF MigrateInv

LEMMA InsertGroupInv ==
  ASSUME MigrateInv, InsertGroup
  PROVE  MigrateInv'
  <1>1. run.st = "chunks" /\ UNCHANGED <<src, due, fresh>> /\ run' = [run EXCEPT !.st = "group", !.group = <<>>]
    BY DEF InsertGroup
  <1>2. PICK v \in due : run.group = FullGroup(v)
    BY <1>1 DEF MigrateInv, RunSound
  <1>3. v \in Vers /\ run \in [st : {"idle", "group", "chunks"}, rows : Seq(Passages), group : Seq(Passages)]
    BY DEF MigrateInv, MigrateTypes
  <1>4. PICK g : g = run.group
    OBVIOUS
  <1>5. HeadFile(g) = v /\ DOMAIN g = 1 .. Chunks[v] /\ \A i \in 1 .. Chunks[v] : g[i] = <<v, i - 1>>
    BY <1>2, <1>3, <1>4, GroupFacts
  <1>6. Chunks[v] \in Nat \ {0}
    BY <1>3, TextFacts
  <1>7. PICK new : new = {[ver |-> v, index |-> i - 1, text |-> g[i], vector |-> \A j \in DOMAIN g : g[j][1] \notin Sensitive] : i \in DOMAIN g}
    OBVIOUS
  <1>8. dst' = {r \in dst : ~\E n \in new : n.ver = r.ver /\ n.index = r.index} \cup new
    BY <1>4, <1>5, <1>7 DEF InsertGroup
  <1>9. (\A j \in DOMAIN g : g[j][1] \notin Sensitive) <=> v \notin Sensitive
    <2>1. 1 \in DOMAIN g /\ \A j \in DOMAIN g : g[j][1] = v
      BY <1>5, <1>6
    <2>2. QED
      BY <2>1
  <1>10. \A n \in new : n.ver = v /\ n.text = <<n.ver, n.index>> /\ (n.vector <=> n.ver \notin Sensitive)
    <2> SUFFICES ASSUME NEW i \in DOMAIN g,
                        NEW n, n = [ver |-> v, index |-> i - 1, text |-> g[i], vector |-> \A j \in DOMAIN g : g[j][1] \notin Sensitive]
                 PROVE  n.ver = v /\ n.text = <<n.ver, n.index>> /\ (n.vector <=> n.ver \notin Sensitive)
      BY <1>7
    <2>1. n.ver = v /\ n.index = i - 1 /\ n.text = g[i]
      OBVIOUS
    <2>2. n.vector = \A j \in DOMAIN g : g[j][1] \notin Sensitive
      BY Zenon
    <2>3. n.text = <<n.ver, n.index>>
      BY <1>5, <2>1
    <2>4. n.vector <=> n.ver \notin Sensitive
      BY <1>9, <2>1, <2>2, Zenon
    <2>5. QED
      BY <2>1, <2>3, <2>4, Zenon
  <1>11. \A t \in TextsOf(v) : \E n \in new : n.text = t
    <2> SUFFICES ASSUME NEW t \in TextsOf(v) PROVE \E n \in new : n.text = t
      OBVIOUS
    <2>1. t[2] \in 0 .. Chunks[v] - 1 /\ t = <<v, t[2]>>
      BY <1>3, TextFacts
    <2>2. t[2] + 1 \in 1 .. Chunks[v] /\ (t[2] + 1) - 1 = t[2]
      BY <1>6, <2>1
    <2>3. PICK i \in DOMAIN g : g[i] = t
      BY <1>5, <2>1, <2>2
    <2>4. PICK n : n = [ver |-> v, index |-> i - 1, text |-> g[i], vector |-> \A j \in DOMAIN g : g[j][1] \notin Sensitive]
      OBVIOUS
    <2>5. n \in new
      BY <1>7, <2>4, Zenon
    <2>6. n.text = g[i]
      BY <2>4
    <2>7. QED
      BY <2>3, <2>5, <2>6
  <1>12. ASSUME NEW w, InTarget(w) PROVE InTarget(w)'
    <2> SUFFICES ASSUME NEW t \in TextsOf(w) PROVE \E r \in dst' : r.text = t
      BY DEF InTarget
    <2>1. PICK r \in dst : r.text = t
      BY <1>12 DEF InTarget
    <2>2. CASE \E n \in new : n.ver = r.ver /\ n.index = r.index
      <3>1. PICK n \in new : n.ver = r.ver /\ n.index = r.index
        BY <2>2
      <3>2. n.text = <<n.ver, n.index>> /\ r.text = <<r.ver, r.index>>
        BY <1>10 DEF MigrateInv, TargetSound
      <3>3. n \in dst'
        BY <1>8
      <3>4. QED
        BY <2>1, <3>1, <3>2, <3>3
    <2>3. CASE ~\E n \in new : n.ver = r.ver /\ n.index = r.index
      BY <1>8, <2>1, <2>3
    <2>4. QED
      BY <2>2, <2>3
  <1>13. InTarget(v)'
    BY <1>8, <1>11 DEF InTarget
  <1>14. TargetSound'
    <2>1. \A r \in dst' : r.text = <<r.ver, r.index>> /\ (r.vector <=> r.ver \notin Sensitive)
      <3> SUFFICES ASSUME NEW r \in dst' PROVE r.text = <<r.ver, r.index>> /\ (r.vector <=> r.ver \notin Sensitive)
        OBVIOUS
      <3>1. r \in dst \/ r \in new
        BY <1>8
      <3>2. QED
        BY <1>10, <3>1, Zenon DEF MigrateInv, TargetSound
    <2>2. \A w \in fresh' : InTarget(w)'
      BY <1>1, <1>12 DEF MigrateInv, TargetSound
    <2>3. QED
      BY <2>1, <2>2 DEF TargetSound
  <1>15. run'.st = "group" /\ run'.rows = run.rows
         /\ run' \in [st : {"idle", "group", "chunks"}, rows : Seq(Passages), group : Seq(Passages)]
    <2>1. PICK s, u : s = <<>> /\ u = run.rows
      OBVIOUS
    <2>2. s \in Seq(Passages) /\ u \in Seq(Passages)
      BY <1>3, <2>1
    <2>3. run' = [st |-> "group", rows |-> u, group |-> s]
      BY <1>1, <1>3, <2>1
    <2>4. QED
      BY <2>1, <2>2, <2>3
  <1>16. MigrateTypes'
    BY <1>1, <1>15 DEF MigrateInv, MigrateTypes, OnePath
  <1>17. RunSound'
    <2>1. InOrder(run'.rows) /\ Uncut(run'.rows, due')
      BY <1>1, <1>15 DEF MigrateInv, RunSound
    <2>2. ASSUME NEW w \in due PROVE InTarget(w)' \/ ToCome(run'.rows, w)
      <3>1. InTarget(w) \/ ToCome(run.rows, w) \/ run.group = FullGroup(w)
        BY <1>1 DEF MigrateInv, RunSound
      <3>2. CASE run.group = FullGroup(w)
        <4>1. w \in Vers
          BY DEF MigrateInv, MigrateTypes
        <4>2. HeadFile(run.group) = w /\ HeadFile(run.group) = v
          BY <1>2, <1>3, <3>2, <4>1, GroupFacts
        <4>3. QED
          BY <1>13, <4>2
      <3>3. QED
        BY <1>12, <1>15, <3>1, <3>2
    <2>3. QED
      BY <1>1, <1>15, <2>1, <2>2 DEF RunSound, InOrder, Uncut, ToCome
  <1>18. QED
    BY <1>14, <1>16, <1>17 DEF MigrateInv

LEMMA MigratedInv ==
  ASSUME MigrateInv, Migrated
  PROVE  MigrateInv'
  <1>1. /\ run.st = "group" /\ run.rows = <<>> /\ run' = NoRun /\ fresh' = due /\ due' = {} /\ UNCHANGED <<src, dst>>
    BY DEF Migrated
  <1>2. \A v \in due : InTarget(v)
    BY <1>1 DEF MigrateInv, RunSound, ToCome
  <1>3. MigrateTypes'
    BY <1>1, RestingRun DEF MigrateInv, MigrateTypes, OnePath
  <1>4. TargetSound'
    BY <1>1, <1>2 DEF MigrateInv, TargetSound, InTarget
  <1>5. RunSound'
    BY <1>1, RestingRun DEF RunSound
  <1>6. QED
    BY <1>3, <1>4, <1>5 DEF MigrateInv

LEMMA BreaksInv ==
  ASSUME MigrateInv, Breaks
  PROVE  MigrateInv'
  <1>1. run' = NoRun /\ due' = {} /\ UNCHANGED <<src, dst, fresh>>
    BY DEF Breaks
  <1>2. MigrateTypes'
    BY <1>1, RestingRun DEF MigrateInv, MigrateTypes, OnePath
  <1>3. TargetSound' /\ RunSound'
    BY <1>1, RestingRun DEF MigrateInv, TargetSound, InTarget, RunSound
  <1>4. QED
    BY <1>2, <1>3 DEF MigrateInv

\* Of `semidx migrate` (cmd/semidx/migrate.go), for any paths, versions and numbers
\* of chunks, whenever a run breaks off and however often it is repeated: what
\* stands under a version is its text with its vector, and after a run that ended
\* well nothing is missing, as long as the local index holds one version per path.
THEOREM MigrationsCopyAsIs == ~Beside => (MigrateSpec => []CopiedAsIs)
  <1> SUFFICES ASSUME ~Beside PROVE MigrateSpec => []CopiedAsIs
    OBVIOUS
  <1>1. MigrateInit => MigrateInv
    BY MigrateStarts
  <1>2. MigrateInv /\ [MigrateNext]_mvars => MigrateInv'
    <2> SUFFICES ASSUME MigrateInv, [MigrateNext]_mvars PROVE MigrateInv'
      OBVIOUS
    <2>1. CASE UNCHANGED mvars
      <3>1. UNCHANGED <<src, dst, run, due, fresh>>
        BY <2>1 DEF mvars
      <3>2. MigrateTypes' /\ TargetSound'
        BY <3>1 DEF MigrateInv, MigrateTypes, TargetSound, OnePath, InTarget
      <3>3. RunSound'
        BY <3>1 DEF MigrateInv, RunSound, InOrder, Uncut, ToCome, InTarget
      <3>4. QED
        BY <3>2, <3>3 DEF MigrateInv
    <2>2. CASE MigrateNext
      BY <2>2, IndexSourceInv, StartMigrateInv, UpsertHeadInv, InsertGroupInv, MigratedInv, BreaksInv DEF MigrateNext
    <2>3. QED
      BY <2>1, <2>2
  <1>3. MigrateInv => CopiedAsIs
    <2> SUFFICES ASSUME MigrateInv PROVE CopiedAsIs
      OBVIOUS
    <2>1. \A r \in dst : r.text = <<r.ver, r.index>> /\ (r.vector <=> r.ver \notin Sensitive)
      BY Zenon DEF MigrateInv, TargetSound
    <2>2. \A v \in fresh : TextsOf(v) \subseteq {r.text : r \in dst}
      BY DEF MigrateInv, TargetSound, InTarget
    <2>3. QED
      BY <2>1, <2>2, Zenon DEF CopiedAsIs
  <1>4. QED
    BY <1>1, <1>2, <1>3, PTL DEF MigrateSpec

==============================================================================
