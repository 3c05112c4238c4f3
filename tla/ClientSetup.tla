------------------------------ MODULE ClientSetup ------------------------------
(***************************************************************************)
(* What the command line writes into the files of other programs:          *)
(* `semidx mcp install` puts an entry into the configuration of an agent   *)
(* (internal/mcpinstall), `semidx skills install` writes skill files       *)
(* beside those of the user (internal/skills).  The agent rewrites its     *)
(* configuration too, and several installs may run at the same time.       *)
(*                                                                         *)
(* A configuration is the set of its entries, each a name and a value; it  *)
(* stands for the servers and for every other key alike.                   *)
(***************************************************************************)
EXTENDS Naturals, FiniteSets

CONSTANTS
  Installers,  \* runs of `semidx mcp install --apply`
  Servers,     \* names of entries
  Values,      \* what an entry may say
  Skills,      \* skill files
  MaxClock,    \* bound: seconds that pass
  MaxEdits     \* bound: installs, rewrites by others, runs of `skills install`

ASSUME SetupBoundsAssumption == MaxClock \in Nat /\ MaxEdits \in Nat

\* transports, by what the client's format can say
Styles == {"stdioOnly", "json", "toml", "printOnly"}
Transports == {"stdio", "http", "unknown"}

VARIABLES
  style,     \* the client's format
  conf,      \* the client's configuration: entries, and whether it can be parsed
  baks,      \* backups: second and entries
  clock,     \* seconds
  inst,      \* what each install is doing
  skill,     \* skill file to what it holds
  setup,     \* the run of `skills install`, if any
  edits,
  everHeld,  \* history: entries the configuration has held
  forgone    \* history: entries nobody promised to keep

svars == <<style, conf, baks, clock, inst, skill, setup, edits, everHeld, forgone>>

Pairs == Servers \X Values
Resting == [st |-> "idle", name |-> CHOOSE s \in Servers : TRUE, value |-> CHOOSE v \in Values : TRUE,
            read |-> {}]

SetupTypeOK ==
  /\ style \in Styles
  /\ conf.entries \subseteq Pairs /\ conf.ok \in BOOLEAN
  /\ baks \subseteq [at : 0 .. MaxClock, entries : SUBSET Pairs]
  /\ \A i \in Installers : inst[i].st \in {"idle", "merged", "saved"}
  /\ skill \in [Skills -> {"none", "own", "managed", "empty"}]
  /\ \A s \in Servers : Cardinality({p \in conf.entries : p[1] = s}) <= 1

SetupInit ==
  /\ style \in Styles
  /\ \E e \in {{}} \cup {{p} : p \in Pairs} : conf = [entries |-> e, ok |-> TRUE] /\ everHeld = e
  /\ baks = {} /\ clock = 0
  /\ inst = [i \in Installers |-> Resting]
  /\ skill \in [Skills -> {"none", "own", "managed"}]
  /\ setup = "none"
  /\ edits = 0 /\ forgone = {}

\* A broken JSON file is refused; TOML is merged as text.
ReadsJSON == style # "toml"

\* validateTransport and applyable
Supports(t) == \/ t = "stdio" /\ style # "printOnly"
               \/ t = "http" /\ style \in {"json", "toml"}

\* The entry of that name replaced, every other one kept.
Merged(entries, name, value) == {p \in entries : p[1] # name} \cup {<<name, value>>}

(***************************************************************************)
(* mcpinstall.Apply                                                        *)
(***************************************************************************)

\* Reads and merges.  An error of the read counts as an absent file.
Apply(i, t, name, value, readable) ==
  LET seen == IF readable THEN conf.entries ELSE {} IN
  /\ inst[i].st = "idle"
  /\ Supports(t)
  /\ readable => (conf.ok \/ ~ReadsJSON)
  /\ edits < MaxEdits
  /\ inst' = [inst EXCEPT ![i] = [st |-> "merged", name |-> name, value |-> value, read |-> seen]]
  /\ edits' = edits + 1
  /\ forgone' = IF readable THEN forgone ELSE forgone \cup conf.entries
  /\ UNCHANGED <<style, conf, baks, clock, skill, setup, everHeld>>

\* Mutant of BackUp: the new content is what goes beside the file.
BackUpMerged(i) ==
  /\ inst[i].st = "merged"
  /\ inst' = [inst EXCEPT ![i].st = "saved"]
  /\ baks' = {b \in baks : b.at # clock}
             \cup {[at |-> clock, entries |-> Merged(inst[i].read, inst[i].name, inst[i].value)]}
  /\ forgone' = forgone \cup UNION {b.entries : b \in {b \in baks : b.at = clock}}
  /\ UNCHANGED <<style, conf, clock, skill, setup, edits, everHeld>>

\* What was read goes beside the file under the second's name; an empty file has no backup.
BackUp(i) ==
  /\ inst[i].st = "merged"
  /\ inst' = [inst EXCEPT ![i].st = "saved"]
  /\ IF inst[i].read = {} THEN UNCHANGED <<baks, forgone>>
     ELSE LET same == {b \in baks : b.at = clock} IN
          /\ baks' = (baks \ same) \cup {[at |-> clock, entries |-> inst[i].read]}
          /\ forgone' = forgone \cup UNION {b.entries : b \in same}
  /\ UNCHANGED <<style, conf, clock, skill, setup, edits, everHeld>>

\* A temporary file renamed into place: the old content or the new one.
Replace(i) ==
  LET new == Merged(inst[i].read, inst[i].name, inst[i].value) IN
  /\ inst[i].st = "saved"
  /\ conf' = [conf EXCEPT !.entries = new, !.ok = @ \/ ReadsJSON]
  /\ everHeld' = everHeld \cup new
  /\ forgone' = forgone \cup (conf.entries \ inst[i].read)
  /\ inst' = [inst EXCEPT ![i] = Resting]
  /\ UNCHANGED <<style, baks, clock, skill, setup, edits>>

\* A rename to another device, a directory that cannot be written, a kill.
InstallEnds(i) ==
  /\ inst[i].st # "idle"
  /\ inst' = [inst EXCEPT ![i] = Resting]
  /\ UNCHANGED <<style, conf, baks, clock, skill, setup, edits, everHeld, forgone>>

\* The agent, or the user, rewrites the configuration.
OthersEdit(e, ok) ==
  /\ edits < MaxEdits
  /\ [entries |-> e, ok |-> ok] # conf
  /\ conf' = [entries |-> e, ok |-> ok]
  /\ everHeld' = everHeld \cup e
  /\ forgone' = forgone \cup (conf.entries \ e)
  /\ edits' = edits + 1
  /\ UNCHANGED <<style, baks, clock, inst, skill, setup>>

Tick ==
  /\ clock < MaxClock
  /\ clock' = clock + 1
  /\ UNCHANGED <<style, conf, baks, inst, skill, setup, edits, everHeld, forgone>>

(***************************************************************************)
(* skills.Install                                                          *)
(***************************************************************************)

Mine(f) == skill[f] \in {"none", "managed"}

\* The file is emptied and written; a file without the marker is left alone unless forced.
EmptySkill(f, force) ==
  /\ setup = "none" /\ edits < MaxEdits
  /\ Mine(f) \/ force
  /\ skill' = [skill EXCEPT ![f] = "empty"]
  /\ setup' = IF force THEN "forced" ELSE "plain"
  /\ edits' = edits + 1
  /\ UNCHANGED <<style, conf, baks, clock, inst, everHeld, forgone>>

WriteSkill(f) ==
  /\ setup # "none" /\ skill[f] = "empty"
  /\ skill' = [skill EXCEPT ![f] = "managed"]
  /\ setup' = "none"
  /\ UNCHANGED <<style, conf, baks, clock, inst, edits, everHeld, forgone>>

KillSkills ==
  /\ setup # "none"
  /\ setup' = "none"
  /\ UNCHANGED <<style, conf, baks, clock, inst, skill, edits, everHeld, forgone>>

SetupNext ==
  \/ \E i \in Installers :
       \/ \E t \in Transports, s \in Servers, v \in Values, r \in BOOLEAN : Apply(i, t, s, v, r)
       \/ BackUp(i) \/ Replace(i) \/ InstallEnds(i)
  \/ \E s \in Servers, v \in Values : OthersEdit(Merged(conf.entries, s, v), TRUE)
  \/ OthersEdit(conf.entries, FALSE)
  \/ Tick
  \/ \E f \in Skills : WriteSkill(f) \/ \E b \in BOOLEAN : EmptySkill(f, b)
  \/ KillSkills

SetupSpec == SetupInit /\ [][SetupNext]_svars

(***************************************************************************)
(* Properties.                                                             *)
(***************************************************************************)

\* `mcp install --apply` preserves the other entries and keeps a backup first:
\* every entry the configuration ever held is still in it or in a backup, unless
\* its owner removed it, the file could not be read, somebody else wrote
\* between the read and the rename, or two backups fell into one second.
EntriesKept == \A p \in everHeld \ forgone : p \in conf.entries \/ \E b \in baks : p \in b.entries

\* A skill of the user's own is replaced only by an install that was told to.
OwnSkillsKept == [][\A f \in Skills : (skill[f] = "own" /\ skill'[f] # "own") => setup' = "forced"]_svars
================================================================================
