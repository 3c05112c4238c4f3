------------------------------- MODULE UserLists -------------------------------
(***************************************************************************)
(* The lists the command line keeps in the user's configuration directory: *)
(* the searches to watch (cmd/semidx/alerts.go), the counts to follow      *)
(* (cmd/semidx/insights.go), the settings of semidx.env                    *)
(* (internal/config/config.go) and the login (internal/clientconfig).      *)
(* Every command reads the whole file, changes its copy and writes the     *)
(* file anew with os.WriteFile, which empties it first; there is no lock.  *)
(* The user, a cron job and a CI step may run commands at the same time,   *)
(* and a command may be killed.                                            *)
(***************************************************************************)
EXTENDS Naturals, Sequences, FiniteSets

CONSTANTS
  Commands,  \* command lines running side by side
  Names,     \* names of entries; keys of settings
  Owners,    \* --project of an entry
  Answers,   \* what a search may find; values of settings
  Damaged,   \* a file that was emptied and not written
  MaxRuns,   \* bound: commands started
  MaxFlips   \* bound: changes of what the searches find

Lists == {"alerts", "insights", "settings", "login"}
\* JSON and YAML differ from KEY=VALUE lines in that an empty file is one of them an error.
Strict == {"alerts", "insights"}

ASSUME DamagedAssumption == Damaged \notin Seq([name : Names, owner : Owners, seen : Seq(Answers)])
ASSUME OwnersAssumption == Owners # {}
ASSUME UserBoundsAssumption == MaxRuns \in Nat /\ MaxFlips \in Nat

VARIABLES
  file,    \* list to its entries; an absent file reads as an empty one
  found,   \* what the search of a name finds now
  cmd,     \* what each command line does
  told,    \* what `alerts check` has printed: name, owner, answer
  said,    \* the entries according to the messages of the commands that ended well
  alone,   \* no command overlapped another, none was killed in a write
  runs, flips

uvars == <<file, found, cmd, told, said, alone, runs, flips>>

Entry == [name : Names, owner : Owners, seen : Seq(Answers)]
Off == [op |-> "none", on |-> "alerts", copy |-> <<>>, left |-> <<>>, after |-> {}]

UsersTypeOK ==
  /\ \A l \in Lists : file[l] = Damaged \/ \A i \in DOMAIN file[l] : file[l][i] \in Entry
  /\ found \in [Names -> Answers]
  /\ \A l \in Lists : \A e \in said[l] : e \in Entry
  /\ alone \in BOOLEAN /\ runs \in 0 .. MaxRuns /\ flips \in 0 .. MaxFlips

UsersInit ==
  /\ file = [l \in Lists |-> <<>>]
  /\ found \in [Names -> Answers]
  /\ cmd = [c \in Commands |-> Off]
  /\ told = {}
  /\ said = [l \in Lists |-> {}]
  /\ alone = TRUE /\ runs = 0 /\ flips = 0

Elements(s) == {s[i] : i \in DOMAIN s}
Named(s, n) == \E i \in DOMAIN s : s[i].name = n
\* The entries of s at the positions in I, in their order.
Those(s, I) == [k \in 1 .. Cardinality(I) |-> s[CHOOSE i \in I : Cardinality({j \in I : j <= i}) = k]]
Others(s, n) == Those(s, {i \in DOMAIN s : s[i].name # n})
New(n, o) == [name |-> n, owner |-> o, seen |-> <<>>]

\* Unreadable settings and a missing file count as empty, unreadable JSON is an error.
CanLoad(l) == file[l] # Damaged \/ l \notin Strict
Loaded(l) == IF file[l] = Damaged THEN <<>> ELSE file[l]

StartCommand(c) ==
  /\ cmd[c].op = "none" /\ runs < MaxRuns
  /\ runs' = runs + 1
  /\ alone' = (alone /\ \A d \in Commands : cmd[d].op = "none")
  /\ UNCHANGED <<file, found, told, said, flips>>

Save(c, l, entries, after) ==
  cmd' = [cmd EXCEPT ![c] = [op |-> "save", on |-> l, copy |-> entries, left |-> <<>>, after |-> after]]

(***************************************************************************)
(* Commands that change an entry and write the list back.                  *)
(***************************************************************************)

\* A name is taken once, whatever project it is for.
Create(c, l, n, o) ==
  /\ CanLoad(l) /\ ~Named(Loaded(l), n)
  /\ StartCommand(c)
  /\ Save(c, l, Append(Loaded(l), New(n, o)), said[l] \cup {New(n, o)})

DeleteAlert(c, n) ==
  /\ CanLoad("alerts") /\ Named(Loaded("alerts"), n)
  /\ StartCommand(c)
  /\ Save(c, "alerts", Others(Loaded("alerts"), n), {e \in said["alerts"] : e.name # n})

SetKey(c, n, v) ==
  LET e == [New(n, CHOOSE o \in Owners : TRUE) EXCEPT !.seen = <<v>>] IN
  /\ StartCommand(c)
  /\ Save(c, "settings", Append(Others(Loaded("settings"), n), e),
          {x \in said["settings"] : x.name # n} \cup {e})

\* A key that is not there is left alone: nothing is written.
UnsetKey(c, n) ==
  /\ Named(Loaded("settings"), n)
  /\ StartCommand(c)
  /\ Save(c, "settings", Others(Loaded("settings"), n), {x \in said["settings"] : x.name # n})

\* The server answered its health check; the login replaces the one before.
Login(c, n, v) ==
  LET e == [New(n, CHOOSE o \in Owners : TRUE) EXCEPT !.seen = <<v>>] IN
  /\ StartCommand(c)
  /\ Save(c, "login", <<e>>, {e})

\* One system call removes the file; a missing one is as good.
Logout(c) ==
  /\ cmd[c].op = "none" /\ runs < MaxRuns
  /\ runs' = runs + 1
  /\ alone' = (alone /\ \A d \in Commands : cmd[d].op = "none")
  /\ file' = [file EXCEPT !["login"] = <<>>]
  /\ said' = [said EXCEPT !["login"] = {}]
  /\ UNCHANGED <<found, cmd, told, flips>>

(***************************************************************************)
(* alerts check: every search of the list that is for the project given,   *)
(* then the whole list as it was read, with the answers noted.             *)
(***************************************************************************)

StartCheck(c, owners) ==
  LET all == Loaded("alerts")
      mine == Those(all, {i \in DOMAIN all : all[i].owner \in owners}) IN
  /\ CanLoad("alerts") /\ mine # <<>>
  /\ StartCommand(c)
  /\ cmd' = [cmd EXCEPT ![c] = [op |-> "check", on |-> "alerts", copy |-> all,
                                left |-> mine, after |-> said["alerts"]]]

\* updateAlertHash: the first entry of that name and project.
WithAnswer(entries, e, a) ==
  LET hit == {i \in DOMAIN entries : entries[i].name = e.name /\ entries[i].owner = e.owner} IN
  [i \in DOMAIN entries |->
     IF i \in hit /\ \A j \in hit : i <= j THEN [entries[i] EXCEPT !.seen = <<a>>] ELSE entries[i]]

\* The answer is printed: a first one as the baseline, another one as news.
CheckOne(c) ==
  LET e == Head(cmd[c].left)
      a == found[e.name] IN
  /\ cmd[c].op = "check" /\ cmd[c].left # <<>>
  /\ told' = told \cup {<<e.name, e.owner, a>>}
  /\ cmd' = [cmd EXCEPT ![c].left = Tail(@), ![c].copy = WithAnswer(@, e, a),
                        ![c].after = {IF x.name = e.name /\ x.owner = e.owner
                                      THEN [x EXCEPT !.seen = <<a>>] ELSE x : x \in @}]
  /\ UNCHANGED <<file, found, said, alone, runs, flips>>

\* Mutant of CheckFails: the answer is noted before the error is looked at.
CheckFailsNoting(c) ==
  LET e == Head(cmd[c].left) IN
  /\ cmd[c].op = "check" /\ cmd[c].left # <<>>
  /\ cmd' = [cmd EXCEPT ![c].left = Tail(@), ![c].copy = WithAnswer(@, e, found[e.name])]
  /\ UNCHANGED <<file, found, told, said, alone, runs, flips>>

\* A project that is gone, an index that cannot be reached: a warning.
CheckFails(c) ==
  /\ cmd[c].op = "check" /\ cmd[c].left # <<>>
  /\ cmd' = [cmd EXCEPT ![c].left = Tail(@)]
  /\ UNCHANGED <<file, found, told, said, alone, runs, flips>>

CheckDone(c) ==
  /\ cmd[c].op = "check" /\ cmd[c].left = <<>>
  /\ cmd' = [cmd EXCEPT ![c].op = "save"]
  /\ UNCHANGED <<file, found, told, said, alone, runs, flips>>

(***************************************************************************)
(* insights record: one more count at the end of the series.               *)
(***************************************************************************)

StartRecord(c, n) ==
  LET all == Loaded("insights") IN
  /\ CanLoad("insights") /\ Named(all, n)
  /\ StartCommand(c)
  /\ cmd' = [cmd EXCEPT ![c] = [op |-> "record", on |-> "insights", copy |-> all,
                                left |-> Those(all, {i \in DOMAIN all : all[i].name = n}),
                                after |-> said["insights"]]]

RecordOne(c) ==
  LET n == Head(cmd[c].left).name
      grown(x) == IF x.name = n THEN [x EXCEPT !.seen = Append(@, found[n])] ELSE x IN
  /\ cmd[c].op = "record"
  /\ Save(c, "insights", [i \in DOMAIN cmd[c].copy |-> grown(cmd[c].copy[i])],
          {grown(x) : x \in cmd[c].after})
  /\ UNCHANGED <<file, found, told, said, alone, runs, flips>>

RecordFails(c) ==
  /\ cmd[c].op = "record"
  /\ cmd' = [cmd EXCEPT ![c] = Off]
  /\ UNCHANGED <<file, found, told, said, alone, runs, flips>>

(***************************************************************************)
(* os.WriteFile, in its two steps, and what may come between.              *)
(***************************************************************************)

Truncate(c) ==
  /\ cmd[c].op = "save"
  /\ file' = [file EXCEPT ![cmd[c].on] = Damaged]
  /\ cmd' = [cmd EXCEPT ![c].op = "write"]
  /\ UNCHANGED <<found, told, said, alone, runs, flips>>

Write(c) ==
  /\ cmd[c].op = "write"
  /\ file' = [file EXCEPT ![cmd[c].on] = cmd[c].copy]
  /\ said' = [said EXCEPT ![cmd[c].on] = cmd[c].after]
  /\ cmd' = [cmd EXCEPT ![c] = Off]
  /\ UNCHANGED <<found, told, alone, runs, flips>>

Kill(c) ==
  /\ cmd[c].op # "none"
  /\ alone' = (alone /\ cmd[c].op # "write")
  /\ cmd' = [cmd EXCEPT ![c] = Off]
  /\ UNCHANGED <<file, found, told, said, runs, flips>>

\* The code or its index changes, and with it what a search finds.
Flip(n, a) ==
  /\ flips < MaxFlips /\ found[n] # a
  /\ found' = [found EXCEPT ![n] = a]
  /\ flips' = flips + 1
  /\ UNCHANGED <<file, cmd, told, said, alone, runs>>

UsersNext ==
  \/ \E c \in Commands :
       \/ \E n \in Names : DeleteAlert(c, n) \/ UnsetKey(c, n) \/ StartRecord(c, n)
       \/ \E n \in Names, o \in Owners : Create(c, "alerts", n, o) \/ Create(c, "insights", n, o)
       \/ \E n \in Names, v \in Answers : SetKey(c, n, v) \/ Login(c, n, v)
       \/ StartCheck(c, Owners) \/ \E o \in Owners : StartCheck(c, {o})
       \/ CheckOne(c) \/ CheckFails(c) \/ CheckDone(c)
       \/ RecordOne(c) \/ RecordFails(c)
       \/ Truncate(c) \/ Write(c) \/ Kill(c) \/ Logout(c)
  \/ \E n \in Names, a \in Answers : Flip(n, a)

UsersSpec == UsersInit /\ [][UsersNext]_uvars

(***************************************************************************)
(* Properties.                                                             *)
(***************************************************************************)

\* The answer an alert is compared with is one the user has been told, whatever
\* overlaps and whoever is killed: `alerts check` prints first and saves at its
\* end, so that news may be told twice and is never swallowed.
BaselineWasTold ==
  file["alerts"] # Damaged =>
    \A e \in Elements(file["alerts"]) : \A i \in DOMAIN e.seen : <<e.name, e.owner, e.seen[i]>> \in told

\* As long as commands follow one another and none is killed in the middle of a
\* write, every list holds exactly what the commands said: no entry, count or
\* setting of an earlier command is lost through a later one.
AsTold ==
  (alone /\ \A c \in Commands : cmd[c].op = "none") =>
    \A l \in Lists : file[l] # Damaged /\ Elements(file[l]) = said[l]
                     /\ \A i, j \in DOMAIN file[l] : file[l][i].name = file[l][j].name => i = j

\* What a command said about the user's lists is so, and they say no more.
ListsHonest == BaselineWasTold /\ AsTold
================================================================================
