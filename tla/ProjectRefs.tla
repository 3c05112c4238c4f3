------------------------------ MODULE ProjectRefs ------------------------------
(***************************************************************************)
(* Which indexed project a reference means (internal/projectref,           *)
(* internal/searchtargets, internal/gitmeta): by the git identity of a     *)
(* place, the place itself, a display name, an identity, the directory it  *)
(* was indexed from, or the place the caller stands in.  Each lookup gives *)
(* the set of projects it may answer with, of which any one is taken; an   *)
(* empty set hands over to the next lookup.                                *)
(*                                                                         *)
(* A directory is the sequence of the names on the way to it.  Symbolic    *)
(* links are left out, so every place has one form.                        *)
(***************************************************************************)
EXTENDS Naturals, FiniteSets, SequencesExt

CONSTANTS
  Dirs,       \* the directories there are
  Repos,      \* the root of each repository, with its origin
  NoOrigin,
  Order,      \* each display name, with its place in the order of ListProjects
  Folded,     \* each display name, with its letters in lower case
  OnBranch    \* each name, with the suffix of the branch

ASSUME PlacesAreDirs == DOMAIN Repos \subseteq Dirs
ASSUME NamesOrdered == DOMAIN Folded = DOMAIN Order /\ \A n \in DOMAIN Order : Order[n] \in Nat

Nowhere == <<>>
NoIdentity == <<"none">>
Omitted == <<"omitted">>
Dot == <<"dot">>
Word(w) == <<"word", w>>
Place(d) == <<"place", d>>
Identified(id) == <<"identity", id>>
Ambiguous == [name |-> "", identity |-> NoIdentity, path |-> Nowhere, origin |-> NoOrigin]

OrElse(a, b) == IF a = {} THEN b ELSE a

------------------------------------------------------------------------------
(* gitmeta: a repository is known by its origin, or else by its directory. *)

Around(d) == {r \in DOMAIN Repos : IsPrefix(r, d)}
Toplevel(d) == IF d \in Dirs /\ Around(d) # {}
               THEN CHOOSE r \in Around(d) : \A s \in Around(d) : Len(s) <= Len(r)
               ELSE Nowhere
IdentityOf(root) == IF Repos[root] = NoOrigin THEN <<"local", root>> ELSE <<"remote", Repos[root]>>
GitIdentity(d) == IF Toplevel(d) = Nowhere THEN NoIdentity ELSE IdentityOf(Toplevel(d))

\* An index run makes the project of a directory; the server registers others.
Indexed(d, docs, branched) ==
  LET root == IF docs THEN Nowhere ELSE Toplevel(d)
      git  == [name |-> Last(root), identity |-> IdentityOf(root), path |-> root, origin |-> NoOrigin]
  IN IF root = Nowhere THEN [name |-> Last(d), identity |-> <<"path", d>>, path |-> d, origin |-> NoOrigin]
     ELSE IF branched THEN [git EXCEPT !.name = OnBranch[@], !.identity = <<"branch", @>>]
     ELSE git
Registered(n, origin) == [name |-> n, identity |-> <<"name", n>>, path |-> Nowhere, origin |-> origin]

------------------------------------------------------------------------------
(* The single lookups in a list of projects.                               *)

FirstListed(S) == {p \in S : \A q \in S : Order[p.name] <= Order[q.name]}
ByIdentity(id, L) == {p \in L : p.identity = id}
ByName(n, L) ==
  LET hits == {p \in L : n \in DOMAIN Folded /\ Folded[p.name] = Folded[n]}
  IN IF Cardinality(hits) > 1 THEN {Ambiguous} ELSE hits
ByIndexedPath(d, L) == FirstListed({p \in L : p.path = d /\ d # Nowhere})
Enclosing(d, L) ==
  LET around == {p \in L : p.path # Nowhere /\ IsPrefix(p.path, d)}
  IN FirstListed({p \in around : \A q \in around : Len(q.path) <= Len(p.path)})

\* GetProject takes any row of the name, GetProjectByIdentity the only one.
ByRow(n, L) == {p \in L : p.name = n}

\* What a reference says as a name, as an identity and as a place seen from there.
NameIn(r) == IF r[1] = "word" THEN r[2] ELSE ""
IdentityIn(r) == IF r[1] = "word" THEN <<"name", r[2]>> ELSE IF r[1] = "identity" THEN r[2] ELSE NoIdentity
PlaceIn(r, from) ==
  CASE r[1] = "dot" -> from
    [] r[1] = "word" -> Append(from, r[2])
    [] r[1] = "place" -> r[2]
    [] OTHER -> Nowhere

------------------------------------------------------------------------------
(* The searches built from them.                                           *)

ByPlace(d, L) == OrElse(ByIdentity(GitIdentity(d), L), ByIdentity(<<"path", d>>, L))

\* ResolveInList; cwd is Nowhere for a caller that gives none.
ResolveInList(r, from, cwd, L) ==
  OrElse(ByPlace(PlaceIn(r, from), L),
  OrElse(ByName(NameIn(r), L),
  OrElse(ByIdentity(IdentityIn(r), L),
  OrElse(ByIndexedPath(PlaceIn(r, from), L), Enclosing(cwd, L)))))

\* Mutant of Resolve: an unknown reference means the project around the caller.
ResolveOrHere(r, from, L, listed) == ResolveInList(r, from, from, L)

\* Resolve, for a store whose list can be read or not.
Resolve(r, from, L, listed) ==
  IF listed THEN ResolveInList(r, from, Nowhere, L)
  ELSE OrElse(ByPlace(PlaceIn(r, from), L), ByRow(NameIn(r), L))

\* Mutant of Here: the paths are tried first.
HereByPath(cwd, L) == OrElse(Enclosing(cwd, L), ByIdentity(GitIdentity(cwd), L))

\* The project of the caller's directory, by the local index.
Here(cwd, L) == OrElse(ByIdentity(GitIdentity(cwd), L), Enclosing(cwd, L))

\* lookupUnambiguous and lookupByGitOrigin never guess.
Unambiguous(r, cwd, L) == ResolveInList(r, cwd, Nowhere, L) \ {Ambiguous}
ByOrigin(id, L) ==
  LET hits == {p \in L : id[1] = "remote" /\ (p.origin = id[2] \/ p.identity = id)}
  IN IF Cardinality(hits) > 1 THEN {} ELSE hits
CheckoutName(cwd) == Last(IF Toplevel(cwd) = Nowhere THEN cwd ELSE Toplevel(cwd))

\* The project of the caller's directory, by the list of a server.
FromCwd(cwd, L) ==
  LET id == GitIdentity(cwd) IN
  OrElse(IF id = NoIdentity THEN {} ELSE Unambiguous(Identified(id), cwd, L),
  OrElse(ByOrigin(id, L),
  OrElse(Enclosing(cwd, L), Unambiguous(Word(CheckoutName(cwd)), cwd, L))))

\* ResolveRemoteProject: an unknown reference means the project around the caller.
ResolveRemote(r, cwd, L) ==
  IF r \in {Omitted, Dot} THEN FromCwd(cwd, L) ELSE ResolveInList(r, cwd, cwd, L)
==============================================================================
