---------------------------- MODULE DriverProofs ----------------------------
(***************************************************************************)
(* For any number of projects, processes, tags, edits and commands: the    *)
(* package directories are whole and what is locked of them matches them, a*)
(* program that runs is fresh and has its dependency at a locked commit,   *)
(* and it fails to start only if the cache was cleaned.                    *)
(***************************************************************************)
EXTENDS Driver, FiniteSetTheorems, TLAPS

RunPlaces == {"idle", "lookup", "checkMain", "checkDep", "isFile", "touch",
              "readMain", "readMod", "readLock", "resolve", "readDep", "compiled",
              "binary", "pruneDue", "prune", "pruning", "exec", "program",
              "failed", "clear"}
GetPlaces == {"idle", "modRead", "lockRead", "cloning", "cloned", "pinning", "pinned",
              "fetched", "truncated"}
Begans == [main : 0..MaxVersion, compiler : 0..MaxCompiler, tag : Tags]
Texts == [main : 0..MaxVersion]
Manifests == [key : IndexKeys, inputs : Inputs, old : BOOLEAN]

RunnerStates ==
  [at : RunPlaces, project : Projects \cup {None}, key : IndexKeys \cup {None},
   compiling : BOOLEAN, inputs : Inputs \cup Texts \cup {None}, tag : Tags \cup {None},
   entry : Entries \cup {None}, listed : SUBSET Manifests, size : Int,
   clearing : SUBSET {"bin", "index", "marker"}, began : Begans \cup {None}, cleaned : BOOLEAN]
GetterStates ==
  [at : GetPlaces, project : Projects \cup {None}, tag : Tags \cup {None},
   asked : Commits \cup {None}, tmp : Checkouts \cup {None}, commit : Commits \cup {None}]

Typed ==
  /\ mod \in [Projects -> Tags] /\ upstream \in [Tags -> Commits]
  /\ lock \in [Projects -> Entries \cup {None}] /\ locked \in [Projects -> SUBSET Entries]
  /\ pkg \in [Tags -> Checkouts \cup {None}]
  /\ index \in [IndexKeys -> Inputs \cup {Missing}] /\ IsFiniteSet(bin)
  /\ main \in [Projects -> 0..MaxVersion] /\ compiler \in 0..MaxCompiler
  /\ getter \in [Getters -> GetterStates]
  /\ runner \in [Runners -> RunnerStates]

\* What a `paco get` knows at each of its steps: before the rename its sibling directory is a
\* whole checkout of the commit it holds, afterwards that commit is about the target.
Cloned(d, c) == d \in Checkouts /\ d.whole /\ d.head = c /\ c \in Commits
Exact(u, d) == d # None /\ u.commit \in Commits
               /\ u.commit = IF u.asked = None THEN d.head ELSE u.asked
GetOK(u) ==
  /\ u.at # "idle" => u.project \in Projects /\ u.tag \in Tags
  /\ u.at \in {"cloned", "pinned"} => Cloned(u.tmp, u.commit)
  /\ u.at = "pinning" => u.asked \in Commits
  /\ u.at = "pinned" => u.asked \in {None, u.commit}
  /\ u.at \in {"fetched", "truncated"} => Exact(u, pkg[u.tag])
Getting == \A g \in Getters : GetOK(getter[g])

\* The lock's entry, and the dependency of every manifest, are in the lock's history.
LockKnown == \A p \in Projects : lock[p] # None => lock[p] \in locked[p]
IndexKnown ==
  \A k \in IndexKeys :
    index[k] # Missing => Entry(index[k].tag, index[k].dep) \in locked[k.project]

\* The key of a run is of its project, and no older than the run.
Began(r) ==
  runner[r].at \notin {"idle", "clear", "failed"} =>
    /\ runner[r].project \in Projects
    /\ runner[r].key \in IndexKeys /\ runner[r].key.project = runner[r].project
    /\ runner[r].began \in Begans
    /\ runner[r].began.main <= main[runner[r].project]
    /\ runner[r].began.compiler <= compiler
    /\ runner[r].began.compiler <= runner[r].key.compiler

\* The text of main.paco that was read or compared is no older than the run.
FreshText(r) ==
  runner[r].at \in {"readMod", "readLock", "resolve", "readDep", "compiled", "checkDep", "isFile",
                    "touch", "binary", "pruneDue", "prune", "pruning", "exec", "program"} =>
    /\ runner[r].inputs.main \in 0..MaxVersion
    /\ runner[r].began.main <= runner[r].inputs.main

\* The inputs of a found or a compiled program name a locked commit.
LockedInputs(r) ==
  runner[r].at \in {"checkMain", "checkDep", "isFile", "touch", "compiled", "binary", "pruneDue",
                    "prune", "pruning", "exec", "program"} =>
    /\ runner[r].inputs \in Inputs
    /\ Entry(runner[r].inputs.tag, runner[r].inputs.dep) \in locked[runner[r].project]

\* What was read of paco.mod and paco.lock; what was resolved stays so.
Resolved(r) ==
  /\ runner[r].at \in {"readLock", "resolve", "readDep"} => runner[r].tag \in Tags
  /\ runner[r].at \in {"resolve", "readDep"} /\ runner[r].entry # None =>
       runner[r].entry \in locked[runner[r].project]
  /\ runner[r].at = "readDep" => resolve_domain_use_path(runner[r].tag, runner[r].entry)

\* A binary that was found or published is there until the cache is cleaned.
BinaryThere(r) ==
  /\ runner[r].at \in {"touch", "binary", "pruneDue", "prune", "pruning", "exec"}
       /\ ~runner[r].cleaned => is_file(runner[r].key, runner[r].inputs)
  /\ runner[r].at = "failed" => runner[r].cleaned

RunOK(r) == Began(r) /\ FreshText(r) /\ LockedInputs(r) /\ Resolved(r) /\ BinaryThere(r)

\* The inductive invariant.
IndInv ==
  /\ Typed /\ TargetsWhole /\ Getting /\ LockKnown /\ IndexKnown
  /\ \A r \in Runners : RunOK(r)

-----------------------------------------------------------------------------

USE DriverAssumption

\* What a step leaves of a process: its command, and what that command has read.
SameRun(r) ==
  /\ runner'[r].project = runner[r].project /\ runner'[r].key = runner[r].key
  /\ runner'[r].inputs = runner[r].inputs /\ runner'[r].tag = runner[r].tag
  /\ runner'[r].entry = runner[r].entry /\ runner'[r].began = runner[r].began

\* A process that a step of another does not disturb, but for the binaries it may remove.
Undisturbed(q) ==
  /\ SameRun(q) /\ runner'[q].at = runner[q].at
  /\ \/ runner'[q].cleaned = runner[q].cleaned /\ bin \subseteq bin'
     \/ runner'[q].cleaned
     \/ runner[q].at = "idle"

\* Texts, compilers and histories only grow, and a package directory stays as it is.
Grows ==
  /\ \A p \in Projects : main[p] <= main'[p] /\ locked[p] \subseteq locked'[p]
  /\ compiler <= compiler'
  /\ \A t \in Tags : pkg[t] # None => pkg'[t] = pkg[t]

\* The invariant holds of a user's machine on which nothing was built.
LEMMA InitIndInv == Init => IndInv
<1> SUFFICES ASSUME Init PROVE IndInv
  OBVIOUS
<1>1. mod \in [Projects -> Tags] /\ upstream \in [Tags -> Commits]
  BY DEF Init
<1>2. lock \in [Projects -> Entries \cup {None}]
  <2>1. {None} \cup {Entry(mod[p], c) : p \in Projects, c \in Commits} \subseteq Entries \cup {None}
    BY <1>1 DEF Entry, Entries
  <2> QED  BY <2>1 DEF Init
<1>3. locked \in [Projects -> SUBSET Entries] /\ LockKnown
  BY <1>2 DEF Init, LockKnown
<1>4. pkg \in [Tags -> Checkouts \cup {None}] /\ TargetsWhole
  <2>1. \A c \in Commits : /\ Checkout(c, TRUE) \in Checkouts
                           /\ Checkout(c, TRUE).whole = TRUE
    BY DEF Checkout, Checkouts
  <2>2. CASE \E p \in Projects, c \in Commits : pkg = Fetched(mod[p], c)
    <3>1. PICK p \in Projects, c \in Commits : pkg = Fetched(mod[p], c)
      BY <2>2
    <3> QED  BY <2>1, <3>1 DEF Fetched, TargetsWhole
  <2>3. CASE ~ \E p \in Projects, c \in Commits : pkg = Fetched(mod[p], c)
    BY <2>3 DEF Init, TargetsWhole
  <2> QED  BY <2>2, <2>3
<1>5. /\ index \in [IndexKeys -> Inputs \cup {Missing}] /\ IsFiniteSet(bin) /\ IndexKnown
      /\ main \in [Projects -> 0..MaxVersion] /\ compiler \in 0..MaxCompiler
  BY FS_EmptySet DEF Init, IndexKnown
<1>6. getter \in [Getters -> GetterStates] /\ Getting
  BY DEF Init, NoGet, GetterStates, GetPlaces, Getting, GetOK
<1>7. Idle \in RunnerStates /\ Idle.at = "idle"
  BY DEF Idle, RunnerStates, RunPlaces
<1>8. runner \in [Runners -> RunnerStates] /\ \A r \in Runners : runner[r].at = "idle"
  BY <1>7 DEF Init
<1>9. \A r \in Runners : RunOK(r)
  BY <1>8 DEF RunOK, Began, FreshText, LockedInputs, Resolved, BinaryThere
<1> QED  BY <1>1, <1>2, <1>3, <1>4, <1>5, <1>6, <1>8, <1>9 DEF IndInv, Typed

\* A process is not harmed by what the world and the others do.
LEMMA OthersUnharmed ==
  ASSUME IndInv, Typed', Grows, NEW q \in Runners, Undisturbed(q)
  PROVE  RunOK(q)'
<1>0. RunOK(q) /\ Typed /\ runner[q] \in RunnerStates
  BY DEF IndInv, Typed
<1>1. Began(q)'
  <2> SUFFICES ASSUME runner[q].at \notin {"idle", "clear", "failed"}
               PROVE  /\ runner[q].project \in Projects
                      /\ runner[q].key \in IndexKeys /\ runner[q].key.project = runner[q].project
                      /\ runner[q].began \in Begans
                      /\ runner[q].began.main <= main'[runner[q].project]
                      /\ runner[q].began.compiler <= compiler'
                      /\ runner[q].began.compiler <= runner[q].key.compiler
    BY DEF Undisturbed, SameRun, Began
  <2>1. /\ runner[q].project \in Projects
        /\ runner[q].key \in IndexKeys /\ runner[q].key.project = runner[q].project
        /\ runner[q].began \in Begans
        /\ runner[q].began.main <= main[runner[q].project]
        /\ runner[q].began.compiler <= compiler
        /\ runner[q].began.compiler <= runner[q].key.compiler
    BY <1>0 DEF RunOK, Began
  <2>2. /\ runner[q].began.main \in Int /\ runner[q].began.compiler \in Int
        /\ main[runner[q].project] \in Int /\ main'[runner[q].project] \in Int
        /\ compiler \in Int /\ compiler' \in Int
    BY <1>0, <2>1 DEF Typed, Begans
  <2>3. main[runner[q].project] <= main'[runner[q].project] /\ compiler <= compiler'
    BY <2>1 DEF Grows
  <2> QED  BY <2>1, <2>2, <2>3
<1>2. FreshText(q)'
  BY <1>0 DEF Undisturbed, SameRun, RunOK, FreshText
<1>3. LockedInputs(q)'
  BY <1>0 DEF Undisturbed, SameRun, RunOK, LockedInputs, Began, Grows
<1>4. Resolved(q)'
  <2>1. runner[q].at = "readDep" => resolve_domain_use_path(runner[q].tag, runner[q].entry)'
    BY <1>0 DEF RunOK, Resolved, Grows, resolve_domain_use_path, matches_source, Undisturbed, SameRun
  <2> QED  BY <1>0, <2>1 DEF Undisturbed, SameRun, RunOK, Resolved, Began, Grows
<1>5. BinaryThere(q)'
  BY <1>0 DEF Undisturbed, SameRun, RunOK, BinaryThere, is_file
<1> QED  BY <1>1, <1>2, <1>3, <1>4, <1>5 DEF RunOK

-----------------------------------------------------------------------------
(* The world and `paco get`.                                               *)

\* A step that touches no runner and not the build cache's files.
LEMMA WorldStep ==
  ASSUME IndInv, Typed', Grows, TargetsWhole', Getting', LockKnown',
         UNCHANGED <<runner, index, bin>>
  PROVE  IndInv'
<1>1. \A q \in Runners : RunOK(q)'
  BY OthersUnharmed DEF Undisturbed, SameRun
<1>2. IndexKnown'
  <2> SUFFICES ASSUME NEW k \in IndexKeys, index[k] # Missing
               PROVE  Entry(index[k].tag, index[k].dep) \in locked'[k.project]
    BY DEF IndexKnown
  <2>1. k.project \in Projects
    OBVIOUS
  <2> QED  BY <2>1 DEF IndInv, IndexKnown, Grows
<1> QED  BY <1>1, <1>2 DEF IndInv

\* What a step leaves alone of the other `paco get`s stays right.
LEMMA OtherGetters ==
  ASSUME IndInv, Grows, NEW g \in Getters, getter' \in [Getters -> GetterStates],
         \A h \in Getters : h # g => getter'[h] = getter[h], GetOK(getter[g])'
  PROVE  Getting'
<1> SUFFICES ASSUME NEW h \in Getters, h # g PROVE GetOK(getter[h])'
  BY DEF Getting
<1>1. GetOK(getter[h]) /\ getter'[h] = getter[h]
  BY DEF IndInv, Getting
<1>2. CASE getter[h].at \in {"fetched", "truncated"}
  <2>1. getter[h].tag \in Tags /\ pkg[getter[h].tag] # None
    BY <1>1, <1>2 DEF GetOK, Exact
  <2>2. pkg'[getter[h].tag] = pkg[getter[h].tag]
    BY <2>1 DEF Grows
  <2> QED  BY <1>1, <2>2 DEF GetOK, Exact
<1>3. CASE getter[h].at \notin {"fetched", "truncated"}
  BY <1>1, <1>3 DEF GetOK
<1> QED  BY <1>2, <1>3

\* A step of a getter that only moves the getter.
LEMMA GetterOnly ==
  ASSUME IndInv, NEW g \in Getters, NEW u \in GetterStates, GetOK(u),
         UNCHANGED <<mod, lock, locked, upstream, pkg, runner, main, compiler, index, bin>>,
         getter' = [getter EXCEPT ![g] = u]
  PROVE  IndInv'
<1>0. /\ getter' \in [Getters -> GetterStates] /\ getter'[g] = u
      /\ \A h \in Getters : h # g => getter'[h] = getter[h]
  BY DEF IndInv, Typed
<1>1. Typed'
  BY <1>0 DEF IndInv, Typed
<1>2. Grows
  BY DEF Grows, IndInv, Typed
<1>3. GetOK(getter[g])'
  BY <1>0 DEF GetOK
<1>4. Getting'
  BY <1>0, <1>2, <1>3, OtherGetters
<1>5. TargetsWhole' /\ LockKnown'
  BY DEF IndInv, TargetsWhole, LockKnown
<1> QED  BY <1>1, <1>2, <1>4, <1>5, WorldStep

\* What a getter works on.
LEMMA GetterTyped ==
  ASSUME IndInv, NEW g \in Getters
  PROVE  /\ getter \in [Getters -> GetterStates] /\ getter[g] \in GetterStates /\ GetOK(getter[g])
         /\ getter[g].asked \in Commits \cup {None} /\ getter[g].commit \in Commits \cup {None}
         /\ getter[g].at # "idle" => getter[g].project \in Projects /\ getter[g].tag \in Tags
         /\ pkg \in [Tags -> Checkouts \cup {None}] /\ upstream \in [Tags -> Commits]
<1>1. getter[g] \in GetterStates /\ GetOK(getter[g])
  BY DEF IndInv, Typed, Getting
<1> QED  BY <1>1 DEF IndInv, Typed, GetOK, GetterStates

\* A directory is made of a commit and of whether it is whole.
LEMMA CheckoutFields ==
  ASSUME NEW c \in Commits, NEW w \in BOOLEAN
  PROVE  /\ Checkout(c, w) \in Checkouts
         /\ Checkout(c, w).head = c /\ Checkout(c, w).whole = w
  BY DEF Checkout, Checkouts

\* A getter ends.
LEMMA GetterEnds ==
  NoGet \in GetterStates /\ NoGet.at = "idle" /\ GetOK(NoGet)
<1>1. NoGet \in GetterStates /\ NoGet.at = "idle"
  BY DEF NoGet, GetterStates, GetPlaces
<1> QED  BY <1>1 DEF GetOK

\* run_get reads paco.mod.
LEMMA GetStartInv ==
  ASSUME IndInv, NEW g \in Getters, NEW p \in Projects, GetStart(g, p),
         UNCHANGED <<runner, main, compiler, index, bin>>
  PROVE  IndInv'
<1> DEFINE u == [NoGet EXCEPT !.at = "modRead", !.project = p, !.tag = mod[p]]
<1>1. NoGet \in GetterStates /\ "modRead" \in GetPlaces /\ mod[p] \in Tags
  BY GetterEnds DEF GetPlaces, IndInv, Typed
<1>2. u \in GetterStates
  BY <1>1 DEF GetterStates
<1>3. u.at = "modRead" /\ u.project = p /\ u.tag = mod[p]
  BY <1>1 DEF GetterStates
<1>4. getter' = [getter EXCEPT ![g] = u] /\ UNCHANGED <<mod, lock, locked, upstream, pkg>>
  BY DEF GetStart
<1> HIDE DEF u
<1>5. GetOK(u)
  BY <1>1, <1>3 DEF GetOK
<1> QED  BY <1>2, <1>4, <1>5, GetterOnly

\* run_get reads the lock; fetch_into_cache takes the directory that is there.
LEMMA GetReadInv ==
  ASSUME IndInv, NEW g \in Getters, GetReadLock(g) \/ FetchReuse(g),
         UNCHANGED <<runner, main, compiler, index, bin>>
  PROVE  IndInv'
<1>0. {"lockRead", "fetched"} \subseteq GetPlaces /\ lock \in [Projects -> Entries \cup {None}]
  BY DEF GetPlaces, IndInv, Typed
<1>1. CASE GetReadLock(g)
  <2> DEFINE c == pin(lock[getter[g].project], getter[g].tag)
  <2>1. c \in Commits \cup {None} /\ getter[g].at = "modRead"
    BY <1>0, <1>1, GetterTyped DEF GetReadLock, pin, matches_source, Entries
  <2>2. /\ getter' = [getter EXCEPT ![g].at = "lockRead", ![g].asked = c]
        /\ UNCHANGED <<mod, lock, locked, upstream, pkg>>
    BY <1>1 DEF GetReadLock
  <2> HIDE DEF c
  <2> DEFINE u == [getter[g] EXCEPT !.at = "lockRead", !.asked = c]
  <2>3. u \in GetterStates /\ getter' = [getter EXCEPT ![g] = u]
    BY <1>0, <2>1, <2>2, GetterTyped DEF GetterStates
  <2>4. u.at = "lockRead" /\ u.project = getter[g].project /\ u.tag = getter[g].tag
    BY GetterTyped DEF GetterStates
  <2> HIDE DEF u
  <2>5. GetOK(u)
    BY <2>1, <2>4, GetterTyped DEF GetOK
  <2> QED  BY <2>2, <2>3, <2>5, GetterOnly
<1>2. CASE FetchReuse(g)
  <2> DEFINE d == pkg[getter[g].tag]
             c == reported(getter[g].tag, getter[g].asked)
  <2>1. /\ c \in Commits /\ getter[g].at = "lockRead" /\ d # None
        /\ c = IF getter[g].asked = None THEN d.head ELSE getter[g].asked
    BY <1>2, GetterTyped DEF FetchReuse, reported, Checkouts
  <2>2. /\ getter' = [getter EXCEPT ![g].at = "fetched", ![g].commit = c]
        /\ UNCHANGED <<mod, lock, locked, upstream, pkg>>
    BY <1>2 DEF FetchReuse
  <2> HIDE DEF c
  <2> DEFINE u == [getter[g] EXCEPT !.at = "fetched", !.commit = c]
  <2>3. u \in GetterStates /\ getter' = [getter EXCEPT ![g] = u]
    BY <1>0, <2>1, <2>2, GetterTyped DEF GetterStates
  <2>4. /\ u.at = "fetched" /\ u.project = getter[g].project /\ u.tag = getter[g].tag
        /\ u.asked = getter[g].asked /\ u.commit = c
    BY GetterTyped DEF GetterStates
  <2> HIDE DEF u
  <2>5. GetOK(u)
    BY <2>1, <2>4, GetterTyped DEF GetOK, Exact
  <2> QED  BY <2>2, <2>3, <2>5, GetterOnly
<1> QED  BY <1>1, <1>2

\* git works on the sibling, which only its own command can reach; commands end.
LEMMA GetGitInv ==
  ASSUME IndInv, NEW g \in Getters,
         FetchClone(g) \/ CloneEnds(g) \/ FetchPin(g) \/ PinEnds(g) \/ GetFails(g) \/ GetKilled(g),
         UNCHANGED <<runner, main, compiler, index, bin>>
  PROVE  IndInv'
<1>0. {"cloning", "cloned", "pinning", "pinned"} \subseteq GetPlaces
  BY DEF GetPlaces
<1>1. CASE FetchClone(g)
  <2> DEFINE d == Checkout(upstream[getter[g].tag], FALSE)
             u == [getter[g] EXCEPT !.at = "cloning", !.tmp = d]
  <2>1. getter[g].at = "lockRead" /\ d \in Checkouts
    BY <1>1, GetterTyped, CheckoutFields DEF FetchClone
  <2>2. getter' = [getter EXCEPT ![g].at = "cloning", ![g].tmp = d]
        /\ UNCHANGED <<mod, lock, locked, upstream, pkg>>
    BY <1>1 DEF FetchClone
  <2> HIDE DEF d
  <2>3. u \in GetterStates /\ getter' = [getter EXCEPT ![g] = u]
    BY <1>0, <2>1, <2>2, GetterTyped DEF GetterStates
  <2>4. u.at = "cloning" /\ u.project = getter[g].project /\ u.tag = getter[g].tag
    BY GetterTyped DEF GetterStates
  <2> HIDE DEF u
  <2>5. GetOK(u)
    BY <2>1, <2>4, GetterTyped DEF GetOK
  <2> QED  BY <2>2, <2>3, <2>5, GetterOnly
<1>2. CASE CloneEnds(g)
  <2> DEFINE c == upstream[getter[g].tag]
             d == Checkout(c, TRUE)
             u == [getter[g] EXCEPT !.at = "cloned", !.tmp = d, !.commit = c]
  <2>1. getter[g].at = "cloning" /\ c \in Commits
    BY <1>2, GetterTyped DEF CloneEnds
  <2>2. d \in Checkouts /\ Cloned(d, c)
    BY <2>1, CheckoutFields DEF Cloned
  <2>3. getter' = [getter EXCEPT ![g].at = "cloned", ![g].tmp = d, ![g].commit = c]
        /\ UNCHANGED <<mod, lock, locked, upstream, pkg>>
    BY <1>2 DEF CloneEnds
  <2> HIDE DEF c, d
  <2>4. u \in GetterStates /\ getter' = [getter EXCEPT ![g] = u]
    BY <1>0, <2>1, <2>2, <2>3, GetterTyped DEF GetterStates
  <2>5. /\ u.at = "cloned" /\ u.project = getter[g].project /\ u.tag = getter[g].tag
        /\ u.tmp = d /\ u.commit = c
    BY GetterTyped DEF GetterStates
  <2> HIDE DEF u
  <2>6. GetOK(u)
    BY <2>1, <2>2, <2>5, GetterTyped DEF GetOK
  <2> QED  BY <2>3, <2>4, <2>6, GetterOnly
<1>3. CASE FetchPin(g) /\ getter[g].asked \notin {None, getter[g].commit}
  <2> DEFINE d == Checkout(getter[g].commit, FALSE)
             u == [getter[g] EXCEPT !.at = "pinning", !.tmp = d]
  <2>1. getter[g].at = "cloned" /\ getter[g].commit \in Commits /\ getter[g].asked \in Commits
    BY <1>3, GetterTyped DEF FetchPin, GetOK, Cloned
  <2>2. d \in Checkouts
    BY <2>1, CheckoutFields
  <2>3. getter' = [getter EXCEPT ![g].at = "pinning", ![g].tmp = d]
        /\ UNCHANGED <<mod, lock, locked, upstream, pkg>>
    BY <1>3 DEF FetchPin
  <2> HIDE DEF d
  <2>4. u \in GetterStates /\ getter' = [getter EXCEPT ![g] = u]
    BY <1>0, <2>2, <2>3, GetterTyped DEF GetterStates
  <2>5. /\ u.at = "pinning" /\ u.project = getter[g].project /\ u.tag = getter[g].tag
        /\ u.asked = getter[g].asked
    BY GetterTyped DEF GetterStates
  <2> HIDE DEF u
  <2>6. GetOK(u)
    BY <2>1, <2>5, GetterTyped DEF GetOK
  <2> QED  BY <2>3, <2>4, <2>6, GetterOnly
<1>4. CASE FetchPin(g) /\ getter[g].asked \in {None, getter[g].commit}
  <2> DEFINE u == [getter[g] EXCEPT !.at = "pinned"]
  <2>1. getter[g].at = "cloned" /\ Cloned(getter[g].tmp, getter[g].commit)
    BY <1>4, GetterTyped DEF FetchPin, GetOK
  <2>2. getter' = [getter EXCEPT ![g].at = "pinned"]
        /\ UNCHANGED <<mod, lock, locked, upstream, pkg>>
    BY <1>4 DEF FetchPin, Goto
  <2>3. u \in GetterStates /\ getter' = [getter EXCEPT ![g] = u]
    BY <1>0, <2>2, GetterTyped DEF GetterStates
  <2>4. /\ u.at = "pinned" /\ u.project = getter[g].project /\ u.tag = getter[g].tag
        /\ u.asked = getter[g].asked /\ u.tmp = getter[g].tmp /\ u.commit = getter[g].commit
    BY GetterTyped DEF GetterStates
  <2> HIDE DEF u
  <2>5. GetOK(u)
    BY <1>4, <2>1, <2>4, GetterTyped DEF GetOK
  <2> QED  BY <2>2, <2>3, <2>5, GetterOnly
<1>5. CASE PinEnds(g)
  <2> DEFINE c == getter[g].asked
             d == Checkout(c, TRUE)
             u == [getter[g] EXCEPT !.at = "pinned", !.tmp = d, !.commit = c]
  <2>1. getter[g].at = "pinning" /\ c \in Commits
    BY <1>5, GetterTyped DEF PinEnds, GetOK
  <2>2. d \in Checkouts /\ Cloned(d, c)
    BY <2>1, CheckoutFields DEF Cloned
  <2>3. getter' = [getter EXCEPT ![g].at = "pinned", ![g].tmp = d, ![g].commit = c]
        /\ UNCHANGED <<mod, lock, locked, upstream, pkg>>
    BY <1>5 DEF PinEnds
  <2>c. c = getter[g].asked
    OBVIOUS
  <2> HIDE DEF c, d
  <2>4. u \in GetterStates /\ getter' = [getter EXCEPT ![g] = u]
    BY <1>0, <2>1, <2>2, <2>3, GetterTyped DEF GetterStates
  <2>5. /\ u.at = "pinned" /\ u.project = getter[g].project /\ u.tag = getter[g].tag
        /\ u.asked = getter[g].asked /\ u.tmp = d /\ u.commit = c
    BY GetterTyped DEF GetterStates
  <2> HIDE DEF u
  <2>6. GetOK(u)
    BY <2>1, <2>2, <2>c, <2>5, GetterTyped DEF GetOK
  <2> QED  BY <2>3, <2>4, <2>6, GetterOnly
<1>6. CASE GetFails(g) \/ GetKilled(g)
  <2>1. getter' = [getter EXCEPT ![g] = NoGet] /\ UNCHANGED <<mod, lock, locked, upstream, pkg>>
    BY <1>6 DEF GetFails, GetKilled
  <2> QED  BY <2>1, GetterEnds, GetterOnly
<1> QED  BY <1>1, <1>2, <1>3, <1>4, <1>5, <1>6

\* The rename puts a whole clone where nothing was, or leaves what is there.
LEMMA FetchRenameInv ==
  ASSUME IndInv, NEW g \in Getters, FetchRename(g),
         UNCHANGED <<runner, main, compiler, index, bin>>
  PROVE  IndInv'
<1> DEFINE t == getter[g].tag
           d == getter[g].tmp
           c == getter[g].commit
           r == reported(t, getter[g].asked)
<1>1. /\ getter[g].at = "pinned" /\ "fetched" \in GetPlaces
      /\ t \in Tags /\ getter[g].project \in Projects
      /\ Cloned(d, c) /\ getter[g].asked \in {None, c} /\ getter[g].asked \in Commits \cup {None}
      /\ pkg \in [Tags -> Checkouts \cup {None}]
      /\ UNCHANGED <<mod, lock, locked, upstream>>
  BY GetterTyped DEF FetchRename, GetPlaces, GetOK
<1>2. CASE pkg[t] = None
  <2> DEFINE u == [getter[g] EXCEPT !.at = "fetched", !.tmp = None]
  <2>1. /\ pkg' = [pkg EXCEPT ![t] = d]
        /\ getter' = [getter EXCEPT ![g].at = "fetched", ![g].tmp = None]
    BY <1>2 DEF FetchRename
  <2>2. u \in GetterStates /\ getter' = [getter EXCEPT ![g] = u]
    BY <1>1, <2>1, GetterTyped DEF GetterStates
  <2>3. /\ u.at = "fetched" /\ u.project = getter[g].project /\ u.tag = t
        /\ u.asked = getter[g].asked /\ u.commit = c
    BY GetterTyped DEF GetterStates
  <2> HIDE DEF u
  <2>4. /\ getter' \in [Getters -> GetterStates] /\ getter'[g] = u
        /\ \A h \in Getters : h # g => getter'[h] = getter[h]
    BY <2>2, GetterTyped
  <2>a. d \in Checkouts /\ d.whole /\ d.head = c /\ c \in Commits /\ d # None
    BY <1>1 DEF Cloned
  <2> HIDE DEF d, t, c
  <2>5. /\ pkg' \in [Tags -> Checkouts \cup {None}] /\ pkg'[t] = d
        /\ \A s \in Tags : s # t => pkg'[s] = pkg[s]
    BY <1>1, <2>1, <2>a
  <2>6. Typed'
    BY <1>1, <2>4, <2>5 DEF IndInv, Typed
  <2>7. Grows
    BY <1>1, <1>2, <2>5 DEF Grows, IndInv, Typed
  <2>8. TargetsWhole'
    BY <2>5, <2>a DEF IndInv, TargetsWhole
  <2>9. GetOK(getter[g])'
    <3>1. getter'[g].project \in Projects /\ getter'[g].tag \in Tags
      BY <1>1, <2>3, <2>4
    <3>2. Exact(getter'[g], pkg'[getter'[g].tag])
      BY <1>1, <2>3, <2>4, <2>5, <2>a DEF Exact
    <3>3. getter'[g].at = "fetched"
      BY <2>3, <2>4
    <3> QED  BY <3>1, <3>2, <3>3 DEF GetOK
  <2>10. Getting'
    BY <2>4, <2>7, <2>9, OtherGetters
  <2>11. LockKnown'
    BY <1>1 DEF IndInv, LockKnown
  <2> QED  BY <2>6, <2>7, <2>8, <2>10, <2>11, WorldStep
<1>3. CASE pkg[t] # None
  <2> DEFINE u == [getter[g] EXCEPT !.at = "fetched", !.tmp = None, !.commit = r]
  <2>1. pkg' = pkg /\ getter' = [getter EXCEPT ![g].at = "fetched", ![g].tmp = None, ![g].commit = r]
    BY <1>3 DEF FetchRename
  <2>2. /\ r \in Commits
        /\ r = IF getter[g].asked = None THEN pkg[t].head ELSE getter[g].asked
    BY <1>1, <1>3 DEF reported, Checkouts
  <2> HIDE DEF r
  <2>3. u \in GetterStates /\ getter' = [getter EXCEPT ![g] = u]
    BY <1>1, <2>1, <2>2, GetterTyped DEF GetterStates
  <2>4. /\ u.at = "fetched" /\ u.project = getter[g].project /\ u.tag = t
        /\ u.asked = getter[g].asked /\ u.commit = r
    BY GetterTyped DEF GetterStates
  <2> HIDE DEF u
  <2>5. GetOK(u)
    BY <1>1, <1>3, <2>2, <2>4 DEF GetOK, Exact
  <2> QED  BY <1>1, <2>1, <2>3, <2>5, GetterOnly
<1> QED  BY <1>2, <1>3

\* Lockfile::write leaves no entry, or one that the history knows.
LEMMA LockInv ==
  ASSUME IndInv, NEW g \in Getters, LockTruncate(g) \/ LockWrite(g),
         UNCHANGED <<runner, main, compiler, index, bin>>
  PROVE  IndInv'
<1>1. /\ getter[g].at \in {"fetched", "truncated"}
      /\ getter[g].project \in Projects /\ getter[g].tag \in Tags
      /\ getter[g].commit \in Commits /\ Exact(getter[g], pkg[getter[g].tag])
      /\ lock \in [Projects -> Entries \cup {None}] /\ locked \in [Projects -> SUBSET Entries]
      /\ UNCHANGED <<mod, upstream, pkg>>
  BY GetterTyped DEF LockTruncate, LockWrite, IndInv, Typed, GetOK, Exact
<1>2. CASE LockTruncate(g)
  <2>1. /\ getter[g].at = "fetched" /\ "truncated" \in GetPlaces
        /\ getter' = [getter EXCEPT ![g].at = "truncated"]
        /\ lock' = [lock EXCEPT ![getter[g].project] = None] /\ locked' = locked
    BY <1>2 DEF LockTruncate, Goto, GetPlaces
  <2> DEFINE u == [getter[g] EXCEPT !.at = "truncated"]
  <2>a. u \in GetterStates /\ getter' = [getter EXCEPT ![g] = u]
    BY <2>1, GetterTyped DEF GetterStates
  <2>b. /\ u.at = "truncated" /\ u.project = getter[g].project /\ u.tag = getter[g].tag
        /\ u.asked = getter[g].asked /\ u.commit = getter[g].commit
    BY GetterTyped DEF GetterStates
  <2> HIDE DEF u
  <2>2. /\ getter' \in [Getters -> GetterStates] /\ getter'[g] = u
        /\ \A h \in Getters : h # g => getter'[h] = getter[h]
    BY <2>a, GetterTyped
  <2>3. Typed'
    <3>1. lock' \in [Projects -> Entries \cup {None}]
      BY <1>1, <2>1
    <3> QED  BY <1>1, <2>1, <2>2, <3>1 DEF IndInv, Typed
  <2>4. Grows
    BY <1>1, <2>1 DEF Grows, IndInv, Typed
  <2>5. TargetsWhole'
    BY <1>1 DEF IndInv, TargetsWhole
  <2>c. GetOK(getter[g])'
    BY <1>1, <2>2, <2>b DEF GetOK, Exact
  <2>6. Getting'
    BY <2>2, <2>4, <2>c, OtherGetters
  <2>7. LockKnown'
    BY <1>1, <2>1 DEF IndInv, LockKnown
  <2> QED  BY <2>3, <2>4, <2>5, <2>6, <2>7, WorldStep
<1>3. CASE LockWrite(g)
  <2> DEFINE e == Entry(getter[g].tag, getter[g].commit)
             p == getter[g].project
  <2>1. /\ getter' = [getter EXCEPT ![g] = NoGet]
        /\ lock' = [lock EXCEPT ![p] = e]
        /\ locked' = [locked EXCEPT ![p] = locked[p] \cup {e}]
    BY <1>1, <1>3 DEF LockWrite
  <2>2. e \in Entries
    BY <1>1 DEF Entry, Entries
  <2>3. /\ getter' \in [Getters -> GetterStates] /\ getter'[g] = NoGet
        /\ \A h \in Getters : h # g => getter'[h] = getter[h]
    BY <2>1, GetterEnds, GetterTyped
  <2> HIDE DEF e, p
  <2>4. p \in Projects
    BY <1>1 DEF p
  <2>5. /\ lock' \in [Projects -> Entries \cup {None}] /\ lock'[p] = e
        /\ \A q \in Projects : q # p => lock'[q] = lock[q]
    BY <1>1, <2>1, <2>2, <2>4
  <2>6. /\ locked' \in [Projects -> SUBSET Entries] /\ locked'[p] = locked[p] \cup {e}
        /\ \A q \in Projects : q # p => locked'[q] = locked[q]
    BY <1>1, <2>1, <2>2, <2>4
  <2>7. Typed'
    BY <1>1, <2>3, <2>5, <2>6 DEF IndInv, Typed
  <2>8. Grows
    BY <1>1, <2>6 DEF Grows, IndInv, Typed
  <2>9. TargetsWhole'
    BY <1>1 DEF IndInv, TargetsWhole
  <2>a. GetOK(getter[g])'
    BY <2>3, GetterEnds DEF GetOK
  <2>10. Getting'
    BY <2>3, <2>8, <2>a, OtherGetters
  <2>11. LockKnown'
    BY <2>5, <2>6 DEF IndInv, LockKnown
  <2> QED  BY <2>7, <2>8, <2>9, <2>10, <2>11, WorldStep
<1> QED  BY <1>2, <1>3

\* Edits, updates, moved tags and days.
LEMMA WorldInv ==
  ASSUME IndInv, World
  PROVE  IndInv'
<1>1. UNCHANGED <<lock, locked, pkg, getter, runner, index, bin>>
  BY DEF World, EditMain, UpdateCompiler, Ages, EditMod, MoveTag, KeepCache, buildVars, pkgVars
<1>2. main' \in [Projects -> 0..MaxVersion] /\ \A p \in Projects : main[p] <= main'[p]
  <2>1. main' = main \/ \E p \in Projects : main[p] < MaxVersion /\ main' = [main EXCEPT ![p] = @ + 1]
    BY DEF World, EditMain, UpdateCompiler, EditMod, MoveTag
  <2>2. main \in [Projects -> 0..MaxVersion]
    BY DEF IndInv, Typed
  <2> QED  BY <2>1, <2>2
<1>3. compiler' \in 0..MaxCompiler /\ compiler <= compiler'
  <2>1. compiler' = compiler \/ (compiler < MaxCompiler /\ compiler' = compiler + 1)
    BY DEF World, EditMain, UpdateCompiler, EditMod, MoveTag
  <2>2. compiler \in 0..MaxCompiler
    BY DEF IndInv, Typed
  <2> QED  BY <2>1, <2>2
<1>4. mod' \in [Projects -> Tags] /\ upstream' \in [Tags -> Commits]
  <2>1. mod' = mod \/ \E p \in Projects, t \in Tags : mod' = [mod EXCEPT ![p] = t]
    BY DEF World, EditMain, UpdateCompiler, EditMod, MoveTag, pkgVars
  <2>2. upstream' = upstream \/ \E t \in Tags, c \in Commits : upstream' = [upstream EXCEPT ![t] = c]
    BY DEF World, EditMain, UpdateCompiler, EditMod, MoveTag, pkgVars
  <2> QED  BY <2>1, <2>2 DEF IndInv, Typed
<1>5. Typed'
  BY <1>1, <1>2, <1>3, <1>4 DEF IndInv, Typed
<1>6. Grows
  BY <1>1, <1>2, <1>3 DEF Grows
<1>7. TargetsWhole' /\ Getting' /\ LockKnown'
  BY <1>1 DEF IndInv, TargetsWhole, Getting, GetOK, LockKnown
<1> QED  BY <1>1, <1>5, <1>6, <1>7, WorldStep

-----------------------------------------------------------------------------
(* `paco run` and `paco clean`.                                            *)

\* A step of a runner: what it must keep, of itself, of the others and of the index.
LEMMA RunnerStep ==
  ASSUME IndInv, KeepWorld, NEW r \in Runners,
         runner' \in [Runners -> RunnerStates], RunOK(r)',
         \A q \in Runners : q # r => Undisturbed(q),
         index' \in [IndexKeys -> Inputs \cup {Missing}], IsFiniteSet(bin'),
         \A k \in IndexKeys : \/ index'[k] \in {index[k], Missing}
                              \/ Entry(index'[k].tag, index'[k].dep) \in locked[k.project]
  PROVE  IndInv'
<1>1. UNCHANGED <<main, compiler, changes, mod, lock, locked, upstream, pkg, getter>>
  BY DEF KeepWorld
<1>2. Typed'
  BY <1>1 DEF IndInv, Typed
<1>3. Grows
  BY <1>1 DEF Grows, IndInv, Typed
<1>4. \A q \in Runners : RunOK(q)'
  BY <1>2, <1>3, OthersUnharmed
<1>5. IndexKnown'
  BY <1>1 DEF IndInv, IndexKnown
<1>6. TargetsWhole' /\ Getting' /\ LockKnown'
  BY <1>1 DEF IndInv, TargetsWhole, Getting, GetOK, LockKnown
<1> QED  BY <1>2, <1>4, <1>5, <1>6 DEF IndInv

\* A step of a runner that leaves the build cache alone.
LEMMA RunnerOnly ==
  ASSUME IndInv, KeepWorld, NEW r \in Runners, index' = index, bin' = bin,
         runner' \in [Runners -> RunnerStates], RunOK(r)',
         \A q \in Runners : q # r => runner'[q] = runner[q]
  PROVE  IndInv'
<1>1. \A q \in Runners : q # r => Undisturbed(q)
  BY DEF Undisturbed, SameRun
<1> QED  BY <1>1, RunnerStep DEF IndInv, Typed

\* A runner's record is replaced by another.
LEMMA RunnerSet ==
  ASSUME IndInv, NEW r \in Runners, NEW u \in RunnerStates, runner' = [runner EXCEPT ![r] = u]
  PROVE  /\ runner' \in [Runners -> RunnerStates] /\ runner'[r] = u
         /\ \A q \in Runners : q # r => runner'[q] = runner[q]
  BY DEF IndInv, Typed

\* A runner goes on to its next step, having read nothing.
LEMMA RunnerGoes ==
  ASSUME IndInv, NEW r \in Runners, NEW w \in RunPlaces, Go(r, w)
  PROVE  /\ runner' \in [Runners -> RunnerStates]
         /\ runner'[r].at = w /\ SameRun(r) /\ runner'[r].cleaned = runner[r].cleaned
         /\ \A q \in Runners : q # r => runner'[q] = runner[q]
<1> DEFINE u == [runner[r] EXCEPT !.at = w]
<1>1. runner[r] \in RunnerStates /\ runner' = [runner EXCEPT ![r] = u]
  BY DEF IndInv, Typed, Go
<1>2. u \in RunnerStates
  BY <1>1 DEF RunnerStates
<1>3. /\ u.at = w /\ u.cleaned = runner[r].cleaned /\ u.project = runner[r].project
      /\ u.key = runner[r].key /\ u.inputs = runner[r].inputs /\ u.tag = runner[r].tag
      /\ u.entry = runner[r].entry /\ u.began = runner[r].began
  BY <1>1 DEF RunnerStates
<1> HIDE DEF u
<1>4. /\ runner' \in [Runners -> RunnerStates] /\ runner'[r] = u
      /\ \A q \in Runners : q # r => runner'[q] = runner[q]
  BY <1>1, <1>2, RunnerSet
<1> QED  BY <1>3, <1>4 DEF SameRun

\* A runner outside any command has nothing to keep.
LEMMA IdleTyped == Idle \in RunnerStates /\ Idle.at = "idle"
  BY DEF Idle, RunnerStates, RunPlaces

\* A command starts: what it compares later is what the world looks like now.
LEMMA StartInv ==
  ASSUME IndInv, NEW r \in Runners,
         (\E p \in Projects : RunStart(r, p)) \/ CleanStart(r)
  PROVE  IndInv'
<1>1. CASE \E p \in Projects : RunStart(r, p)
  <2>1. PICK p \in Projects : RunStart(r, p)
    BY <1>1
  <2> DEFINE k == run_key(p)
             b == [main |-> main[p], compiler |-> compiler, tag |-> mod[p]]
             u == [Idle EXCEPT !.at = "lookup", !.project = p, !.key = k, !.began = b]
  <2>2. /\ k \in IndexKeys /\ k.project = p /\ k.compiler = compiler
        /\ b \in Begans /\ b.main = main[p] /\ b.compiler = compiler
        /\ main[p] \in Int /\ compiler \in Int
    BY DEF run_key, Begans, IndInv, Typed
  <2>3. runner' = [runner EXCEPT ![r] = u] /\ index' = index /\ bin' = bin /\ KeepWorld
    BY <2>1 DEF RunStart, KeepCache, buildVars
  <2> HIDE DEF k, b
  <2>4. u \in RunnerStates
    <3>1. "lookup" \in RunPlaces
      BY DEF RunPlaces
    <3> QED  BY <2>2, <3>1, IdleTyped DEF RunnerStates
  <2>5. u.at = "lookup" /\ u.project = p /\ u.key = k /\ u.began = b
    BY IdleTyped DEF RunnerStates
  <2> HIDE DEF u
  <2>6. /\ runner' \in [Runners -> RunnerStates] /\ runner'[r] = u
        /\ \A q \in Runners : q # r => runner'[q] = runner[q]
    BY <2>3, <2>4, RunnerSet
  <2>7. main' = main /\ compiler' = compiler
    BY <2>3 DEF KeepWorld
  <2>8. RunOK(r)'
    BY <2>2, <2>5, <2>6, <2>7 DEF RunOK, Began, FreshText, LockedInputs, Resolved, BinaryThere
  <2> QED  BY <2>3, <2>6, <2>8, RunnerOnly
<1>2. CASE CleanStart(r)
  <2> DEFINE u == [Idle EXCEPT !.at = "clear", !.clearing = {"bin", "index", "marker"}]
  <2>1. runner' = [runner EXCEPT ![r] = u] /\ index' = index /\ bin' = bin /\ KeepWorld
    BY <1>2 DEF CleanStart, KeepCache, buildVars
  <2>2. u \in RunnerStates
    <3>1. "clear" \in RunPlaces
      BY DEF RunPlaces
    <3> QED  BY <3>1, IdleTyped DEF RunnerStates
  <2>3. u.at = "clear"
    BY IdleTyped DEF RunnerStates
  <2> HIDE DEF u
  <2>4. /\ runner' \in [Runners -> RunnerStates] /\ runner'[r] = u
        /\ \A q \in Runners : q # r => runner'[q] = runner[q]
    BY <2>1, <2>2, RunnerSet
  <2>5. RunOK(r)'
    BY <2>3, <2>4 DEF RunOK, Began, FreshText, LockedInputs, Resolved, BinaryThere
  <2> QED  BY <2>1, <2>4, <2>5, RunnerOnly
<1> QED  BY <1>1, <1>2

\* A command ends.
LEMMA EndInv ==
  ASSUME IndInv, NEW r \in Runners, CompileFails(r) \/ RunKilled(r) \/ Exited(r)
  PROVE  IndInv'
<1>1. runner' = [runner EXCEPT ![r] = Idle] /\ index' = index /\ bin' = bin /\ KeepWorld
  BY DEF CompileFails, RunKilled, Exited, KeepCache, buildVars
<1>2. /\ runner' \in [Runners -> RunnerStates] /\ runner'[r].at = "idle"
      /\ \A q \in Runners : q # r => runner'[q] = runner[q]
  BY <1>1, RunnerSet, IdleTyped
<1>3. RunOK(r)'
  BY <1>2 DEF RunOK, Began, FreshText, LockedInputs, Resolved, BinaryThere
<1> QED  BY <1>1, <1>2, <1>3, RunnerOnly

\* A miss: the compiler looks again, with its own identity, or compiles.
LEMMA MissedInv ==
  ASSUME IndInv, NEW r \in Runners, Missed(r), KeepWorld, index' = index, bin' = bin,
         runner[r].at \in {"lookup", "checkMain", "checkDep", "isFile"}
  PROVE  IndInv'
<1>0. /\ runner[r] \in RunnerStates /\ runner \in [Runners -> RunnerStates]
      /\ runner[r].project \in Projects /\ compiler \in 0..MaxCompiler
      /\ Began(r)
  BY DEF IndInv, Typed, RunOK, Began
<1>00. main' = main /\ compiler' = compiler
  BY DEF KeepWorld
<1>1. CASE runner[r].compiling
  <2>1. Go(r, "readMain") /\ "readMain" \in RunPlaces
    BY <1>1 DEF Missed, RunPlaces
  <2>2. /\ runner' \in [Runners -> RunnerStates]
        /\ runner'[r].at = "readMain" /\ SameRun(r)
        /\ \A q \in Runners : q # r => runner'[q] = runner[q]
    BY <2>1, RunnerGoes
  <2>3. RunOK(r)'
    BY <1>0, <1>00, <2>2 DEF RunOK, Began, FreshText, LockedInputs, Resolved, BinaryThere, SameRun
  <2> QED  BY <2>2, <2>3, RunnerOnly
<1>2. CASE ~runner[r].compiling
  <2> DEFINE k == run_key(runner[r].project)
             u == [runner[r] EXCEPT !.at = "lookup", !.compiling = TRUE, !.key = k]
  <2>1. runner' = [runner EXCEPT ![r] = u]
    BY <1>0, <1>2 DEF Missed
  <2>2. k \in IndexKeys /\ k.project = runner[r].project /\ k.compiler = compiler
    BY <1>0 DEF run_key
  <2> HIDE DEF k
  <2>3. u \in RunnerStates
    <3>1. "lookup" \in RunPlaces
      BY DEF RunPlaces
    <3> QED  BY <1>0, <2>2, <3>1 DEF RunnerStates
  <2>4. /\ u.at = "lookup" /\ u.key = k
        /\ u.project = runner[r].project /\ u.began = runner[r].began
    BY <1>0 DEF RunnerStates
  <2> HIDE DEF u
  <2>5. /\ runner' \in [Runners -> RunnerStates] /\ runner'[r] = u
        /\ \A q \in Runners : q # r => runner'[q] = runner[q]
    BY <2>1, <2>3, RunnerSet
  <2>6. RunOK(r)'
    BY <1>0, <1>00, <2>2, <2>4, <2>5
       DEF RunOK, Began, FreshText, LockedInputs, Resolved, BinaryThere
  <2> QED  BY <2>5, <2>6, RunnerOnly
<1> QED  BY <1>1, <1>2

\* A step that only goes on, when what the next step needs is known already.
LEMMA GoInv ==
  ASSUME IndInv, NEW r \in Runners, NEW w \in RunPlaces, Go(r, w), KeepWorld,
         index' = index, bin' = bin,
         <<runner[r].at, w>> \in {<<"checkDep", "isFile">>, <<"touch", "exec">>,
                                  <<"pruneDue", "prune">>, <<"pruneDue", "exec">>,
                                  <<"pruning", "exec">>}
           \/ (runner[r].at = "isFile" /\ w = "touch" /\ is_file(runner[r].key, runner[r].inputs))
           \/ (runner[r].at = "exec" /\ w = "program")
           \/ (runner[r].at = "exec" /\ w = "failed" /\ ~is_file(runner[r].key, runner[r].inputs))
           \/ (/\ runner[r].at = "checkMain" /\ w = "checkDep"
               /\ runner[r].inputs.main = main[runner[r].project])
           \/ (/\ runner[r].at = "resolve" /\ w = "readDep"
               /\ resolve_domain_use_path(runner[r].tag, runner[r].entry))
  PROVE  IndInv'
<1>1. /\ runner' \in [Runners -> RunnerStates]
      /\ runner'[r].at = w /\ SameRun(r) /\ runner'[r].cleaned = runner[r].cleaned
      /\ \A q \in Runners : q # r => runner'[q] = runner[q]
  BY RunnerGoes
<1>2. UNCHANGED <<main, compiler, locked, pkg>>
  BY DEF KeepWorld
<1>3. RunOK(r) /\ runner[r].cleaned \in BOOLEAN
  <2>1. runner[r] \in RunnerStates
    BY DEF IndInv, Typed
  <2> QED  BY <2>1 DEF IndInv, RunnerStates
<1>4. Began(r)'
  BY <1>1, <1>2, <1>3 DEF RunOK, Began, SameRun
<1>5. FreshText(r)'
  <2>1. CASE runner[r].at = "checkMain"
    <3>1. /\ runner[r].inputs.main = main[runner[r].project]
          /\ runner[r].project \in Projects /\ main \in [Projects -> 0..MaxVersion]
          /\ runner[r].began.main <= main[runner[r].project]
      BY <1>3, <2>1 DEF RunOK, Began, IndInv, Typed
    <3> QED  BY <1>1, <3>1 DEF FreshText, SameRun
  <2>2. CASE runner[r].at # "checkMain"
    BY <1>1, <1>3, <2>2 DEF RunOK, FreshText, SameRun
  <2> QED  BY <2>1, <2>2
<1>6. LockedInputs(r)'
  BY <1>1, <1>2, <1>3 DEF RunOK, LockedInputs, SameRun
<1>7. Resolved(r)'
  BY <1>1, <1>2, <1>3 DEF RunOK, Resolved, SameRun, resolve_domain_use_path, matches_source
<1>8. BinaryThere(r)'
  BY <1>1, <1>3 DEF RunOK, BinaryThere, SameRun, is_file
<1>9. RunOK(r)'
  BY <1>4, <1>5, <1>6, <1>7, <1>8 DEF RunOK
<1> QED  BY <1>1, <1>9, RunnerOnly

\* Cache::lookup.
LEMMA LookupInv ==
  ASSUME IndInv, NEW r \in Runners,
         Lookup(r) \/ LookupMain(r) \/ LookupDep(r) \/ LookupIsFile(r) \/ LookupTouch(r)
  PROVE  IndInv'
<1>1. KeepWorld /\ index' = index /\ bin' = bin
  BY DEF Lookup, LookupMain, LookupDep, LookupIsFile, LookupTouch, KeepCache, buildVars, touch
<1>2. {"checkMain", "checkDep", "isFile", "touch", "exec"} \subseteq RunPlaces
  BY DEF RunPlaces
<1>3. CASE Missed(r) /\ runner[r].at \in {"lookup", "checkMain", "checkDep", "isFile"}
  BY <1>1, <1>3, MissedInv
<1>4. CASE Lookup(r) /\ index[runner[r].key] # Missing
  <2> DEFINE i == index[runner[r].key]
             u == [runner[r] EXCEPT !.at = "checkMain", !.inputs = i]
  <2>0. runner[r] \in RunnerStates /\ RunOK(r) /\ runner[r].at = "lookup"
    BY <1>4 DEF IndInv, Typed, Lookup, At
  <2>1. /\ i \in Inputs /\ Entry(i.tag, i.dep) \in locked[runner[r].project]
    BY <1>4, <2>0 DEF IndInv, Typed, RunOK, Began, IndexKnown
  <2>2. runner' = [runner EXCEPT ![r] = u]
    BY <1>4 DEF Lookup, IndInv, Typed
  <2> HIDE DEF i
  <2>3. u \in RunnerStates
    BY <1>2, <2>0, <2>1 DEF RunnerStates
  <2>4. /\ u.at = "checkMain" /\ u.inputs = i /\ u.key = runner[r].key
        /\ u.project = runner[r].project /\ u.began = runner[r].began
    BY <2>0 DEF RunnerStates
  <2> HIDE DEF u
  <2>5. /\ runner' \in [Runners -> RunnerStates] /\ runner'[r] = u
        /\ \A q \in Runners : q # r => runner'[q] = runner[q]
    BY <2>2, <2>3, RunnerSet
  <2>6. UNCHANGED <<main, compiler, locked>>
    BY <1>1 DEF KeepWorld
  <2>7. RunOK(r)'
    BY <2>0, <2>1, <2>4, <2>5, <2>6
       DEF RunOK, Began, FreshText, LockedInputs, Resolved, BinaryThere
  <2> QED  BY <1>1, <2>5, <2>7, RunnerOnly
<1>5. CASE /\ LookupMain(r) /\ Go(r, "checkDep") /\ runner[r].at = "checkMain"
           /\ runner[r].inputs.main = main[runner[r].project]
  BY <1>1, <1>2, <1>5, GoInv
<1>6. CASE LookupDep(r) /\ Go(r, "isFile") /\ runner[r].at = "checkDep"
  BY <1>1, <1>2, <1>6, GoInv
<1>7. CASE /\ LookupIsFile(r) /\ Go(r, "touch") /\ runner[r].at = "isFile"
           /\ is_file(runner[r].key, runner[r].inputs)
  BY <1>1, <1>2, <1>7, GoInv
<1>8. CASE LookupTouch(r) /\ Go(r, "exec") /\ runner[r].at = "touch"
  BY <1>1, <1>2, <1>8, GoInv
<1> QED
  BY <1>3, <1>4, <1>5, <1>6, <1>7, <1>8
     DEF Lookup, LookupMain, LookupDep, LookupIsFile, LookupTouch, At

\* compile reads main.paco, paco.mod, paco.lock and the dependency, in that order.
LEMMA CompileInv ==
  ASSUME IndInv, NEW r \in Runners,
         CompileRead(r) \/ LoadMod(r) \/ LoadLock(r) \/ CompileResolve(r) \/ CompileReadDep(r)
  PROVE  IndInv'
<1>1. KeepWorld /\ index' = index /\ bin' = bin
  BY DEF CompileRead, LoadMod, LoadLock, CompileResolve, CompileReadDep, KeepCache, buildVars
<1>2. {"readMod", "readLock", "resolve", "readDep", "compiled"} \subseteq RunPlaces
  BY DEF RunPlaces
<1>3. /\ runner[r] \in RunnerStates /\ runner \in [Runners -> RunnerStates] /\ RunOK(r)
      /\ runner[r].at \in {"readMain", "readMod", "readLock", "resolve", "readDep"}
  BY DEF IndInv, Typed, CompileRead, LoadMod, LoadLock, CompileResolve, CompileReadDep, At
<1>4. /\ runner[r].project \in Projects /\ runner[r].began.main <= main[runner[r].project]
      /\ main[runner[r].project] \in 0..MaxVersion /\ mod[runner[r].project] \in Tags
      /\ lock[runner[r].project] \in Entries \cup {None}
      /\ lock[runner[r].project] # None => lock[runner[r].project] \in locked[runner[r].project]
  BY <1>3 DEF RunOK, Began, IndInv, Typed, LockKnown
<1>5. UNCHANGED <<main, compiler, locked, pkg>>
  BY <1>1 DEF KeepWorld
<1>6. CASE CompileRead(r)
  <2> DEFINE i == [main |-> main[runner[r].project]]
             u == [runner[r] EXCEPT !.at = "readMod", !.inputs = i]
  <2>1. runner' = [runner EXCEPT ![r] = u] /\ runner[r].at = "readMain"
    BY <1>3, <1>6 DEF CompileRead, At
  <2>2. i \in Texts /\ i.main = main[runner[r].project]
    BY <1>4 DEF Texts
  <2> HIDE DEF i
  <2>3. u \in RunnerStates
    BY <1>2, <1>3, <2>2 DEF RunnerStates
  <2>4. /\ u.at = "readMod" /\ u.inputs = i /\ u.key = runner[r].key
        /\ u.project = runner[r].project /\ u.began = runner[r].began
    BY <1>3 DEF RunnerStates
  <2> HIDE DEF u
  <2>5. /\ runner' \in [Runners -> RunnerStates] /\ runner'[r] = u
        /\ \A q \in Runners : q # r => runner'[q] = runner[q]
    BY <2>1, <2>3, RunnerSet
  <2>6. RunOK(r)'
    BY <1>3, <1>4, <1>5, <2>1, <2>2, <2>4, <2>5
       DEF RunOK, Began, FreshText, LockedInputs, Resolved, BinaryThere
  <2> QED  BY <1>1, <2>5, <2>6, RunnerOnly
<1>7. CASE LoadMod(r)
  <2> DEFINE t == mod[runner[r].project]
             u == [runner[r] EXCEPT !.at = "readLock", !.tag = t]
  <2>1. runner' = [runner EXCEPT ![r] = u] /\ runner[r].at = "readMod" /\ t \in Tags
    BY <1>3, <1>4, <1>7 DEF LoadMod, At
  <2> HIDE DEF t
  <2>2. u \in RunnerStates
    BY <1>2, <1>3, <2>1 DEF RunnerStates
  <2>3. /\ u.at = "readLock" /\ u.tag = t /\ u.key = runner[r].key /\ u.inputs = runner[r].inputs
        /\ u.project = runner[r].project /\ u.began = runner[r].began
    BY <1>3 DEF RunnerStates
  <2> HIDE DEF u
  <2>4. /\ runner' \in [Runners -> RunnerStates] /\ runner'[r] = u
        /\ \A q \in Runners : q # r => runner'[q] = runner[q]
    BY <2>1, <2>2, RunnerSet
  <2>5. RunOK(r)'
    BY <1>3, <1>5, <2>1, <2>3, <2>4
       DEF RunOK, Began, FreshText, LockedInputs, Resolved, BinaryThere
  <2> QED  BY <1>1, <2>4, <2>5, RunnerOnly
<1>8. CASE LoadLock(r)
  <2> DEFINE e == lock[runner[r].project]
             u == [runner[r] EXCEPT !.at = "resolve", !.entry = e]
  <2>1. /\ runner' = [runner EXCEPT ![r] = u] /\ runner[r].at = "readLock"
        /\ e \in Entries \cup {None} /\ (e # None => e \in locked[runner[r].project])
    BY <1>3, <1>4, <1>8 DEF LoadLock, At
  <2> HIDE DEF e
  <2>2. u \in RunnerStates
    BY <1>2, <1>3, <2>1 DEF RunnerStates
  <2>3. /\ u.at = "resolve" /\ u.entry = e /\ u.tag = runner[r].tag /\ u.key = runner[r].key
        /\ u.inputs = runner[r].inputs /\ u.project = runner[r].project
        /\ u.began = runner[r].began
    BY <1>3 DEF RunnerStates
  <2> HIDE DEF u
  <2>4. /\ runner' \in [Runners -> RunnerStates] /\ runner'[r] = u
        /\ \A q \in Runners : q # r => runner'[q] = runner[q]
    BY <2>1, <2>2, RunnerSet
  <2>5. RunOK(r)'
    BY <1>3, <1>5, <2>1, <2>3, <2>4
       DEF RunOK, Began, FreshText, LockedInputs, Resolved, BinaryThere
  <2> QED  BY <1>1, <2>4, <2>5, RunnerOnly
<1>9. CASE CompileResolve(r)
  BY <1>1, <1>2, <1>9, GoInv DEF CompileResolve, At
<1>10. CASE CompileReadDep(r)
  <2> DEFINE t == runner[r].tag
             i == [main |-> runner[r].inputs.main, tag |-> t, dep |-> pkg[t].head]
             u == [runner[r] EXCEPT !.at = "compiled", !.inputs = i]
  <2>1. runner' = [runner EXCEPT ![r] = u] /\ runner[r].at = "readDep"
    BY <1>3, <1>10 DEF CompileReadDep, At
  <2>2. /\ t \in Tags /\ runner[r].entry \in Entries /\ runner[r].entry.tag = t
        /\ pkg[t].head = runner[r].entry.commit
        /\ runner[r].entry \in locked[runner[r].project]
        /\ runner[r].inputs.main \in 0..MaxVersion
        /\ runner[r].began.main <= runner[r].inputs.main
    BY <1>3, <2>1 DEF RunOK, Resolved, FreshText, resolve_domain_use_path, matches_source,
                      RunnerStates
  <2>3. /\ i \in Inputs /\ i.main = runner[r].inputs.main
        /\ Entry(i.tag, i.dep) = runner[r].entry
    BY <2>2 DEF Entry, Entries
  <2> HIDE DEF i
  <2>4. u \in RunnerStates
    BY <1>2, <1>3, <2>3 DEF RunnerStates
  <2>5. /\ u.at = "compiled" /\ u.inputs = i /\ u.key = runner[r].key
        /\ u.project = runner[r].project /\ u.began = runner[r].began
    BY <1>3 DEF RunnerStates
  <2> HIDE DEF u
  <2>6. /\ runner' \in [Runners -> RunnerStates] /\ runner'[r] = u
        /\ \A q \in Runners : q # r => runner'[q] = runner[q]
    BY <2>1, <2>4, RunnerSet
  <2>7. RunOK(r)'
    BY <1>3, <1>5, <2>1, <2>2, <2>3, <2>5, <2>6
       DEF RunOK, Began, FreshText, LockedInputs, Resolved, BinaryThere
  <2> QED  BY <1>1, <2>6, <2>7, RunnerOnly
<1> QED  BY <1>6, <1>7, <1>8, <1>9, <1>10

\* Cache::publish: the binary is there before the manifest names it, and what the manifest
\* names is what was compiled.
LEMMA PublishInv ==
  ASSUME IndInv, NEW r \in Runners, RunPublishBinary(r) \/ RunPublishManifest(r)
  PROVE  IndInv'
<1>1. KeepWorld /\ {"binary", "pruneDue"} \subseteq RunPlaces /\ RunOK(r)
  BY DEF RunPublishBinary, RunPublishManifest, RunPlaces, IndInv
<1>2. UNCHANGED <<main, compiler, locked, pkg>>
  BY <1>1 DEF KeepWorld
<1>3. CASE RunPublishBinary(r)
  <2>1. /\ runner[r].at = "compiled" /\ Go(r, "binary") /\ index' = index
        /\ bin' = bin \cup {output(runner[r].key, runner[r].inputs)}
    BY <1>3 DEF RunPublishBinary, PublishBinary, At
  <2>2. /\ runner' \in [Runners -> RunnerStates]
        /\ runner'[r].at = "binary" /\ SameRun(r)
        /\ \A q \in Runners : q # r => runner'[q] = runner[q]
    BY <1>1, <2>1, RunnerGoes
  <2>3. \A q \in Runners : q # r => Undisturbed(q)
    BY <2>1, <2>2 DEF Undisturbed, SameRun
  <2>4. IsFiniteSet(bin')
    BY <2>1, FS_AddElement DEF IndInv, Typed
  <2>5. RunOK(r)'
    BY <1>1, <1>2, <2>1, <2>2
       DEF RunOK, Began, FreshText, LockedInputs, Resolved, BinaryThere, SameRun, is_file
  <2>6. index' \in [IndexKeys -> Inputs \cup {Missing}]
    BY <2>1 DEF IndInv, Typed
  <2> QED  BY <1>1, <2>1, <2>2, <2>3, <2>4, <2>5, <2>6, RunnerStep
<1>4. CASE RunPublishManifest(r)
  <2>1. /\ runner[r].at = "binary" /\ Go(r, "pruneDue") /\ bin' = bin
        /\ index' = [index EXCEPT ![runner[r].key] = runner[r].inputs]
    BY <1>4 DEF RunPublishManifest, PublishManifest, At
  <2>2. /\ runner' \in [Runners -> RunnerStates]
        /\ runner'[r].at = "pruneDue" /\ SameRun(r) /\ runner'[r].cleaned = runner[r].cleaned
        /\ \A q \in Runners : q # r => runner'[q] = runner[q]
    BY <1>1, <2>1, RunnerGoes
  <2>3. \A q \in Runners : q # r => Undisturbed(q)
    BY <2>1, <2>2 DEF Undisturbed, SameRun
  <2>4. /\ runner[r].inputs \in Inputs /\ runner[r].key \in IndexKeys
        /\ Entry(runner[r].inputs.tag, runner[r].inputs.dep) \in locked[runner[r].key.project]
    BY <1>1, <2>1 DEF RunOK, Began, LockedInputs
  <2>5. /\ index' \in [IndexKeys -> Inputs \cup {Missing}]
        /\ index'[runner[r].key] = runner[r].inputs
        /\ \A k \in IndexKeys : k # runner[r].key => index'[k] = index[k]
    BY <2>1, <2>4 DEF IndInv, Typed
  <2>6. IsFiniteSet(bin')
    BY <2>1 DEF IndInv, Typed
  <2>7. RunOK(r)'
    BY <1>1, <1>2, <2>1, <2>2
       DEF RunOK, Began, FreshText, LockedInputs, Resolved, BinaryThere, SameRun, is_file
  <2>8. \A k \in IndexKeys : \/ index'[k] \in {index[k], Missing}
                             \/ Entry(index'[k].tag, index'[k].dep) \in locked[k.project]
    BY <2>4, <2>5
  <2> QED  BY <1>1, <2>2, <2>3, <2>5, <2>6, <2>7, <2>8, RunnerStep
<1> QED  BY <1>3, <1>4

\* A runner notes that the cache was cleaned.
LEMMA CleanedTyped ==
  ASSUME NEW x \in RunnerStates
  PROVE  [x EXCEPT !.cleaned = TRUE] \in RunnerStates
<1>1. \A b \in BOOLEAN : [x EXCEPT !.cleaned = b] \in RunnerStates
  BY DEF RunnerStates
<1> QED  BY <1>1

\* A step that removes from the cache: every command under way notes it.
LEMMA CleaningInv ==
  ASSUME IndInv, NEW r \in Runners, NEW w \in RunPlaces, NEW u \in RunnerStates,
         KeepWorld, Cleaning(r, w, u),
         u.project = runner[r].project, u.key = runner[r].key, u.inputs = runner[r].inputs,
         u.began = runner[r].began,
         <<runner[r].at, w>> \in {<<"pruning", "pruning">>, <<"clear", "clear">>,
                                  <<"clear", "failed">>},
         index' \in [IndexKeys -> Inputs \cup {Missing}], IsFiniteSet(bin'),
         \A k \in IndexKeys : index'[k] \in {index[k], Missing}
  PROVE  IndInv'
<1> DEFINE v == [u EXCEPT !.at = w, !.cleaned = TRUE]
           s(q) == IF runner[q].at = "idle" THEN runner[q] ELSE [runner[q] EXCEPT !.cleaned = TRUE]
<1>1. runner' = [q \in Runners |-> IF q = r THEN v ELSE s(q)]
  BY DEF Cleaning
<1>2. v \in RunnerStates
  BY DEF RunnerStates
<1>3. /\ v.at = w /\ v.cleaned = TRUE /\ v.project = u.project /\ v.key = u.key
      /\ v.inputs = u.inputs /\ v.began = u.began
  BY DEF RunnerStates
<1>4. \A q \in Runners :
        /\ s(q) \in RunnerStates /\ s(q).at = runner[q].at
        /\ s(q).project = runner[q].project /\ s(q).key = runner[q].key
        /\ s(q).inputs = runner[q].inputs /\ s(q).tag = runner[q].tag
        /\ s(q).entry = runner[q].entry /\ s(q).began = runner[q].began
        /\ s(q).cleaned = TRUE \/ runner[q].at = "idle"
  <2> SUFFICES ASSUME NEW q \in Runners, runner[q].at # "idle"
               PROVE  /\ s(q) \in RunnerStates /\ s(q).at = runner[q].at
                      /\ s(q).project = runner[q].project /\ s(q).key = runner[q].key
                      /\ s(q).inputs = runner[q].inputs /\ s(q).tag = runner[q].tag
                      /\ s(q).entry = runner[q].entry /\ s(q).began = runner[q].began
                      /\ s(q).cleaned = TRUE
    BY DEF IndInv, Typed
  <2>1. runner[q] \in RunnerStates /\ s(q) = [runner[q] EXCEPT !.cleaned = TRUE]
    BY DEF IndInv, Typed
  <2>2. [runner[q] EXCEPT !.cleaned = TRUE] \in RunnerStates
    BY <2>1, CleanedTyped
  <2>3. /\ [runner[q] EXCEPT !.cleaned = TRUE].at = runner[q].at
        /\ [runner[q] EXCEPT !.cleaned = TRUE].project = runner[q].project
        /\ [runner[q] EXCEPT !.cleaned = TRUE].key = runner[q].key
        /\ [runner[q] EXCEPT !.cleaned = TRUE].inputs = runner[q].inputs
        /\ [runner[q] EXCEPT !.cleaned = TRUE].tag = runner[q].tag
        /\ [runner[q] EXCEPT !.cleaned = TRUE].entry = runner[q].entry
        /\ [runner[q] EXCEPT !.cleaned = TRUE].began = runner[q].began
        /\ [runner[q] EXCEPT !.cleaned = TRUE].cleaned = TRUE
    BY <2>1 DEF RunnerStates
  <2> QED  BY <2>1, <2>2, <2>3
<1> HIDE DEF v, s
<1>5. /\ runner' \in [Runners -> RunnerStates] /\ runner'[r] = v
      /\ \A q \in Runners : q # r => runner'[q] = s(q)
  BY <1>1, <1>2, <1>4
<1>6. \A q \in Runners : q # r => Undisturbed(q)
  BY <1>4, <1>5 DEF Undisturbed, SameRun
<1>7. RunOK(r) /\ UNCHANGED <<main, compiler, locked>>
  BY DEF IndInv, KeepWorld
<1>8. RunOK(r)'
  BY <1>3, <1>5, <1>7 DEF RunOK, Began, FreshText, LockedInputs, Resolved, BinaryThere
<1> QED  BY <1>5, <1>6, <1>8, RunnerStep

\* Cache::prune_if_due and Cache::prune.
LEMMA PruneInv ==
  ASSUME IndInv, NEW r \in Runners,
         PruneIfDue(r) \/ PruneScan(r) \/ PruneOrphans(r) \/ PruneNext(r)
  PROVE  IndInv'
<1>0. /\ KeepWorld /\ {"prune", "pruning", "exec"} \subseteq RunPlaces /\ RunOK(r)
      /\ runner[r] \in RunnerStates /\ runner \in [Runners -> RunnerStates]
      /\ index \in [IndexKeys -> Inputs \cup {Missing}] /\ IsFiniteSet(bin)
  BY DEF PruneIfDue, PruneScan, PruneOrphans, PruneNext, RunPlaces, IndInv, Typed
<1>1. CASE PruneIfDue(r)
  <2>1. /\ runner[r].at = "pruneDue" /\ index' = index /\ bin' = bin
        /\ Go(r, "prune") \/ Go(r, "exec")
    BY <1>1 DEF PruneIfDue, At, MarkPruned, KeepCache, buildVars
  <2> QED  BY <1>0, <2>1, GoInv
<1>2. CASE PruneScan(r)
  <2> DEFINE l == Listed
             n == -1
             u == [runner[r] EXCEPT !.at = "pruning", !.listed = l, !.size = n]
  <2>1. /\ runner[r].at = "prune" /\ index' = index /\ bin' = bin
        /\ runner' = [runner EXCEPT ![r] = u]
    BY <1>0, <1>2 DEF PruneScan, At, KeepCache, buildVars
  <2>2. l \subseteq Manifests /\ n \in Int
    <3> SUFFICES ASSUME NEW k \in IndexKeys, index[k] # Missing
                 PROVE  [key |-> k, inputs |-> index[k], old |-> k \in oldIndex] \in Manifests
      BY DEF Listed
    <3>1. index[k] \in Inputs
      BY <1>0
    <3>2. (k \in oldIndex) \in BOOLEAN
      OBVIOUS
    <3> QED  BY <3>1, <3>2, Zenon DEF Manifests
  <2> HIDE DEF l, n
  <2>3. u \in RunnerStates
    BY <1>0, <2>2 DEF RunnerStates
  <2>4. /\ u.at = "pruning" /\ u.key = runner[r].key /\ u.inputs = runner[r].inputs
        /\ u.project = runner[r].project /\ u.began = runner[r].began
        /\ u.cleaned = runner[r].cleaned
    BY <1>0 DEF RunnerStates
  <2> HIDE DEF u
  <2>5. /\ runner' \in [Runners -> RunnerStates] /\ runner'[r] = u
        /\ \A q \in Runners : q # r => runner'[q] = runner[q]
    BY <2>1, <2>3, RunnerSet
  <2>6. UNCHANGED <<main, compiler, locked>>
    BY <1>0 DEF KeepWorld
  <2>7. RunOK(r)'
    BY <1>0, <2>1, <2>4, <2>5, <2>6
       DEF RunOK, Began, FreshText, LockedInputs, Resolved, BinaryThere, is_file
  <2> QED  BY <1>0, <2>1, <2>5, <2>7, RunnerOnly
<1>3. CASE PruneOrphans(r)
  <2> DEFINE n == Cardinality(bin')
             u == [runner[r] EXCEPT !.size = n]
  <2>1. /\ runner[r].at = "pruning" /\ index' = index /\ bin' \subseteq bin
        /\ Cleaning(r, "pruning", u)
    BY <1>3 DEF PruneOrphans, PruneUnreferenced, At
  <2>2. IsFiniteSet(bin') /\ n \in Int
    BY <1>0, <2>1, FS_Subset, FS_CardinalityType
  <2> HIDE DEF n
  <2>3. u \in RunnerStates
    BY <1>0, <2>2 DEF RunnerStates
  <2>4. /\ u.project = runner[r].project /\ u.key = runner[r].key
        /\ u.inputs = runner[r].inputs /\ u.began = runner[r].began
    BY <1>0 DEF RunnerStates
  <2> HIDE DEF u
  <2> QED  BY <1>0, <2>1, <2>2, <2>3, <2>4, CleaningInv
<1>4. CASE PruneNext(r)
  <2>1. CASE runner[r].listed = {}
    <3>1. runner[r].at = "pruning" /\ Go(r, "exec") /\ index' = index /\ bin' = bin
      BY <1>4, <2>1 DEF PruneNext, At, KeepCache, buildVars
    <3> QED  BY <1>0, <3>1, GoInv
  <2>2. CASE runner[r].listed # {}
    <3>1. PICK m \in oldest(runner[r].listed) :
            /\ PruneEntry(m, runner[r].size)
            /\ Cleaning(r, "pruning", [runner[r] EXCEPT !.listed = @ \ {m},
                                                        !.size = sizeAfter(m, @)])
      BY <1>4, <2>2 DEF PruneNext
    <3> DEFINE l == runner[r].listed \ {m}
               n == sizeAfter(m, runner[r].size)
               u == [runner[r] EXCEPT !.listed = l, !.size = n]
    <3>2. runner[r].at = "pruning" /\ Cleaning(r, "pruning", u)
      BY <1>0, <1>4, <3>1 DEF PruneNext, At, RunnerStates
    <3>3. l \subseteq Manifests /\ n \in Int
      BY <1>0 DEF RunnerStates, sizeAfter
    <3> HIDE DEF l, n
    <3>4. u \in RunnerStates
      BY <1>0, <3>3 DEF RunnerStates
    <3>5. /\ u.project = runner[r].project /\ u.key = runner[r].key
          /\ u.inputs = runner[r].inputs /\ u.began = runner[r].began
      BY <1>0 DEF RunnerStates
    <3>6. /\ index' = index \/ index' = [index EXCEPT ![m.key] = Missing]
          /\ bin' \subseteq bin
      BY <3>1 DEF PruneEntry, buildVars
    <3>7. /\ index' \in [IndexKeys -> Inputs \cup {Missing}]
          /\ \A k \in IndexKeys : index'[k] \in {index[k], Missing}
      BY <1>0, <3>6
    <3>8. IsFiniteSet(bin')
      BY <1>0, <3>6, FS_Subset
    <3> HIDE DEF u
    <3> QED  BY <1>0, <3>2, <3>4, <3>5, <3>7, <3>8, CleaningInv
  <2> QED  BY <2>1, <2>2
<1> QED  BY <1>1, <1>2, <1>3, <1>4

\* exec_entry, and the steps of `paco clean --cache`.
LEMMA ExecCleanInv ==
  ASSUME IndInv, NEW r \in Runners, Exec(r) \/ CleanNext(r)
  PROVE  IndInv'
<1>0. /\ KeepWorld /\ {"program", "failed", "clear"} \subseteq RunPlaces
      /\ runner[r] \in RunnerStates /\ runner \in [Runners -> RunnerStates]
      /\ index \in [IndexKeys -> Inputs \cup {Missing}] /\ IsFiniteSet(bin)
  BY DEF Exec, CleanNext, RunPlaces, IndInv, Typed
<1>1. CASE Exec(r)
  <2>1. /\ runner[r].at = "exec" /\ index' = index /\ bin' = bin
        /\ \/ Go(r, "program")
           \/ Go(r, "failed") /\ ~is_file(runner[r].key, runner[r].inputs)
    BY <1>1 DEF Exec, At, KeepCache, buildVars
  <2> QED  BY <1>0, <2>1, GoInv
<1>2. CASE CleanNext(r)
  <2>1. PICK what \in runner[r].clearing :
          /\ Clear(what)
          /\ Cleaning(r, IF runner[r].clearing = {what} THEN "failed" ELSE "clear",
                      [runner[r] EXCEPT !.clearing = @ \ {what}])
    BY <1>2 DEF CleanNext
  <2> DEFINE c == runner[r].clearing \ {what}
             u == [runner[r] EXCEPT !.clearing = c]
  <2>2. /\ runner[r].at = "clear"
        /\ Cleaning(r, "failed", u) \/ Cleaning(r, "clear", u)
    BY <1>0, <1>2, <2>1 DEF CleanNext, At, RunnerStates
  <2>3. c \subseteq {"bin", "index", "marker"}
    BY <1>0 DEF RunnerStates
  <2> HIDE DEF c
  <2>4. u \in RunnerStates
    BY <1>0, <2>3 DEF RunnerStates
  <2>5. /\ u.project = runner[r].project /\ u.key = runner[r].key
        /\ u.inputs = runner[r].inputs /\ u.began = runner[r].began
    BY <1>0 DEF RunnerStates
  <2>6. /\ index' = index \/ index' = [k \in IndexKeys |-> Missing]
        /\ bin' = bin \/ bin' = {}
    BY <2>1 DEF Clear
  <2>7. /\ index' \in [IndexKeys -> Inputs \cup {Missing}] /\ IsFiniteSet(bin')
        /\ \A k \in IndexKeys : index'[k] \in {index[k], Missing}
    BY <1>0, <2>6, FS_EmptySet
  <2> HIDE DEF u
  <2> QED  BY <1>0, <2>2, <2>4, <2>5, <2>7, CleaningInv
<1> QED  BY <1>1, <1>2

-----------------------------------------------------------------------------

\* IndInv is an invariant of the driver, for every number of projects and processes.
THEOREM Invariance == Spec => []IndInv
<1>1. ASSUME IndInv, [Next]_vars PROVE IndInv'
  <2>1. CASE UNCHANGED vars
    <3>1. UNCHANGED <<mod, lock, locked, upstream, pkg, getter, index, bin, main, compiler, runner>>
      BY <2>1 DEF vars
    <3>2. Typed' /\ Grows /\ TargetsWhole' /\ Getting' /\ LockKnown'
      BY <1>1, <3>1 DEF IndInv, Typed, Grows, TargetsWhole, Getting, GetOK, LockKnown
    <3> QED  BY <1>1, <3>1, <3>2, WorldStep
  <2>2. ASSUME NEW r \in Runners, NEW p \in Projects, RunStart(r, p) PROVE IndInv'
    BY <1>1, <2>2, StartInv
  <2>3. ASSUME NEW r \in Runners, CleanStart(r) PROVE IndInv'
    BY <1>1, <2>3, StartInv
  <2>4. ASSUME NEW r \in Runners, RunStep(r) PROVE IndInv'
    BY <1>1, <2>4, LookupInv, CompileInv, EndInv, PublishInv, PruneInv, ExecCleanInv DEF RunStep
  <2>5. ASSUME NEW g \in Getters, NEW p \in Projects, GetStart(g, p), KeepCache,
               UNCHANGED <<main, compiler, runner, changes>>
        PROVE  IndInv'
    <3>1. UNCHANGED <<runner, main, compiler, index, bin>>
      BY <2>5 DEF KeepCache, buildVars
    <3> QED  BY <1>1, <2>5, <3>1, GetStartInv
  <2>6. ASSUME NEW g \in Getters, GetStep(g), UNCHANGED driverVars, KeepCache PROVE IndInv'
    <3>1. UNCHANGED <<runner, main, compiler, index, bin>>
      BY <2>6 DEF KeepCache, buildVars, driverVars
    <3> QED  BY <1>1, <2>6, <3>1, GetReadInv, GetGitInv, FetchRenameInv, LockInv DEF GetStep
  <2>7. CASE World
    BY <1>1, <2>7, WorldInv
  <2> QED  BY <1>1, <2>1, <2>2, <2>3, <2>4, <2>5, <2>6, <2>7 DEF Next
<1> QED  BY InitIndInv, <1>1, PTL DEF Spec

\* A fetched directory is a whole checkout, and the commit a `paco get` is about to lock is the
\* one the directory is at, or the one that was locked before, for any number of commands that
\* clone, die and race for the directory (fetch_into_cache).
THEOREM FetchesExact == Spec => []FetchedExact
<1>1. IndInv => FetchedExact
  BY DEF IndInv, FetchedExact, CommitMatches, Getting, GetOK, Exact
<1> QED  BY Invariance, <1>1, PTL

\* A program that runs was built from a text, and by a compiler, no older than the command
\* (build_cached).
THEOREM NeverStale == Spec => []FreshRun
<1>1. IndInv => FreshRun
  <2> SUFFICES ASSUME IndInv, NEW r \in Runners, runner[r].at = "program"
               PROVE  /\ runner[r].inputs.main >= runner[r].began.main
                      /\ runner[r].key.compiler >= runner[r].began.compiler
    BY DEF FreshRun, Programs, At
  <2>1. /\ runner[r].key \in IndexKeys /\ runner[r].began \in Begans
        /\ runner[r].inputs.main \in 0..MaxVersion
        /\ runner[r].began.main <= runner[r].inputs.main
        /\ runner[r].began.compiler <= runner[r].key.compiler
    BY DEF IndInv, RunOK, Began, FreshText
  <2>2. /\ runner[r].began.main \in Int /\ runner[r].inputs.main \in Int
        /\ runner[r].began.compiler \in Int /\ runner[r].key.compiler \in Int
    BY <2>1 DEF Begans
  <2> QED  BY <2>1, <2>2
<1> QED  BY Invariance, <1>1, PTL

\* A program that runs contains its dependency at a commit its project's paco.lock has named
\* (resolve_domain_use_path).
THEOREM LockedCommitRuns == Spec => []RunsLockedCommit
<1>1. IndInv => RunsLockedCommit
  BY DEF IndInv, RunOK, LockedInputs, RunsLockedCommit, Programs, At
<1> QED  BY Invariance, <1>1, PTL

\* `paco run` fails to start its program only if the cache was cleaned meanwhile (exec_entry).
THEOREM NoSpuriousFailure == Spec => []FailsOnlyIfCleaned
<1>1. IndInv => FailsOnlyIfCleaned
  BY DEF IndInv, RunOK, BinaryThere, FailsOnlyIfCleaned, At
<1> QED  BY Invariance, <1>1, PTL
=============================================================================
