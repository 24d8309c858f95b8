------------------------------- MODULE Driver -------------------------------
(***************************************************************************)
(* `paco run`, `paco clean --cache` and `paco get` as processes that share *)
(* the build cache, the package cache and the projects' files              *)
(* (paco-driver/src/{lib,launcher}.rs).                                    *)
(*                                                                         *)
(* `paco run` looks its program up twice (the launcher, then the compiler  *)
(* it starts), compiles it on a miss, publishes the binary and becomes the *)
(* program.  Every file it reads is read in a step of its own, and any     *)
(* process can be killed between two steps.                                *)
(***************************************************************************)
EXTENDS PkgCache, BuildCache

CONSTANTS Runners,      \* processes that run `paco run` and `paco clean`
          MaxVersion,   \* bound on the edits of a project's main.paco
          MaxCompiler,  \* bound on the compiler's updates
          MaxCommands,  \* bound on the commands started
          MaxChanges    \* bound on the edits, updates, moved tags and days

VARIABLES main,         \* [Projects -> 0..MaxVersion]  the text of main.paco
          compiler,     \* the compiler's identity
          runner,       \* [Runners -> the state of the process]
          commands,     \* commands started
          changes       \* what happened in the world so far

\* An index key is the entry file and the compiler's identity; the inputs of a build are the
\* texts it read.
ASSUME DriverAssumption ==
  /\ IndexKeys = [project : Projects, compiler : 0..MaxCompiler]
  /\ Inputs = [main : 0..MaxVersion, tag : Tags, dep : Commits]
  /\ Missing \notin Inputs
  /\ None \notin Projects \cup Tags \cup Commits \cup Entries \cup Checkouts
  /\ MaxVersion \in Nat /\ MaxCompiler \in Nat

driverVars == <<main, compiler, runner, commands, changes>>
vars == <<mod, lock, locked, upstream, pkg, getter, index, bin, oldIndex, oldBin, pruneDue,
          main, compiler, runner, commands, changes>>

\* An idle process.  `began` is what the world looked like when the command started and
\* `cleaned` whether anything was removed from the cache since (history).
Idle == [at |-> "idle", project |-> None, key |-> None, compiling |-> FALSE, inputs |-> None,
         tag |-> None, entry |-> None, listed |-> {}, size |-> 0, clearing |-> {},
         began |-> None, cleaned |-> FALSE]

run_key(p) == [project |-> p, compiler |-> compiler]

DriverTypeOK ==
  /\ PkgTypeOK /\ BuildTypeOK
  /\ main \in [Projects -> 0..MaxVersion]
  /\ compiler \in 0..MaxCompiler
  /\ commands \in 0..MaxCommands
  /\ changes \in 0..MaxChanges
  /\ \A r \in Runners :
       /\ runner[r].at \in {"idle", "lookup", "checkMain", "checkDep", "isFile", "touch",
                            "readMain", "readMod", "readLock", "resolve", "readDep", "compiled",
                            "binary", "pruneDue", "prune", "pruning", "exec", "program",
                            "failed", "clear"}
       /\ runner[r].key \in IndexKeys \cup {None}

\* The cache with one package in it, fetched earlier.
Fetched(tag, c) == [t \in Tags |-> IF t = tag THEN Checkout(c, TRUE) ELSE None]

\* A lock may have come with the project, and the shared directory may have been filled
\* for another project, at another commit.
Init ==
  /\ \E t \in Tags : mod = [p \in Projects |-> t]
  /\ \E c \in Commits : upstream = [t \in Tags |-> c]
  /\ lock \in [Projects -> {None} \cup {Entry(mod[p], c) : p \in Projects, c \in Commits}]
  /\ locked = [p \in Projects |-> {lock[p]} \ {None}]
  /\ \/ pkg = [t \in Tags |-> None]
     \/ \E p \in Projects, c \in Commits : pkg = Fetched(mod[p], c)
  /\ getter = [g \in Getters |-> NoGet]
  /\ index = [k \in IndexKeys |-> Missing]
  /\ bin = {} /\ oldIndex = {} /\ oldBin = {} /\ pruneDue = TRUE
  /\ main = [p \in Projects |-> 0]
  /\ compiler = 0
  /\ runner = [r \in Runners |-> Idle]
  /\ commands = 0 /\ changes = 0

-----------------------------------------------------------------------------
At(r, where)   == runner[r].at = where
Go(r, where)   == runner' = [runner EXCEPT ![r].at = where]
\* The cache step `action` happens in the course of runner r, which goes on at `where`; every
\* command that is under way notes it.
Cleaning(r, where, update) ==
  runner' = [q \in Runners |->
               LET s == IF runner[q].at = "idle" THEN runner[q]
                        ELSE [runner[q] EXCEPT !.cleaned = TRUE]
               IN  IF q = r THEN [update EXCEPT !.at = where, !.cleaned = TRUE] ELSE s]
KeepWorld == UNCHANGED <<main, compiler, changes, mod, lock, locked, upstream, pkg, getter>>
KeepCache == UNCHANGED buildVars
Spend     == commands < MaxCommands /\ commands' = commands + 1
Free      == UNCHANGED commands

\* The launcher's exec_cached computes the key and looks the program up.
RunStart(r, p) ==
  /\ At(r, "idle") /\ Spend
  /\ runner' = [runner EXCEPT ![r] =
       [Idle EXCEPT !.at = "lookup", !.project = p, !.key = run_key(p),
                    !.began = [main |-> main[p], compiler |-> compiler, tag |-> mod[p]]]]
  /\ KeepWorld /\ KeepCache

\* A miss: the launcher starts the compiler, whose build_cached computes the key and looks
\* again; build_cached compiles.
Missed(r) ==
  IF runner[r].compiling THEN Go(r, "readMain")
  ELSE runner' = [runner EXCEPT ![r].at = "lookup", ![r].compiling = TRUE,
                                ![r].key = run_key(runner[r].project)]

\* Cache::lookup: reads the manifest, then compares each input with the file it names, then
\* looks for the binary and touches the manifest.
Lookup(r) ==
  /\ At(r, "lookup")
  /\ IF index[runner[r].key] = Missing THEN Missed(r)
     ELSE runner' = [runner EXCEPT ![r].at = "checkMain", ![r].inputs = index[runner[r].key]]
  /\ KeepWorld /\ KeepCache /\ Free
\* Faulty: the text of the entry file is not compared.
LookupMain_unchecked(r) ==
  /\ At(r, "checkMain") /\ Go(r, "checkDep") /\ KeepWorld /\ KeepCache /\ Free
LookupMain(r) ==
  /\ At(r, "checkMain")
  /\ IF runner[r].inputs.main = main[runner[r].project] THEN Go(r, "checkDep") ELSE Missed(r)
  /\ KeepWorld /\ KeepCache /\ Free
LookupDep(r) ==
  LET i == runner[r].inputs
  IN  /\ At(r, "checkDep")
      /\ IF pkg[i.tag] # None /\ pkg[i.tag].head = i.dep THEN Go(r, "isFile") ELSE Missed(r)
      /\ KeepWorld /\ KeepCache /\ Free
\* Faulty: a manifest is taken to have its binary.
LookupIsFile_assumed(r) ==
  /\ At(r, "isFile") /\ Go(r, "touch") /\ KeepWorld /\ KeepCache /\ Free
LookupIsFile(r) ==
  /\ At(r, "isFile")
  /\ IF is_file(runner[r].key, runner[r].inputs) THEN Go(r, "touch") ELSE Missed(r)
  /\ KeepWorld /\ KeepCache /\ Free
LookupTouch(r) ==
  /\ At(r, "touch") /\ touch(runner[r].key) /\ Go(r, "exec")
  /\ KeepWorld /\ Free

-----------------------------------------------------------------------------
\* compile and compile_parsed_module: the entry file, paco.mod, paco.lock and the files its
\* imports resolve to are read one after the other; the inputs are the texts that were read.
CompileRead(r) ==
  /\ At(r, "readMain")
  /\ runner' = [runner EXCEPT ![r].at = "readMod",
                              ![r].inputs = [main |-> main[runner[r].project]]]
  /\ KeepWorld /\ KeepCache /\ Free
LoadMod(r) ==
  /\ At(r, "readMod")
  /\ runner' = [runner EXCEPT ![r].at = "readLock", ![r].tag = mod[runner[r].project]]
  /\ KeepWorld /\ KeepCache /\ Free
LoadLock(r) ==
  /\ At(r, "readLock")
  /\ runner' = [runner EXCEPT ![r].at = "resolve", ![r].entry = lock[runner[r].project]]
  /\ KeepWorld /\ KeepCache /\ Free
CompileResolve(r) ==
  /\ At(r, "resolve") /\ resolve_domain_use_path(runner[r].tag, runner[r].entry)
  /\ Go(r, "readDep")
  /\ KeepWorld /\ KeepCache /\ Free
CompileReadDep(r) ==
  LET t == runner[r].tag
  IN  /\ At(r, "readDep")
      /\ runner' = [runner EXCEPT ![r].at = "compiled",
           ![r].inputs = [main |-> runner[r].inputs.main, tag |-> t, dep |-> pkg[t].head]]
      /\ KeepWorld /\ KeepCache /\ Free

\* An error of the program, of the version check, of the resolution or of the file system
\* ends the command.  A signal ends it anywhere; before the first write, and in a lookup,
\* that leaves no trace, so only the later steps are listed.
CompileFails(r) ==
  /\ \/ runner[r].at \in {"readMain", "readMod", "readLock", "readDep", "compiled", "binary"}
     \/ At(r, "resolve") /\ ~resolve_domain_use_path(runner[r].tag, runner[r].entry)
  /\ runner' = [runner EXCEPT ![r] = Idle]
  /\ KeepWorld /\ KeepCache /\ Free
RunKilled(r) ==
  /\ runner[r].at \in {"pruneDue", "prune", "pruning", "exec", "clear"}
  /\ runner' = [runner EXCEPT ![r] = Idle]
  /\ KeepWorld /\ KeepCache /\ Free

\* Cache::publish.
RunPublishBinary(r) ==
  /\ At(r, "compiled") /\ PublishBinary(runner[r].key, runner[r].inputs)
  /\ Go(r, "binary") /\ KeepWorld /\ Free
RunPublishManifest(r) ==
  /\ At(r, "binary") /\ PublishManifest(runner[r].key, runner[r].inputs)
  /\ Go(r, "pruneDue") /\ KeepWorld /\ Free

\* Cache::prune_if_due and Cache::prune.
PruneIfDue(r) ==
  /\ At(r, "pruneDue")
  /\ IF pruneDue THEN MarkPruned /\ Go(r, "prune") ELSE KeepCache /\ Go(r, "exec")
  /\ KeepWorld /\ Free
PruneScan(r) ==
  /\ At(r, "prune")
  /\ runner' = [runner EXCEPT ![r].at = "pruning", ![r].listed = Listed, ![r].size = -1]
  /\ KeepCache /\ KeepWorld /\ Free
PruneOrphans(r) ==
  /\ At(r, "pruning") /\ runner[r].size = -1
  /\ PruneUnreferenced(runner[r].listed)
  /\ Cleaning(r, "pruning", [runner[r] EXCEPT !.size = Cardinality(bin')])
  /\ KeepWorld /\ Free
PruneNext(r) ==
  /\ At(r, "pruning") /\ runner[r].size >= 0
  /\ IF runner[r].listed = {} THEN Go(r, "exec") /\ KeepCache
     ELSE \E m \in oldest(runner[r].listed) :
            /\ PruneEntry(m, runner[r].size)
            /\ Cleaning(r, "pruning", [runner[r] EXCEPT !.listed = @ \ {m},
                                                        !.size = sizeAfter(m, @)])
  /\ KeepWorld /\ Free

\* exec_entry: the process becomes the program, unless the file is gone.
Exec(r) ==
  /\ At(r, "exec")
  /\ Go(r, IF is_file(runner[r].key, runner[r].inputs) THEN "program" ELSE "failed")
  /\ KeepWorld /\ KeepCache /\ Free
Exited(r) ==
  /\ runner[r].at \in {"program", "failed"}
  /\ runner' = [runner EXCEPT ![r] = Idle]
  /\ KeepWorld /\ KeepCache /\ Free

\* `paco clean --cache`.
CleanStart(r) ==
  /\ At(r, "idle") /\ Spend
  /\ runner' = [runner EXCEPT ![r] = [Idle EXCEPT !.at = "clear",
                                                  !.clearing = {"bin", "index", "marker"}]]
  /\ KeepWorld /\ KeepCache
CleanNext(r) ==
  /\ At(r, "clear")
  /\ \E what \in runner[r].clearing :
       /\ Clear(what)
       /\ Cleaning(r, IF runner[r].clearing = {what} THEN "failed" ELSE "clear",
                   [runner[r] EXCEPT !.clearing = @ \ {what}])
  /\ KeepWorld /\ Free

RunStep(r) ==
  \/ Lookup(r) \/ LookupMain(r) \/ LookupDep(r) \/ LookupIsFile(r) \/ LookupTouch(r)
  \/ CompileRead(r) \/ LoadMod(r) \/ LoadLock(r) \/ CompileResolve(r) \/ CompileReadDep(r)
  \/ CompileFails(r) \/ RunKilled(r) \/ RunPublishBinary(r) \/ RunPublishManifest(r)
  \/ PruneIfDue(r) \/ PruneScan(r) \/ PruneOrphans(r) \/ PruneNext(r) \/ Exec(r) \/ Exited(r)
  \/ CleanNext(r)

-----------------------------------------------------------------------------
Change == changes < MaxChanges /\ changes' = changes + 1

EditMain(p) ==
  /\ Change /\ main[p] < MaxVersion /\ main' = [main EXCEPT ![p] = @ + 1]
  /\ UNCHANGED <<compiler, runner, commands, mod, lock, locked, upstream, pkg, getter>>
  /\ KeepCache
UpdateCompiler ==
  /\ Change /\ compiler < MaxCompiler /\ compiler' = compiler + 1
  /\ UNCHANGED <<main, runner, commands, mod, lock, locked, upstream, pkg, getter>> /\ KeepCache
World ==
  \/ \E p \in Projects : EditMain(p)
  \/ UpdateCompiler
  \/ Change /\ Ages /\ UNCHANGED <<main, compiler, runner, commands>> /\ UNCHANGED pkgVars
  \/ /\ Change
     /\ \/ \E p \in Projects, t \in Tags : EditMod(p, t)
        \/ \E t \in Tags, c \in Commits : MoveTag(t, c)
     /\ UNCHANGED <<main, compiler, runner, commands>> /\ KeepCache

Next ==
  \/ \E r \in Runners, p \in Projects : RunStart(r, p)
  \/ \E r \in Runners : CleanStart(r) \/ RunStep(r)
  \/ \E g \in Getters, p \in Projects :
       GetStart(g, p) /\ Spend /\ UNCHANGED <<main, compiler, runner, changes>> /\ KeepCache
  \/ \E g \in Getters : GetStep(g) /\ UNCHANGED driverVars /\ KeepCache
  \/ World

Spec == Init /\ [][Next]_vars

-----------------------------------------------------------------------------
Programs == {r \in Runners : At(r, "program")}

\* build_cached: a program that runs was built, by the compiler there was when the command
\* started or a later one, from a text of main.paco no older than the one at that moment,
\* whoever edits, builds, publishes, prunes or dies meanwhile.
FreshRun ==
  \A r \in Programs : /\ runner[r].inputs.main >= runner[r].began.main
                      /\ runner[r].key.compiler >= runner[r].began.compiler

\* resolve_domain_use_path: a program that runs contains its dependency at a commit its
\* project's paco.lock has named for that tag, even when the tag was moved upstream and
\* another project's `paco get` filled the shared directory.
RunsLockedCommit ==
  \A r \in Programs :
    Entry(runner[r].inputs.tag, runner[r].inputs.dep) \in locked[runner[r].project]

\* exec_entry: `paco run` fails to start its program only if the cache was pruned or cleared
\* while that command ran; what dead processes left behind never makes it fail.
FailsOnlyIfCleaned == \A r \in Runners : At(r, "failed") => runner[r].cleaned
=============================================================================
