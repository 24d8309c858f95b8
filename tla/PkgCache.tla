------------------------------ MODULE PkgCache ------------------------------
(***************************************************************************)
(* The package cache, paco.mod, paco.lock and `paco get`                   *)
(* (paco-driver/src/{pkg_cache,git,manifest,lib}.rs).                      *)
(*                                                                         *)
(* Every project declares one dependency, at a tag, in its paco.mod; its   *)
(* paco.lock pins the commit that tag was resolved to.  The cache is one   *)
(* directory per tag, shared by every project of the user.  A tag can be   *)
(* moved upstream, a command can be killed between any two of its steps.   *)
(***************************************************************************)
EXTENDS Integers, FiniteSets

CONSTANTS Projects,   \* projects of the user
          Getters,    \* processes that run `paco get`
          Tags,       \* tags of the dependency, cache keys
          Commits,    \* its commits
          None        \* no lock entry, no directory, no commit

VARIABLES mod,        \* [Projects -> Tags]            what paco.mod declares
          lock,       \* [Projects -> lock entry or None]
          locked,     \* [Projects -> SUBSET entries]  history: entries the lock has held
          upstream,   \* [Tags -> Commits]             where each tag points
          pkg,        \* [Tags -> checkout or None]    the directory <path>@<tag>
          getter      \* [Getters -> the state of the process]

pkgVars == <<mod, lock, locked, upstream, pkg, getter>>

Entry(t, c)    == [tag |-> t, commit |-> c]
Entries        == [tag : Tags, commit : Commits]
Checkout(c, w) == [head |-> c, whole |-> w]
Checkouts      == [head : Commits, whole : BOOLEAN]

\* A getter outside any command.
NoGet == [at |-> "idle", project |-> None, tag |-> None,
          asked |-> None,    \* locked_commit, if the lock has one for this tag
          tmp |-> None,      \* the sibling directory git clones into
          commit |-> None]   \* the local `commit`, then Fetched.commit

PkgTypeOK ==
  /\ mod \in [Projects -> Tags]
  /\ lock \in [Projects -> Entries \cup {None}]
  /\ locked \in [Projects -> SUBSET Entries]
  /\ upstream \in [Tags -> Commits]
  /\ pkg \in [Tags -> Checkouts \cup {None}]
  /\ \A g \in Getters :
       /\ getter[g].at \in {"idle", "modRead", "lockRead", "cloning", "cloned", "pinning",
                            "pinned", "fetched", "truncated"}
       /\ getter[g].project \in Projects \cup {None}
       /\ getter[g].tag \in Tags \cup {None}
       /\ getter[g].asked \in Commits \cup {None}
       /\ getter[g].tmp \in Checkouts \cup {None}
       /\ getter[g].commit \in Commits \cup {None}

-----------------------------------------------------------------------------
\* LockedPackage::matches_source: an entry counts only for the tag it was resolved from.
matches_source(entry, t) == entry # None /\ entry.tag = t

\* Lockfile::find, filtered by matches_source.
pin(entry, t) == IF matches_source(entry, t) THEN entry.commit ELSE None

\* resolve_domain_use_path with the manifest and the lock it was given: a directory that is
\* there and checked out at exactly the locked commit; anything else is an error.
\* Faulty: the directory is used at whatever commit it is.
resolve_domain_use_path_unchecked(t, entry) ==
  /\ matches_source(entry, t)
  /\ pkg[t] # None
resolve_domain_use_path(t, entry) ==
  /\ matches_source(entry, t)
  /\ pkg[t] # None
  /\ pkg[t].head = entry.commit

Goto(g, where) == getter' = [getter EXCEPT ![g].at = where]

-----------------------------------------------------------------------------
\* run_get: reads paco.mod.
GetStart(g, p) ==
  /\ getter[g].at = "idle"
  /\ getter' = [getter EXCEPT ![g] = [NoGet EXCEPT !.at = "modRead", !.project = p,
                                                   !.tag = mod[p]]]
  /\ UNCHANGED <<mod, lock, locked, upstream, pkg>>

\* run_get: reads the existing lock; an entry for another tag is not used.
GetReadLock(g) ==
  /\ getter[g].at = "modRead"
  /\ getter' = [getter EXCEPT ![g].at = "lockRead",
                              ![g].asked = pin(lock[getter[g].project], getter[g].tag)]
  /\ UNCHANGED <<mod, lock, locked, upstream, pkg>>

\* The commit fetch_into_cache reports for a directory that is already there.
reported(t, locked_commit) == IF locked_commit # None THEN locked_commit ELSE pkg[t].head

\* fetch_into_cache: the directory is there and is reused as it is.
FetchReuse(g) ==
  /\ getter[g].at = "lockRead"
  /\ pkg[getter[g].tag] # None
  /\ getter' = [getter EXCEPT ![g].at = "fetched",
                              ![g].commit = reported(getter[g].tag, getter[g].asked)]
  /\ UNCHANGED <<mod, lock, locked, upstream, pkg>>

\* fetch_into_cache: the directory is missing; git starts to fill a sibling.
\* Faulty: git clones into the target itself.
FetchClone_inplace(g) ==
  /\ getter[g].at = "lockRead"
  /\ pkg[getter[g].tag] = None
  /\ pkg' = [pkg EXCEPT ![getter[g].tag] = Checkout(upstream[getter[g].tag], FALSE)]
  /\ Goto(g, "cloning")
  /\ UNCHANGED <<mod, lock, locked, upstream>>
FetchClone(g) ==
  /\ getter[g].at = "lockRead"
  /\ pkg[getter[g].tag] = None
  /\ getter' = [getter EXCEPT ![g].at = "cloning",
                              ![g].tmp = Checkout(upstream[getter[g].tag], FALSE)]
  /\ UNCHANGED <<mod, lock, locked, upstream, pkg>>

\* clone_at_tag ends: the sibling is a whole checkout of the commit the tag names now, which
\* resolve_ref reads from it.
CloneEnds(g) ==
  LET c == upstream[getter[g].tag]
  IN  /\ getter[g].at = "cloning"
      /\ getter' = [getter EXCEPT ![g].at = "cloned", ![g].tmp = Checkout(c, TRUE),
                                  ![g].commit = c]
      /\ UNCHANGED <<mod, lock, locked, upstream, pkg>>

\* A clone at another commit than the locked one: fetch_and_checkout_commit starts to
\* replace its files.  Otherwise it is used as it is.
FetchPin(g) ==
  /\ getter[g].at = "cloned"
  /\ IF getter[g].asked \notin {None, getter[g].commit}
     THEN getter' = [getter EXCEPT ![g].at = "pinning",
                                   ![g].tmp = Checkout(getter[g].commit, FALSE)]
     ELSE Goto(g, "pinned")
  /\ UNCHANGED <<mod, lock, locked, upstream, pkg>>

\* fetch_and_checkout_commit ends.
PinEnds(g) ==
  LET c == getter[g].asked
  IN  /\ getter[g].at = "pinning"
      /\ getter' = [getter EXCEPT ![g].at = "pinned", ![g].tmp = Checkout(c, TRUE),
                                  ![g].commit = c]
      /\ UNCHANGED <<mod, lock, locked, upstream, pkg>>

\* The rename onto the target moves whatever the sibling holds if the target is still absent;
\* otherwise the sibling is removed and the other one's directory is taken as it is.
\* Faulty: the commit of the removed clone is reported.
FetchRename_own(g) ==
  LET t == getter[g].tag
  IN  /\ getter[g].at = "pinned"
      /\ pkg' = IF pkg[t] = None THEN [pkg EXCEPT ![t] = getter[g].tmp] ELSE pkg
      /\ getter' = [getter EXCEPT ![g].at = "fetched", ![g].tmp = None]
      /\ UNCHANGED <<mod, lock, locked, upstream>>
FetchRename(g) ==
  LET t == getter[g].tag
  IN  /\ getter[g].at = "pinned"
      /\ \/ /\ pkg[t] = None
            /\ pkg' = [pkg EXCEPT ![t] = getter[g].tmp]
            /\ getter' = [getter EXCEPT ![g].at = "fetched", ![g].tmp = None]
         \/ /\ pkg[t] # None
            /\ getter' = [getter EXCEPT ![g].at = "fetched", ![g].tmp = None,
                                        ![g].commit = reported(t, getter[g].asked)]
            /\ UNCHANGED pkg
      /\ UNCHANGED <<mod, lock, locked, upstream>>

\* Lockfile::write is a plain write: the file is emptied first (an empty file parses as a
\* lock without packages), then filled.
LockTruncate(g) ==
  /\ getter[g].at = "fetched"
  /\ lock' = [lock EXCEPT ![getter[g].project] = None]
  /\ Goto(g, "truncated")
  /\ UNCHANGED <<mod, locked, upstream, pkg>>
LockWrite(g) ==
  LET entry == Entry(getter[g].tag, getter[g].commit)
  IN  /\ getter[g].at = "truncated"
      /\ lock' = [lock EXCEPT ![getter[g].project] = entry]
      /\ locked' = [locked EXCEPT ![getter[g].project] = @ \cup {entry}]
      /\ getter' = [getter EXCEPT ![g] = NoGet]
      /\ UNCHANGED <<mod, upstream, pkg>>

\* A git command or the rename that fails (no git, no network, a commit that is gone, a disk
\* that is full) ends the command with an error; a signal ends it anywhere.  The sibling stays
\* behind as it is, under a name that nobody else uses, so it is no longer part of the state.
GetFails(g) ==
  /\ getter[g].at \in {"cloning", "pinning", "pinned"}
  /\ getter' = [getter EXCEPT ![g] = NoGet]
  /\ UNCHANGED <<mod, lock, locked, upstream, pkg>>
GetKilled(g) ==
  /\ getter[g].at \in {"cloned", "fetched", "truncated"}
  /\ getter' = [getter EXCEPT ![g] = NoGet]
  /\ UNCHANGED <<mod, lock, locked, upstream, pkg>>

GetStep(g) ==
  \/ GetReadLock(g) \/ FetchReuse(g) \/ FetchClone(g) \/ CloneEnds(g) \/ FetchPin(g)
  \/ PinEnds(g) \/ FetchRename(g) \/ LockTruncate(g) \/ LockWrite(g) \/ GetFails(g) \/ GetKilled(g)

\* The user edits paco.mod; somebody moves a tag upstream.
EditMod(p, t) ==
  /\ t # mod[p]
  /\ mod' = [mod EXCEPT ![p] = t]
  /\ UNCHANGED <<lock, locked, upstream, pkg, getter>>
MoveTag(t, c) ==
  /\ c # upstream[t]
  /\ upstream' = [upstream EXCEPT ![t] = c]
  /\ UNCHANGED <<mod, lock, locked, pkg, getter>>

-----------------------------------------------------------------------------
\* fetch_into_cache: what the rename put in place is a whole checkout, though commands die in
\* the middle of a clone or of a checkout, and though two of them race for the directory.
TargetsWhole == \A t \in Tags : pkg[t] # None => pkg[t].whole

\* Fetched.commit: a `paco get` without a locked commit is about to lock exactly the commit
\* its directory is at, also when it lost the race for it to a clone made before the tag was
\* moved upstream; one with a locked commit keeps that commit, wherever the tag points now.
\* (That the directory is at the locked commit is promised by the comment on Fetched and not
\* so: a directory that is already there is not looked at.)
CommitMatches ==
  \A g \in Getters :
    getter[g].at \in {"fetched", "truncated"} =>
      /\ pkg[getter[g].tag] # None
      /\ getter[g].commit = IF getter[g].asked = None THEN pkg[getter[g].tag].head
                            ELSE getter[g].asked

\* The outcome of fetch_into_cache, for every interleaving of the commands that share the
\* package cache: a whole directory, and a commit to lock that matches it.
FetchedExact == TargetsWhole /\ CommitMatches

=============================================================================
