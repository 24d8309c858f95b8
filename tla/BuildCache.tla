----------------------------- MODULE BuildCache -----------------------------
(***************************************************************************)
(* The build cache behind `paco run` (paco-driver/src/cache.rs).           *)
(*                                                                         *)
(* index/<index key> holds the manifest of the last build of one entry     *)
(* file (its inputs with their hashes and the output key), bin/<output     *)
(* key> the binary.  An index key is the entry and the compiler's identity;*)
(* an output key is the hash of the index key and the inputs, so it is     *)
(* written here as the pair itself.  Time is two ages: fresh, and old      *)
(* (past the touch interval and the age limit).                            *)
(***************************************************************************)
EXTENDS Integers, FiniteSets

CONSTANTS IndexKeys,  \* index keys
          Inputs,     \* the inputs a build can have read
          MaxSize,    \* size limit, in binaries
          Missing     \* no manifest

VARIABLES index,      \* [IndexKeys -> manifest or Missing]
          bin,        \* set of output keys whose binary is there
          oldIndex,   \* index keys whose manifest is old
          oldBin,     \* output keys whose binary is old
          pruneDue    \* the last-prune marker is missing or old

buildVars == <<index, bin, oldIndex, oldBin, pruneDue>>

Outputs == [key : IndexKeys, inputs : Inputs]

BuildTypeOK ==
  /\ index \in [IndexKeys -> Inputs \cup {Missing}]
  /\ bin \subseteq Outputs
  /\ oldIndex \subseteq IndexKeys
  /\ oldBin \subseteq Outputs
  /\ pruneDue \in BOOLEAN

output(k, inputs) == [key |-> k, inputs |-> inputs]

-----------------------------------------------------------------------------
\* The end of Cache::lookup, after the inputs of the manifest `inputs` were compared: the
\* binary must be there.
is_file(k, inputs) == output(k, inputs) \in bin

\* Cache::touch: an old manifest becomes fresh.
touch(k) ==
  /\ oldIndex' = oldIndex \ {k}
  /\ UNCHANGED <<index, bin, oldBin, pruneDue>>

\* Cache::publish, first half: the binary is renamed into bin/.
PublishBinary(k, inputs) ==
  /\ bin' = bin \cup {output(k, inputs)}
  /\ oldBin' = oldBin \ {output(k, inputs)}
  /\ UNCHANGED <<index, oldIndex, pruneDue>>

\* Cache::publish, second half: the manifest is renamed into index/.
PublishManifest(k, inputs) ==
  /\ index' = [index EXCEPT ![k] = inputs]
  /\ oldIndex' = oldIndex \ {k}
  /\ UNCHANGED <<bin, oldBin, pruneDue>>

\* Cache::prune_if_due: writes the marker before it prunes.
MarkPruned == pruneDue' = FALSE /\ UNCHANGED <<index, bin, oldIndex, oldBin>>

\* Cache::prune reads every manifest once; the rest works from that list.
Listed == {[key |-> k, inputs |-> index[k], old |-> k \in oldIndex] :
             k \in {i \in IndexKeys : index[i] # Missing}}

\* Cache::prune: unreferenced binaries that are old are removed.
PruneUnreferenced(listed) ==
  LET referenced == {output(m.key, m.inputs) : m \in listed}
  IN  /\ bin' = {b \in bin : b \in referenced \/ b \notin oldBin}
      /\ oldBin' = oldBin \cap bin'
      /\ UNCHANGED <<index, oldIndex, pruneDue>>

\* Cache::prune: the next manifest of the list, the oldest first, is removed with its binary
\* when it is past the age limit or the cache is past the size limit.  The manifest that is
\* removed is the file at that path, whatever it holds by now.
oldest(listed) == {m \in listed : m.old \/ ~ \E n \in listed : n.old}
PruneEntry(m, size) ==
  IF m.old \/ size > MaxSize
  THEN /\ index' = [index EXCEPT ![m.key] = Missing]
       /\ oldIndex' = oldIndex \ {m.key}
       /\ bin' = bin \ {output(m.key, m.inputs)}
       /\ oldBin' = oldBin \ {output(m.key, m.inputs)}
       /\ UNCHANGED pruneDue
  ELSE UNCHANGED buildVars
\* The running total after PruneEntry.  A manifest's own size is not counted: it is nothing
\* next to a binary's.
sizeAfter(m, size) ==
  IF (m.old \/ size > MaxSize) /\ output(m.key, m.inputs) \in bin /\ size > 0
  THEN size - 1 ELSE size

\* Cache::clear removes what is in the root in the order the directory lists it; tmp/ holds
\* nothing a lookup sees.
Clear(what) ==
  \/ what = "bin"    /\ bin' = {} /\ oldBin' = {} /\ UNCHANGED <<index, oldIndex, pruneDue>>
  \/ what = "index"  /\ index' = [k \in IndexKeys |-> Missing] /\ oldIndex' = {}
                     /\ UNCHANGED <<bin, oldBin, pruneDue>>
  \/ what = "marker" /\ pruneDue' = TRUE /\ UNCHANGED <<index, bin, oldIndex, oldBin>>

\* A day goes by.
Ages ==
  /\ oldIndex' = {k \in IndexKeys : index[k] # Missing}
  /\ oldBin' = bin
  /\ pruneDue' = TRUE
  /\ UNCHANGED <<index, bin>>
=============================================================================
