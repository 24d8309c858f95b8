------------------------------ MODULE MCDriver ------------------------------
(***************************************************************************)
(* Instance of Driver: a project with a dependency, two processes that run *)
(* or clean, two that get.                                                 *)
(***************************************************************************)
EXTENDS Driver, TLC

MCIndexKeys == [project : Projects, compiler : 0..MaxCompiler]
MCInputs    == [main : 0..MaxVersion, tag : Tags, dep : Commits]
\* Processes, tags and commits are interchangeable.
Symmetry == Permutations(Runners) \cup Permutations(Getters) \cup Permutations(Tags)
              \cup Permutations(Commits)
=============================================================================
