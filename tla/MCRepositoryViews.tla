-------------------------- MODULE MCRepositoryViews --------------------------
(* RepositoryViews with attributes and values that are interchangeable. *)
EXTENDS RepositoryViews, TLC

Symmetry == Permutations(Attr) \cup Permutations(Value)
=============================================================================
