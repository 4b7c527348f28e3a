------------------------- MODULE MCDatasetRegistry -------------------------
(***************************************************************************)
(* Small instances of DatasetRegistry.  Versions and contents are          *)
(* interchangeable; so are the processes, whose jobs Init chooses freely.  *)
(***************************************************************************)
EXTENDS DatasetRegistry, TLC

Symmetry ==
  Permutations(Processes) \cup Permutations(Versions) \cup Permutations(Digests)
=============================================================================
