---------------------------- MODULE MCManagement ----------------------------
(***************************************************************************)
(* Model-checking instances of ManagementController.                       *)
(***************************************************************************)
EXTENDS ManagementController, TLC

Symmetry == Permutations(Blocks) \cup Permutations(IoThreads) \cup Permutations(Srbs)

=============================================================================
