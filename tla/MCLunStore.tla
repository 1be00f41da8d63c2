----------------------------- MODULE MCLunStore -----------------------------
(***************************************************************************)
(* Model-checking instance of LunStore: the store under its usage rule.    *)
(***************************************************************************)
EXTENDS LunStore, TLC

Symmetry == Permutations(Blocks) \cup Permutations(IoThreads)

=============================================================================
