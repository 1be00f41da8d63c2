-------------------------------- MODULE MCBuild --------------------------------
(***************************************************************************)
(* Certificates are interchangeable.                                       *)
(***************************************************************************)
EXTENDS BuildPipeline, TLC

CertificateSymmetry == Permutations(Certificates)
=============================================================================
