------------------------------ MODULE MCRemoveDisk ------------------------------
(***************************************************************************)
(* The smallest instance of RemoveDisk, for the run that takes the LUN of  *)
(* the disk over.                                                          *)
(***************************************************************************)
EXTENDS RemoveDisk

\* A volume with a letter.
OneVolume == <<1>>

=============================================================================
