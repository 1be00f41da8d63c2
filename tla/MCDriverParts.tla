------------------------------ MODULE MCDriverParts ------------------------------
(***************************************************************************)
(* A model-checking instance of DriverParts.  Words of the scaled          *)
(* arithmetic wrap within the requests' addresses and counts: with five    *)
(* blocks of two bytes, a ULONG holds eleven values and a ULONGLONG        *)
(* twenty-two.                                                             *)
(***************************************************************************)
EXTENDS DriverParts

=============================================================================
