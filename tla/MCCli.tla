---------------------------------- MODULE MCCli ----------------------------------
(***************************************************************************)
(* A model-checking instance of the CLI's parts.                           *)
(***************************************************************************)
EXTENDS Cli

\* One volume with a letter and a directory mount, one with a letter only.
TwoVolumes == <<2, 1>>

\* Two disks that claim the expected location, and one somewhere else.
ThreeDisks == <<7, 8, 9>>

\* In the scaled units of the configuration: the minimum and one below it, the FAT32
\* minimum, the maximum and one above it, an odd number of bytes, products that wrap to the
\* minimum and to nothing, an amount and a suffix that do not parse.
BoundarySizes ==
  {<<1, "MIB">>, <<15, "B">>, <<2, "MIB">>, <<4, "MIB">>, <<65, "B">>, <<7, "MB">>,
   <<260, "KIB">>, <<4, "TIB">>, <<1024, "B">>, <<1, "PIB">>}

=============================================================================
