--------------------------- MODULE MC_BusReaders ---------------------------
(***************************************************************************)
(* An inventory of three processors, two of which may share a code.         *)
(***************************************************************************)
EXTENDS BusReaders

CONSTANTS cpu0, cpu1, cpu2

=============================================================================
