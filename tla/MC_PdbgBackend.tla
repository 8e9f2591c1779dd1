--------------------------- MODULE MC_PdbgBackend ---------------------------
(***************************************************************************)
(* A program that probes, one that opens a SCOM device, and one of the      *)
(* programs that switch the back end.                                       *)
(***************************************************************************)
EXTENDS PdbgBackend

CONSTANTS pcfam1, pread1

=============================================================================
