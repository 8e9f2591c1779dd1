--------------------------- MODULE MC_DumpCollect ---------------------------
(***************************************************************************)
(* Chips for model checking DumpCollect.  The OCMB has the index of its     *)
(* processor, so only the chip class in a file name keeps the two apart.    *)
(***************************************************************************)
EXTENDS DumpCollect

CONSTANTS p0, p1, o0

MCOcmbParent == [o \in Ocmbs |-> p0]
MCIndex == [c \in Chips |-> IF c = p1 THEN 1 ELSE 0]

=============================================================================
