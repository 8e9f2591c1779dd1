--------------------------- MODULE MC_SbeErrorPel ---------------------------
(***************************************************************************)
(* Two processes that report at the same time: children of collectDump      *)
(* beside each other, and a tool or a one-shot beside a child, or beside    *)
(* another one.                                                             *)
(***************************************************************************)
EXTENDS SbeErrorPel

CONSTANTS first, second

Pair(j, k) == [c \in Children |-> IF c = first THEN j ELSE k]

MCMixes ==
  {Pair("proc", k) : k \in {"proc", "ocmb", "multiffdc", "captureffdc", "createodypel"}}
  \cup {Pair("createpel", k) : k \in {"proc", "createpel", "fanerr", "fanerrlib", "pwrerr"}}
  \cup {Pair("ffdcpel", k) : k \in {"ffdcpel", "ffdcpozpel", "ocmb"}}

=============================================================================
