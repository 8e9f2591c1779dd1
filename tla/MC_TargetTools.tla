--------------------------- MODULE MC_TargetTools ---------------------------
(***************************************************************************)
(* A device tree with two processors, two Odyssey OCMBs, a DDR4 one between *)
(* them and a hub chip, and the runs to check: every tool that works on a   *)
(* cell beside the one that writes to it, the others beside a short one.    *)
(***************************************************************************)
EXTENDS TargetTools

CONSTANTS p0, p1, o0, d0, o1, h0

MCTree == <<p0, p1, o0, d0, o1, h0>>
MCClass ==
  [c \in {p0, p1, o0, d0, o1, h0} |->
     CASE c \in {p0, p1} -> "proc"
       [] c \in {o0, o1} -> "odyssey"
       [] c = d0 -> "ddr4"
       [] OTHER -> "hubchip"]
MCIndex == [c \in {p0, p1, o0, d0, o1, h0} |-> IF c \in {p1, d0} THEN 1 ELSE IF c = o1 THEN 2 ELSE 0]

Pair(s, t) == [r \in Runs |-> IF r = 1 THEN s ELSE t]

MCMixes ==
  {Pair("sbescom", t) : t \in {"sbescom", "sbegetscom", "ocmbsbescom", "sbefifo", "collectdump"}}
  \cup {Pair("sbegetstate", t) : t \in {"sbegetstate", "sbecfam"}}
  \cup {Pair("extract", t) :
           t \in {"sbekernel", "sbedump", "sbeffdc", "multiffdc", "p12istep", "p12startcbs", "ocmbfapi",
                 "ffdcpel", "ffdcpozpel", "captureffdc", "createodypel"}}
  \cup {Pair("attr_write", t) : t \in {"attr_write", "attr_read"}}

=============================================================================
