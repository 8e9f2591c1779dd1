---------------------------- MODULE PdbgBackend ----------------------------
(***************************************************************************)
(* pdbg/switch_pdbg_backend.C and pdbg/backend_switch.cpp beside the        *)
(* programs of FsiAccess: the first makes a getScom over the kernel back    *)
(* end, drops the device tree and makes another over the SBE FIFO; the      *)
(* second asks for another back end under its tree.  A tree of the kernel   *)
(* back end has the entry of the FSI slave open, which a scan by a pcfam    *)
(* invalidates.                                                             *)
(*                                                                         *)
(* Of libpdbg, which is outside this repository: there is one tree at most, *)
(* the back end cannot be set and no other tree made while there is one,    *)
(* and a target is used over the back end of its tree.                      *)
(***************************************************************************)
EXTENDS FsiAccess

VARIABLES
  switch,         \* which of the two programs it is
  spc,            \* where it is
  backend,        \* the back end set in libpdbg
  tree,           \* the device tree, or NoTree
  flag,           \* myGetScom's static: targets were probed
  asked,          \* the back end the call of myGetScom that is on was given
  refused,        \* libpdbg refused that back end, or a tree, for other reasons
  resets,         \* calls of pdbg_reset_dt_root
  got             \* this call's getScom: the back end asked for and that of the data

switchVars == <<switch, spc, backend, tree, flag, asked, refused, resets, got>>
vars == <<entry, made, endedBy, pc, tries, firstProbe, held, probes, result,
          switch, spc, backend, tree, flag, asked, refused, resets, got>>

Switches == {"switch_pdbg_backend", "backend_switch"}
Backends == {"default", "KERNEL", "SBEFIFO"}
NoTree   == [backend |-> "none", probed |-> FALSE, entry |-> 0]
Trees    == [backend : Backends, probed : BOOLEAN, entry : 0 .. MaxEntries]
Nothing  == <<"none", "none">>

SwitchTypeOK ==
  /\ switch \in Switches
  /\ spc \in {"set", "init", "probe", "loop", "reset", "setKernel", "ended", "crashed"}
  /\ backend \in Backends
  /\ tree \in Trees \cup {NoTree}
  /\ flag \in BOOLEAN
  /\ asked \in {"KERNEL", "SBEFIFO"}
  /\ refused \in BOOLEAN
  /\ resets \in 0 .. 1
  /\ got \in {Nothing} \cup ({"KERNEL", "SBEFIFO"} \X Backends)

SwitchInit ==
  /\ switch \in Switches
  /\ spc = "set"
  /\ backend = "default"
  /\ tree = NoTree
  /\ flag = FALSE
  /\ asked = IF switch = "switch_pdbg_backend" THEN "KERNEL" ELSE "SBEFIFO"
  /\ refused = FALSE
  /\ resets = 0
  /\ got = Nothing

SwitchGoto(from, to) == spc = from /\ spc' = to

\* pdbg_set_backend: what it returns is only logged.
pdbg_set_backend(b) ==
  \/ tree = NoTree /\ backend' = b /\ UNCHANGED refused
  \/ UNCHANGED backend /\ refused' = (refused \/ tree = NoTree)

SetBackend ==
  /\ SwitchGoto("set", "init")
  /\ pdbg_set_backend(asked)
  /\ UNCHANGED <<switch, tree, flag, asked, resets, got>>
  /\ UNCHANGED fsiVars

\* pdbg_targets_init: backend_switch ends if it fails, myGetScom goes on.
InitTargets ==
  /\ \/ /\ tree = NoTree
        /\ tree' = [NoTree EXCEPT !.backend = backend]
        /\ SwitchGoto("init", IF switch = "backend_switch" THEN "setKernel" ELSE "probe")
        /\ UNCHANGED refused
     \/ /\ SwitchGoto("init", IF switch = "backend_switch" THEN "ended" ELSE "probe")
        /\ refused' = (refused \/ tree = NoTree)
        /\ UNCHANGED tree
  /\ UNCHANGED <<switch, backend, flag, asked, resets, got>>
  /\ UNCHANGED fsiVars

ProbeWanted == ~flag

\* The targets are probed if none have been in this process.  Over the kernel back
\* end that opens the entry of the slave, or fails to.  Without a tree it is a probe of
\* the null target.
ProbeTargets ==
  /\ \/ ~ProbeWanted /\ SwitchGoto("probe", "loop") /\ UNCHANGED tree
     \/ /\ ProbeWanted
        /\ tree # NoTree
        /\ SwitchGoto("probe", "loop")
        /\ \E e \in {0, entry} :
             tree' = [tree EXCEPT !.probed = TRUE,
                                  !.entry = IF tree.backend = "KERNEL" THEN e ELSE 0]
     \/ /\ ProbeWanted
        /\ tree = NoTree
        /\ SwitchGoto("probe", "loop") \/ SwitchGoto("probe", "crashed")
        /\ UNCHANGED tree
  /\ flag' = TRUE
  /\ UNCHANGED <<switch, backend, asked, refused, resets, got>>
  /\ UNCHANGED fsiVars

\* What a getScom may give data over: an open slave, or the FIFO.  That a tree which
\* nobody probed gives none is not assumed: what an unprobed target does is up to
\* libpdbg, and sbegetscom.cpp (L124) reads an OCMB without any probe.
Usable == tree # NoTree /\ (tree.backend = "KERNEL" => tree.entry # 0 /\ tree.entry = entry)

\* getScom on the first processor, if there is one: it gives data or fails.
GetScom ==
  /\ SwitchGoto("loop", IF asked = "KERNEL" THEN "reset" ELSE "ended")
  /\ \/ Usable /\ got' = <<asked, tree.backend>>
     \/ UNCHANGED got
  /\ UNCHANGED <<switch, backend, tree, flag, asked, refused, resets>>
  /\ UNCHANGED fsiVars

\* A fault: the tree is kept.
TreeKept == tree

TreeAfterReset == NoTree

\* main between its two calls of myGetScom.
ResetRoot ==
  /\ SwitchGoto("reset", "set")
  /\ tree' = TreeAfterReset
  /\ asked' = "SBEFIFO"
  /\ refused' = FALSE
  /\ resets' = resets + 1
  /\ got' = Nothing
  /\ UNCHANGED <<switch, backend, flag>>
  /\ UNCHANGED fsiVars

\* backend_switch asks for the kernel back end under its tree.
SetKernel ==
  /\ SwitchGoto("setKernel", "ended")
  /\ pdbg_set_backend("KERNEL")
  /\ UNCHANGED <<switch, tree, flag, asked, resets, got>>
  /\ UNCHANGED fsiVars

SwitchStep ==
  \/ SetBackend
  \/ InitTargets
  \/ ProbeTargets
  \/ GetScom
  \/ ResetRoot
  \/ SetKernel

BackendInit == Init /\ SwitchInit

BackendNext ==
  \/ (KernelChanges \/ \E p \in Programs : ProgramStep(p)) /\ UNCHANGED switchVars
  \/ SwitchStep

BackendSpec ==
  /\ BackendInit
  /\ [][BackendNext]_vars
  /\ WF_vars(SwitchStep)
  /\ \A p \in Programs : WF_vars(ProgramStep(p) /\ UNCHANGED switchVars)

-----------------------------------------------------------------------------
(* Properties. *)

\* Data comes over the back end that was asked for, unless libpdbg refused that back
\* end for a reason of its own: the first call leaves nothing behind that the second
\* works with, but for the flag.  That makes the second, behind pdbg_reset_dt_root,
\* go over targets that pdbg_target_probe_all has not seen (switch_pdbg_backend.C
\* L25-53, L82).
DataOfAskedBackend ==
  /\ got # Nothing /\ ~refused => got[1] = got[2]
  /\ spc = "loop" /\ tree # NoTree /\ ~tree.probed => resets = 1

=============================================================================
