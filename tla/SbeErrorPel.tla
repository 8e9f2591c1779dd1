---------------------------- MODULE SbeErrorPel ----------------------------
(***************************************************************************)
(* The programs that create PELs in the logging service, side by side: the  *)
(* children of collectDump whose getDump failed (collectdump/create_pel.cpp *)
(* and its use in collectDumpFromSBE), the tools multiffdc, ffdcpel,        *)
(* ffdcpozpel, captureffdc and createodypel, and the one-shots createpel,   *)
(* fanerr, fanerrlib and pwrerr.  Each of them makes a list of entries into *)
(* PELs one after the other; a processor that timed out then asks for an    *)
(* SBE dump under the id of the last of them.  createpel does it in a       *)
(* coroutine, whose context runs until it is asked to stop.  The logging    *)
(* service is a D-Bus service outside this repository that gives out the    *)
(* ids.                                                                     *)
(***************************************************************************)
EXTENDS Naturals, FiniteSets, FiniteSetsExt, Functions

CONSTANTS
  Children,       \* the processes that report
  Mixes,          \* what they are: functions from Children to Kinds
  Slids           \* the SLIDs of FFDC entries, or the places of log entries

\* A child of collectDump for a processor or an OCMB, a tool, or a one-shot.
Kinds ==
  {"proc", "ocmb", "multiffdc", "ffdcpel", "ffdcpozpel", "captureffdc", "createodypel"}
  \cup {"createpel", "fanerr", "fanerrlib", "pwrerr"}

ASSUME ChildrenAssumption == IsFiniteSet(Children) /\ Mixes \subseteq [Children -> Kinds]
ASSUME SlidsAssumption == IsFiniteSet(Slids) /\ Slids \subseteq Nat \ {0}

\* The entry of a PEL that is not about one SLID.
NoSlid  == 0
Entries == Slids \cup {NoSlid}

Severities == {"UNDEFINED", "RECOVERED", "PREDICTIVE", "UNRECOVERABLE"}
Levels     == {"Informational", "Warning", "Error"}

\* FAPI severity to PEL level, for a POZ SBE, and multiffdc's copy of it.
LevelOf(severity) ==
  CASE severity \in {"UNDEFINED", "RECOVERED"} -> "Informational"
    [] severity = "PREDICTIVE" -> "Warning"
    [] OTHER -> "Error"

LevelInMultiffdc(severity) ==
  IF severity = "PREDICTIVE" THEN "Warning"
  ELSE IF severity \in {"UNDEFINED", "RECOVERED"} THEN "Informational" ELSE "Error"

-----------------------------------------------------------------------------
(* What is reported, given the list SLID -> severity: the entries that become *)
(* PELs and the levels of these.                                             *)

\* A fault: without an FFDC entry there is none.
createSbeErrorPELOfFfdc(list) == [e \in DOMAIN list |-> "Error"]

\* Without an FFDC entry there is still one PEL.
createSbeErrorPEL(list) ==
  [e \in IF DOMAIN list = {} THEN {NoSlid} ELSE DOMAIN list |-> "Error"]

\* Without an FFDC entry there is none.
createPOZSbeErrorPEL(list) == [e \in DOMAIN list |-> LevelOf(list[e])]
multiffdc(list)            == [e \in DOMAIN list |-> LevelInMultiffdc(list[e])]

\* The entries of an error log, null ones left out.
ffdcpel(list)    == [e \in DOMAIN list |-> "Informational"]
ffdcpozpel(list) == [e \in DOMAIN list |-> "Informational"]

\* One PEL with one file: the FFDC of the SBE, or test data.
captureffdc(list)  == [e \in {NoSlid} |-> "Error"]
createodypel(list) == [e \in {NoSlid} |-> "Error"]

\* One PEL without a file.
createpel(list) == [e \in {NoSlid} |-> "Informational"]
fanerr(list)    == [e \in {NoSlid} |-> "Error"]
fanerrlib(list) == [e \in {NoSlid} |-> "Error"]
pwrerr(list)    == [e \in {NoSlid} |-> "Error"]

VARIABLES
  kind,           \* what the children are
  ffdc,           \* each child's list: SLID -> severity
  timeout,        \* the children whose error is a timeout of the chip-op
  pc,             \* where each child is
  todo,           \* entries the child's loop has not reached yet
  reply,          \* the id the service answered a child's call with, 0 before
  plid,           \* createSbeErrorPEL's plid, per child: 0 before the first
  log,            \* the PELs in the logging service
  dumps           \* <<child, eid>>: the SBE dumps requested

vars == <<kind, ffdc, timeout, pc, todo, reply, plid, log, dumps>>

Pels == [id : Nat \ {0}, child : Children, entry : Entries, level : Levels]
Ended == {"done", "threw"}

\* In an event loop with nothing left to do.
Idle == "idle"

FfdcLists == UNION {[S -> Severities] : S \in SUBSET Slids}

TypeOK ==
  /\ kind \in Mixes
  /\ ffdc \in [Children -> FfdcLists]
  /\ timeout \subseteq Children
  /\ pc \in [Children -> {"loop", "call", "request", Idle} \cup Ended]
  /\ todo \in [Children -> SUBSET Entries]
  /\ reply \in [Children -> Nat]
  /\ plid \in [Children -> Nat]
  /\ log \subseteq Pels
  /\ dumps \subseteq Children \X Nat

Reports(c) ==
  CASE kind[c] = "proc"         -> createSbeErrorPEL(ffdc[c])
    [] kind[c] = "ocmb"         -> createPOZSbeErrorPEL(ffdc[c])
    [] kind[c] = "multiffdc"    -> multiffdc(ffdc[c])
    [] kind[c] = "ffdcpel"      -> ffdcpel(ffdc[c])
    [] kind[c] = "ffdcpozpel"   -> ffdcpozpel(ffdc[c])
    [] kind[c] = "captureffdc"  -> captureffdc(ffdc[c])
    [] kind[c] = "createodypel" -> createodypel(ffdc[c])
    [] kind[c] = "createpel"    -> createpel(ffdc[c])
    [] kind[c] = "fanerr"       -> fanerr(ffdc[c])
    [] kind[c] = "fanerrlib"    -> fanerrlib(ffdc[c])
    [] kind[c] = "pwrerr"       -> pwrerr(ffdc[c])

Reported(c) == DOMAIN Reports(c)

\* Severities are looked at for a POZ SBE only, the kind of error for a processor.
Poz == {"ocmb", "multiffdc"}

Init ==
  /\ kind \in Mixes
  /\ ffdc \in {f \in [Children -> FfdcLists] :
                \A c \in Children : kind[c] \notin Poz => Range(f[c]) \subseteq {"UNDEFINED"}}
  /\ timeout \in SUBSET {c \in Children : kind[c] = "proc"}
  /\ pc = [c \in Children |-> "loop"]
  /\ todo = [c \in Children |-> Reported(c)]
  /\ reply = [c \in Children |-> 0]
  /\ plid = [c \in Children |-> 0]
  /\ log = {}
  /\ dumps = {}

-----------------------------------------------------------------------------

\* The FFDC list is a std::map, the log a vector: the loop goes by ascending SLID or
\* place.
Current(c) == Min(todo[c])

Level(c) == Reports(c)[Current(c)]

\* Where an exception leads.  createpel's coroutine catches it and returns
\* without a word to its context, which goes on running.
Caught(c) == IF kind[c] = "createpel" THEN Idle ELSE "threw"

\* createPelWithFFDCfiles: the call is made, or something before it throws.
Call(c) ==
  /\ pc[c] = "loop"
  /\ todo[c] # {}
  /\ \E to \in {"call", Caught(c)} : pc' = [pc EXCEPT ![c] = to]
  /\ reply' = [reply EXCEPT ![c] = 0]
  /\ UNCHANGED <<kind, ffdc, timeout, todo, plid, log, dumps>>

NextId(c) == Cardinality(log) + 1

\* The logging service takes the call of any child that waits and logs a PEL.
CreatePELWithFFDCFiles(c) ==
  /\ pc[c] = "call"
  /\ reply[c] = 0
  /\ log' = log \cup {[id |-> NextId(c), child |-> c, entry |-> Current(c), level |-> Level(c)]}
  /\ reply' = [reply EXCEPT ![c] = NextId(c)]
  /\ UNCHANGED <<kind, ffdc, timeout, pc, todo, plid, dumps>>

\* The call fails, before the service has handled it or after, and the
\* exception ends the child's loop.
CallFails(c) ==
  /\ pc[c] = "call"
  /\ pc' = [pc EXCEPT ![c] = Caught(c)]
  /\ UNCHANGED <<kind, ffdc, timeout, todo, reply, plid, log, dumps>>

\* A fault: the first entry once more.
StillTodo(c) == IF plid[c] = 0 THEN todo[c] ELSE todo[c] \ {Current(c)}

TodoAfter(c) == todo[c] \ {Current(c)}

\* A fault: the id of the first PEL is kept.
IdKept(c) == IF plid[c] = 0 THEN reply[c] ELSE plid[c]

IdAfter(c) == reply[c]

TakeReply(c) ==
  /\ pc[c] = "call"
  /\ reply[c] # 0
  /\ pc' = [pc EXCEPT ![c] = "loop"]
  /\ plid' = [plid EXCEPT ![c] = IdAfter(c)]
  /\ todo' = [todo EXCEPT ![c] = TodoAfter(c)]
  /\ UNCHANGED <<kind, ffdc, timeout, reply, log, dumps>>

\* collectDumpFromSBE returns early for an OCMB, and needs dumpIsRequired.
AsksForDump(c) == kind[c] = "proc" /\ c \in timeout

LoopOver(c) == todo[c] = {}

\* A fault: the context is not asked to stop.
AfterLoopRunningOn(c) ==
  IF AsksForDump(c) THEN "request" ELSE IF kind[c] = "createpel" THEN Idle ELSE "done"

\* createpel asks its context to stop, and run returns.
AfterLoop(c) == IF AsksForDump(c) THEN "request" ELSE "done"

EndLoop(c) ==
  /\ pc[c] = "loop"
  /\ LoopOver(c)
  /\ pc' = [pc EXCEPT ![c] = AfterLoop(c)]
  /\ UNCHANGED <<kind, ffdc, timeout, todo, reply, plid, log, dumps>>

\* requestSBEDump(chipPos, logId).
RequestDump(c) ==
  /\ pc[c] = "request"
  /\ pc' = [pc EXCEPT ![c] = "done"]
  /\ dumps' = dumps \cup {<<c, plid[c]>>}
  /\ UNCHANGED <<kind, ffdc, timeout, todo, reply, plid, log>>

ChildStep(c) ==
  \/ Call(c)
  \/ TakeReply(c)
  \/ EndLoop(c)
  \/ RequestDump(c)

Finished ==
  /\ \A c \in Children : pc[c] \in Ended \cup {Idle}
  /\ UNCHANGED vars

Next ==
  \/ \E c \in Children : ChildStep(c) \/ CreatePELWithFFDCFiles(c) \/ CallFails(c)
  \/ Finished

\* Every child runs, and a call ends: with a reply, or with bus.call's timeout.
Spec ==
  /\ Init
  /\ [][Next]_vars
  /\ \A c \in Children : WF_vars(ChildStep(c)) /\ WF_vars(CallFails(c))

-----------------------------------------------------------------------------
(* Properties. *)

PelsOf(c) == {p \in log : p.child = c}

\* Nothing is lost and nothing reported twice: the PELs of a child are those of
\* the entries its loop is through with, and perhaps of the one it is at; if
\* it ended without an exception, of all of them (L104-131, L143-179).  Each has a
\* level, that of an error if the entry says that nothing was recovered.
EachEntryOnce ==
  \A c \in Children :
    /\ \A p, q \in PelsOf(c) : p.entry = q.entry => p = q
    /\ \A p \in PelsOf(c) :
         /\ p.level \in Levels
         /\ kind[c] \in Poz /\ ffdc[c][p.entry] = "UNRECOVERABLE" => p.level = "Error"
    /\ Reported(c) \ todo[c] \subseteq {p.entry : p \in PelsOf(c)}
    /\ {p.entry : p \in PelsOf(c)} \ (Reported(c) \ todo[c]) \subseteq
         (IF pc[c] \in {"call", "threw", Idle} /\ todo[c] # {} THEN {Current(c)} ELSE {})
    /\ pc[c] = "done" => todo[c] = {}

\* An SBE dump is requested under the id of a PEL about the very chip, that of
\* the last entry, and never for an OCMB: children that report side by side do
\* not mix up their ids (L100-133; dump_collect.cpp L189-202).
DumpNamesItsPel ==
  \A d \in dumps :
    /\ d[1] \in timeout /\ kind[d[1]] = "proc"
    /\ \E p \in log : p.id = d[2]
    /\ \A p \in log : p.id = d[2] =>
         p.child = d[1] /\ \A e \in Reported(d[1]) : e <= p.entry

\* Every process gets to its end, whatever the service does; only a createpel
\* whose PEL was not created stays in its context for ever (createpel.cpp L43-47
\* has no request_stop).
ChildrenEnd ==
  \A c \in Children :
    <>(pc[c] \in Ended \/ (kind[c] = "createpel" /\ pc[c] = Idle /\ todo[c] # {}))

-----------------------------------------------------------------------------
(* The children of collectDump among the processes, as DumpCollect has them. *)

ProcOf(c) == <<c, "proc">>
OcmbOf(c) == <<c, "ocmb">>
ProcChips == {ProcOf(c) : c \in Children}
OcmbChips == {OcmbOf(c) : c \in Children}

\* The chips are told apart by some index.
ChipIndex ==
  CHOOSE f \in [ProcChips \cup OcmbChips -> 0 .. 2 * Cardinality(Children)] : IsInjective(f)

JobOf(c) == <<<<c, kind[c]>>, "ON">>
Collecting == {c \in Children : kind[c] \in {"proc", "ocmb"}}

\* The child of collectDump stands at its PEL as long as the loop over the entries
\* lasts.
PlaceOf(c) ==
  CASE pc[c] \in {"loop", "call"} -> "pel"
    [] pc[c] = "request" -> "request"
    [] pc[c] = "threw" -> "exit1"
    [] pc[c] = "done" -> IF kind[c] = "ocmb" THEN "exit0" ELSE "primary"

ErrorOf(c) == IF c \in timeout THEN "timeout" ELSE "other"

\* A PEL counts for DumpCollect's child once the loop is over.
HasPel(c) == PelsOf(c) # {} /\ PlaceOf(c) # "pel"

Collect == INSTANCE DumpCollect WITH
  Procs      <- ProcChips,
  Ocmbs      <- OcmbChips,
  OcmbParent <- [o \in OcmbChips |-> ProcOf(o[1])],
  Index      <- ChipIndex,
  Primary    <- ProcOf(CHOOSE c \in Children : TRUE),
  PosModulus <- 256,
  Types      <- {"HARDWARE"},
  dumpType   <- "HARDWARE",
  ppc        <- "collect",
  clock      <- "ON",
  toScan     <- {},
  targets    <- {<<c, kind[c]>> : c \in Collecting},
  reaped     <- {},
  failed     <- FALSE,
  cpc        <- [j \in (ProcChips \cup OcmbChips) \X {"ON", "OFF"} |->
                   IF \E c \in Collecting : j = JobOf(c) THEN PlaceOf(j[1][1]) ELSE "none"],
  err        <- [j \in (ProcChips \cup OcmbChips) \X {"ON", "OFF"} |->
                   IF \E c \in Collecting : j = JobOf(c) THEN ErrorOf(j[1][1]) ELSE "none"],
  files      <- {},
  pels       <- {JobOf(c) : c \in {b \in Collecting : HasPel(b)}},
  requested  <- {JobOf(c) : c \in {b \in Collecting : \E d \in dumps : d[1] = b}}

\* What a child does here is what DumpCollect takes it to do in one step: log a PEL
\* or, for an OCMB only, none, throw with or without one, and go on to the SBE dump, the
\* end of the handler or its own end (dump_collect.cpp L180-211).
CollectImplemented ==
  [][\E c \in Collecting : Collect!CreatePel(JobOf(c)) \/ Collect!RequestDump(JobOf(c))]_(Collect!vars)

=============================================================================
