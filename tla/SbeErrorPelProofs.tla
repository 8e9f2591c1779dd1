------------------------- MODULE SbeErrorPelProofs -------------------------
(***************************************************************************)
(* SbeErrorPel for any processes, any lists and any SLIDs.  The invariant    *)
(* has four parts: how a loop goes through its list (LoopInv), which PELs of *)
(* a process are in the log by then (LogInv), that no two PELs have one id   *)
(* (IdsInv), and whose id is held where (IdInv).  With them, every step of a *)
(* child of collectDump is one that DumpCollect lets it take, or leaves      *)
(* alone what DumpCollect sees of it.                                        *)
(***************************************************************************)
EXTENDS SbeErrorPel, TLAPS, FiniteSetTheorems

\* A set of natural numbers has a least element, which is what Min returns.
LEMMA MinIsLeast ==
  ASSUME NEW S \in SUBSET Nat, S # {}
  PROVE  Min(S) \in S /\ \A x \in S : Min(S) <= x
<1>1. PICK m \in S : \A y \in S : ~ (<<y, m>> \in OpToRel(<, Nat))
  BY WFMin, NatLessThanWellFounded, Zenon
<1>2. \A y \in S : ~ (y < m)
  BY <1>1 DEF OpToRel
<1>3. \A y \in S : m <= y
  BY <1>2
<1>. QED
  BY <1>3, Zenon DEF Min

-----------------------------------------------------------------------------
(* What is reported. *)

LEMMA ListTyped ==
  ASSUME NEW list \in FfdcLists
  PROVE  DOMAIN list \subseteq Slids /\ \A e \in DOMAIN list : list[e] \in Severities
BY DEF FfdcLists

\* Each way of reporting gives levels to entries, at least one for a processor, and
\* that of an error to what was not recovered.
InputsTyped == kind \in Mixes /\ ffdc \in [Children -> FfdcLists]

LEMMA ReportsTyped ==
  ASSUME InputsTyped, NEW c \in Children
  PROVE  /\ Reported(c) \subseteq Entries
         /\ \A e \in Reported(c) : Reports(c)[e] \in Levels
         /\ kind[c] = "proc" => Reported(c) # {}
         /\ kind[c] \in Poz =>
              \A e \in Reported(c) : ffdc[c][e] = "UNRECOVERABLE" => Reports(c)[e] = "Error"
<1>. DEFINE list == ffdc[c]
<1>0. list \in FfdcLists /\ kind[c] \in Kinds
  BY ChildrenAssumption DEF InputsTyped
<1>1. DOMAIN list \subseteq Slids /\ \A e \in DOMAIN list : list[e] \in Severities
  BY <1>0, ListTyped
<1>. HIDE DEF list
<1>2. CASE kind[c] = "proc"
  <2>1. Reports(c) = createSbeErrorPEL(list)
    BY <1>2 DEF Reports, list
  <2>. QED
    BY <1>1, <1>2, <2>1 DEF Reported, createSbeErrorPEL, Entries, Levels, Poz
<1>3. CASE kind[c] = "ocmb"
  <2>1. Reports(c) = [e \in DOMAIN list |-> LevelOf(list[e])]
    BY <1>3 DEF Reports, createPOZSbeErrorPEL, list
  <2>2. \A s \in Severities : LevelOf(s) \in Levels
    BY DEF LevelOf, Severities, Levels
  <2>3. LevelOf("UNRECOVERABLE") = "Error"
    BY DEF LevelOf
  <2>4. Reported(c) = DOMAIN list /\ \A e \in DOMAIN list : Reports(c)[e] = LevelOf(list[e])
    BY <2>1 DEF Reported
  <2>. QED
    BY <1>1, <1>3, <2>2, <2>3, <2>4 DEF Entries, list
<1>4. CASE kind[c] = "multiffdc"
  <2>1. Reports(c) = [e \in DOMAIN list |-> LevelInMultiffdc(list[e])]
    BY <1>4 DEF Reports, multiffdc, list
  <2>2. \A s \in Severities : LevelInMultiffdc(s) \in Levels
    BY DEF LevelInMultiffdc, Severities, Levels
  <2>3. LevelInMultiffdc("UNRECOVERABLE") = "Error"
    BY DEF LevelInMultiffdc
  <2>4. /\ Reported(c) = DOMAIN list
        /\ \A e \in DOMAIN list : Reports(c)[e] = LevelInMultiffdc(list[e])
    BY <2>1 DEF Reported
  <2>. QED
    BY <1>1, <1>4, <2>2, <2>3, <2>4 DEF Entries, list
<1>5. CASE kind[c] \in {"ffdcpel", "ffdcpozpel"}
  <2>1. Reports(c) = [e \in DOMAIN list |-> "Informational"]
    BY <1>5 DEF Reports, ffdcpel, ffdcpozpel, list
  <2>. QED
    BY <1>1, <1>5, <2>1 DEF Reported, Entries, Levels, Poz
<1>6. CASE kind[c] \in {"captureffdc", "createodypel", "fanerr", "fanerrlib", "pwrerr"}
  <2>1. Reports(c) = [e \in {NoSlid} |-> "Error"]
    BY <1>6 DEF Reports, captureffdc, createodypel, fanerr, fanerrlib, pwrerr
  <2>. QED
    BY <1>6, <2>1 DEF Reported, Entries, Levels, Poz
<1>7. CASE kind[c] = "createpel"
  <2>1. Reports(c) = [e \in {NoSlid} |-> "Informational"]
    BY <1>7 DEF Reports, createpel
  <2>. QED
    BY <1>7, <2>1 DEF Reported, Entries, Levels, Poz
<1>. QED
  BY <1>0, <1>2, <1>3, <1>4, <1>5, <1>6, <1>7 DEF Kinds

LEMMA EntriesAreNumbers == Entries \subseteq Nat
BY SlidsAssumption DEF Entries, NoSlid

\* What is to be reported, and by whom, does not change.
LEMMA InputsStay ==
  ASSUME [Next]_vars, NEW c \in Children
  PROVE  UNCHANGED <<kind, ffdc, timeout>> /\ Reports(c)' = Reports(c)
<1>1. UNCHANGED <<kind, ffdc, timeout>>
  BY DEF Next, ChildStep, Call, TakeReply, EndLoop, RequestDump, CreatePELWithFFDCFiles,
         CallFails, Finished, vars
<1>. QED
  BY <1>1 DEF Reports

\* What a step is, one action of one process at a time.
LEMMA StepCases ==
  ASSUME [Next]_vars
  PROVE  \/ \E c \in Children : Call(c)
         \/ \E c \in Children : CreatePELWithFFDCFiles(c)
         \/ \E c \in Children : CallFails(c)
         \/ \E c \in Children : TakeReply(c)
         \/ \E c \in Children : EndLoop(c)
         \/ \E c \in Children : RequestDump(c)
         \/ UNCHANGED vars
BY DEF Next, ChildStep, Finished

-----------------------------------------------------------------------------
(* The loop. *)

\* The entries a loop is through with.
Through(c) == Reported(c) \ todo[c]

\* The loop takes its list in ascending order, and is at an entry or over as its
\* place says.
LoopInv ==
  \A c \in Children :
    /\ todo[c] \subseteq Reported(c)
    /\ pc[c] \in {"call", "threw", Idle} => todo[c] # {}
    /\ pc[c] \in {"request", "done"} => todo[c] = {}
    /\ \A e \in Through(c), f \in todo[c] : e < f

LEMMA CurrentIsFirst ==
  ASSUME TypeOK, NEW c \in Children, todo[c] # {}
  PROVE  Current(c) \in todo[c] /\ \A e \in todo[c] : Current(c) <= e
<1>1. todo[c] \in SUBSET Nat
  BY EntriesAreNumbers DEF TypeOK
<1>. QED
  BY <1>1, MinIsLeast DEF Current

\* The types, with the finite log that the service's ids come from.
Typed == TypeOK /\ IsFiniteSet(log)

\* The PEL the service logs for the call of a process.
NewPel(c) == [id |-> NextId(c), child |-> c, entry |-> Current(c), level |-> Level(c)]

LEMMA NewPelTyped ==
  ASSUME Typed, LoopInv, NEW c \in Children, todo[c] # {}
  PROVE  NextId(c) \in Nat \ {0} /\ NewPel(c) \in Pels
<1>1. NextId(c) \in Nat \ {0}
  BY FS_CardinalityType DEF Typed, NextId
<1>2. InputsTyped
  BY DEF Typed, TypeOK, InputsTyped
<1>3. Current(c) \in Reported(c) /\ Current(c) \in Entries
  BY <1>2, CurrentIsFirst, ReportsTyped DEF Typed, LoopInv
<1>4. Level(c) \in Levels
  BY <1>2, <1>3, ReportsTyped DEF Level
<1>. QED
  BY <1>1, <1>3, <1>4 DEF NewPel, Pels

LEMMA LoopInvStep == Typed /\ LoopInv /\ [Next]_vars => Typed' /\ LoopInv'
<1>. SUFFICES ASSUME Typed, LoopInv, [Next]_vars
              PROVE  Typed' /\ LoopInv'
  OBVIOUS
<1>0. /\ UNCHANGED <<kind, ffdc, timeout>>
      /\ \A c \in Children : Reports(c)' = Reports(c) /\ Reported(c)' = Reported(c)
  BY InputsStay, ChildrenAssumption DEF Reported, Next, ChildStep, Call, TakeReply, EndLoop,
     RequestDump, CreatePELWithFFDCFiles, CallFails, Finished, vars
<1>1. CASE \E c \in Children : Call(c)
  <2>1. PICK c \in Children : Call(c)
    BY <1>1
  <2>2. Typed'
    BY <2>1 DEF Call, Caught, Typed, TypeOK, Ended
  <2>3. LoopInv'
    BY <1>0, <2>1 DEF Call, Caught, Idle, LoopInv, Through, Typed, TypeOK
  <2>. QED
    BY <2>2, <2>3
<1>2. CASE \E c \in Children : CreatePELWithFFDCFiles(c)
  <2>1. PICK c \in Children : CreatePELWithFFDCFiles(c)
    BY <1>2
  <2>2. todo[c] # {}
    BY <2>1 DEF CreatePELWithFFDCFiles, LoopInv
  <2>3. log' = log \cup {NewPel(c)} /\ NewPel(c) \in Pels /\ NextId(c) \in Nat
    BY <2>1, <2>2, NewPelTyped DEF CreatePELWithFFDCFiles, NewPel
  <2>4. log' \subseteq Pels /\ IsFiniteSet(log')
    BY <2>3, FS_AddElement DEF Typed, TypeOK
  <2>5. Typed'
    BY <2>1, <2>3, <2>4 DEF CreatePELWithFFDCFiles, Typed, TypeOK
  <2>6. LoopInv'
    BY <1>0, <2>1 DEF CreatePELWithFFDCFiles, LoopInv, Through
  <2>. QED
    BY <2>5, <2>6
<1>3. CASE \E c \in Children : CallFails(c)
  <2>1. PICK c \in Children : CallFails(c)
    BY <1>3
  <2>2. Typed'
    BY <2>1 DEF CallFails, Caught, Typed, TypeOK, Ended
  <2>3. LoopInv'
    BY <1>0, <2>1 DEF CallFails, Caught, Idle, LoopInv, Through, Typed, TypeOK
  <2>. QED
    BY <2>2, <2>3
<1>4. CASE \E c \in Children : TakeReply(c)
  <2>1. PICK c \in Children : TakeReply(c)
    BY <1>4
  <2>2. /\ Current(c) \in todo[c]
        /\ \A e \in todo[c] : Current(c) <= e
        /\ todo[c] \subseteq Reported(c)
        /\ Reported(c) \subseteq Nat
    BY <2>1, CurrentIsFirst, ReportsTyped, EntriesAreNumbers
    DEF TakeReply, LoopInv, Typed, TypeOK, InputsTyped
  <2>3. /\ todo'[c] = todo[c] \ {Current(c)}
        /\ \A b \in Children : b # c => todo'[b] = todo[b] /\ pc'[b] = pc[b]
        /\ pc'[c] = "loop"
    BY <2>1 DEF TakeReply, TodoAfter, Typed, TypeOK
  <2>4. Typed'
    BY <2>1 DEF TakeReply, TodoAfter, IdAfter, Typed, TypeOK
  <2>5. \A e \in Through(c)', f \in todo'[c] : e < f
    <3>1. TAKE e \in Through(c)', f \in todo'[c]
    <3>2. f \in todo[c] /\ f # Current(c) /\ (e \in Through(c) \/ e = Current(c))
      BY <1>0, <2>3 DEF Through
    <3>3. e \in Nat /\ f \in Nat
      BY <2>2, <3>2 DEF Through
    <3>. QED
      BY <2>2, <3>2, <3>3 DEF LoopInv
  <2>6. LoopInv'
    BY <1>0, <2>2, <2>3, <2>5 DEF Idle, LoopInv, Through
  <2>. QED
    BY <2>4, <2>6
<1>5. CASE \E c \in Children : EndLoop(c)
  <2>1. PICK c \in Children : EndLoop(c)
    BY <1>5
  <2>2. Typed'
    BY <2>1 DEF EndLoop, AfterLoop, Typed, TypeOK, Ended
  <2>3. LoopInv'
    BY <1>0, <2>1 DEF EndLoop, LoopOver, AfterLoop, Idle, LoopInv, Through, Typed, TypeOK
  <2>. QED
    BY <2>2, <2>3
<1>6. CASE \E c \in Children : RequestDump(c)
  <2>1. PICK c \in Children : RequestDump(c)
    BY <1>6
  <2>2. Typed'
    BY <2>1 DEF RequestDump, Typed, TypeOK, Ended
  <2>3. LoopInv'
    BY <1>0, <2>1 DEF RequestDump, Idle, LoopInv, Through, Typed, TypeOK
  <2>. QED
    BY <2>2, <2>3
<1>7. CASE UNCHANGED vars
  BY <1>0, <1>7 DEF vars, Typed, TypeOK, LoopInv, Through
<1>. QED
  BY <1>1, <1>2, <1>3, <1>4, <1>5, <1>6, <1>7, StepCases

LEMMA LoopStarts == Init => Typed /\ LoopInv
<1>. SUFFICES ASSUME Init
              PROVE  Typed /\ LoopInv
  OBVIOUS
<1>1. kind \in Mixes /\ ffdc \in [Children -> FfdcLists] /\ timeout \subseteq Children
  BY DEF Init
<1>2. todo = [c \in Children |-> Reported(c)]
  BY DEF Init
<1>3. TypeOK
  <2>1. \A c \in Children : Reported(c) \subseteq Entries
    BY <1>1, ReportsTyped DEF InputsTyped
  <2>. QED
    BY <1>1, <1>2, <2>1 DEF Init, TypeOK
<1>4. Typed
  BY <1>3, FS_EmptySet DEF Init, Typed
<1>5. LoopInv
  BY <1>2 DEF Init, Idle, LoopInv, Through
<1>. QED
  BY <1>4, <1>5

\* Every variable keeps its type, and the loops stay in order.
THEOREM TypeCorrect == Spec => [](TypeOK /\ LoopInv)
<1>1. Typed => TypeOK
  BY DEF Typed
<1>. QED
  BY <1>1, LoopStarts, LoopInvStep, PTL DEF Spec

-----------------------------------------------------------------------------
(* The PELs of a process. *)

Logged(c) == {p.entry : p \in PelsOf(c)}

\* The service may have logged a PEL for the entry the loop is at: it has when it
\* answered, and one cannot tell behind an exception.
MaybeLogged(c) ==
  IF pc[c] \in {"threw", Idle} \/ (pc[c] = "call" /\ reply[c] # 0) THEN {Current(c)} ELSE {}

\* The PELs of a process are one for each entry its loop is through with, at the level
\* of the entry, and perhaps the one of the entry it is at.
LogInv ==
  \A c \in Children :
    /\ \A p, q \in PelsOf(c) : p.entry = q.entry => p = q
    /\ \A p \in PelsOf(c) : p.entry \in Reported(c) /\ p.level = Reports(c)[p.entry]
    /\ Through(c) \subseteq Logged(c)
    /\ Logged(c) \ Through(c) \subseteq MaybeLogged(c)
    /\ pc[c] = "call" /\ reply[c] # 0 => Current(c) \in Logged(c)

\* A step of a process that leaves the log alone keeps the PELs of all, and with
\* them what holds of the processes that do not move.
LEMMA LogInvElsewhere ==
  ASSUME Typed, LogInv, [Next]_vars, NEW c \in Children, UNCHANGED PelsOf(c),
         UNCHANGED <<pc[c], todo[c], reply[c]>>
  PROVE  LogInv!(c)'
<1>1. Reports(c)' = Reports(c) /\ Reported(c)' = Reported(c)
  BY InputsStay DEF Reported
<1>2. Current(c)' = Current(c) /\ Through(c)' = Through(c) /\ Logged(c)' = Logged(c)
  BY <1>1 DEF Current, Through, Logged
<1>3. MaybeLogged(c)' = MaybeLogged(c)
  BY <1>2 DEF MaybeLogged
<1>. QED
  BY <1>1, <1>2, <1>3 DEF LogInv

LEMMA LogInvStep == Typed /\ LoopInv /\ LogInv /\ [Next]_vars => LogInv'
<1>. SUFFICES ASSUME Typed, LoopInv, LogInv, [Next]_vars, NEW b \in Children
              PROVE  LogInv!(b)'
  BY DEF LogInv
<1>0. Reports(b)' = Reports(b) /\ Reported(b)' = Reported(b)
  BY InputsStay DEF Reported
<1>1. CASE \E c \in Children : CreatePELWithFFDCFiles(c)
  <2>1. PICK c \in Children : CreatePELWithFFDCFiles(c)
    BY <1>1
  <2>2. /\ log' = log \cup {NewPel(c)}
        /\ pc[c] = "call" /\ reply[c] = 0 /\ todo[c] # {}
        /\ reply' = [reply EXCEPT ![c] = NextId(c)]
        /\ UNCHANGED <<pc, todo>>
    BY <2>1 DEF CreatePELWithFFDCFiles, NewPel, LoopInv
  <2>3. NewPel(c).child = c /\ NewPel(c).entry = Current(c) /\ NewPel(c).level = Level(c)
    BY DEF NewPel
  <2>4. CASE b # c
    <3>1. PelsOf(b)' = PelsOf(b)
      BY <2>2, <2>3, <2>4 DEF PelsOf
    <3>. QED
      BY <2>2, <2>4, <3>1, LogInvElsewhere DEF Typed, TypeOK
  <2>5. CASE b = c
    <3>1. PelsOf(c)' = PelsOf(c) \cup {NewPel(c)}
      BY <2>2, <2>3 DEF PelsOf
    <3>2. /\ Current(c) \in todo[c] /\ Current(c) \in Reported(c)
          /\ Current(c) \notin Through(c) /\ Current(c)' = Current(c)
      BY <2>2, CurrentIsFirst DEF Typed, LoopInv, Through, Current
    <3>3. Logged(c) = Through(c)
      BY <2>2, <2>5 DEF LogInv, MaybeLogged, Idle
    <3>4. \A p \in PelsOf(c) : p.entry # Current(c)
      BY <3>2, <3>3 DEF Logged
    <3>5. Logged(c)' = Logged(c) \cup {Current(c)}
      BY <2>3, <3>1 DEF Logged
    <3>6. NextId(c) # 0
      BY <2>2, NewPelTyped
    <3>7. MaybeLogged(c)' = {Current(c)}
      BY <2>2, <3>2, <3>6 DEF MaybeLogged, Typed, TypeOK
    <3>8. \A p, q \in PelsOf(c)' : p.entry = q.entry => p = q
      BY <2>3, <2>5, <3>1, <3>4 DEF LogInv
    <3>9. \A p \in PelsOf(c)' : p.entry \in Reported(c) /\ p.level = Reports(c)[p.entry]
      BY <2>3, <2>5, <3>1, <3>2 DEF LogInv, Level
    <3>10. Through(c)' = Through(c)
      BY <1>0, <2>2, <2>5 DEF Through
    <3>. QED
      BY <1>0, <2>5, <3>2, <3>3, <3>5, <3>7, <3>8, <3>9, <3>10
  <2>. QED
    BY <2>4, <2>5
<1>2. CASE UNCHANGED log /\ UNCHANGED <<pc[b], todo[b], reply[b]>>
  BY <1>2, LogInvElsewhere DEF PelsOf
<1>3. ASSUME UNCHANGED log, UNCHANGED todo[b], pc'[b] # "call", pc[b] \notin {"threw", Idle},
             pc[b] = "call" => pc'[b] \in {"threw", Idle}
      PROVE  LogInv!(b)'
  <2>1. /\ PelsOf(b)' = PelsOf(b) /\ Through(b)' = Through(b) /\ Current(b)' = Current(b)
        /\ Logged(b)' = Logged(b)
    BY <1>0, <1>3 DEF PelsOf, Through, Current, Logged
  <2>2. MaybeLogged(b) \subseteq MaybeLogged(b)'
    BY <1>3, <2>1 DEF MaybeLogged
  <2>. QED
    BY <1>0, <1>3, <2>1, <2>2 DEF LogInv
<1>4. CASE Call(b)
  <2>1. CASE pc'[b] = "call"
    <3>1. /\ PelsOf(b)' = PelsOf(b) /\ Through(b)' = Through(b) /\ Logged(b)' = Logged(b)
          /\ reply'[b] = 0
      BY <1>0, <1>4 DEF Call, PelsOf, Through, Logged, Typed, TypeOK
    <3>2. MaybeLogged(b) = {}
      BY <1>4 DEF Call, MaybeLogged, Idle
    <3>. QED
      BY <1>0, <3>1, <3>2 DEF LogInv
  <2>2. CASE pc'[b] # "call"
    BY <1>3, <1>4, <2>2 DEF Call, Idle, Typed, TypeOK
  <2>. QED
    BY <2>1, <2>2
<1>5. CASE CallFails(b)
  BY <1>3, <1>5 DEF CallFails, Caught, Idle, Typed, TypeOK
<1>6. CASE TakeReply(b)
  <2>1. /\ pc[b] = "call" /\ reply[b] # 0 /\ pc'[b] = "loop" /\ UNCHANGED log
        /\ todo'[b] = todo[b] \ {Current(b)}
        /\ Current(b) \in todo[b] /\ todo[b] \subseteq Reported(b)
    BY <1>6, CurrentIsFirst DEF TakeReply, TodoAfter, LoopInv, Typed, TypeOK
  <2>2. Through(b)' = Through(b) \cup {Current(b)}
    BY <1>0, <2>1 DEF Through
  <2>3. PelsOf(b)' = PelsOf(b) /\ Logged(b)' = Logged(b)
    BY <2>1 DEF PelsOf, Logged
  <2>4. Current(b) \in Logged(b) /\ MaybeLogged(b) = {Current(b)}
    BY <2>1 DEF LogInv, MaybeLogged
  <2>. QED
    BY <1>0, <2>1, <2>2, <2>3, <2>4 DEF LogInv
<1>7. CASE EndLoop(b) \/ RequestDump(b)
  BY <1>3, <1>7 DEF EndLoop, RequestDump, AfterLoop, Idle, Typed, TypeOK
<1>8. CASE \E c \in Children \ {b} :
             Call(c) \/ CallFails(c) \/ TakeReply(c) \/ EndLoop(c) \/ RequestDump(c)
  BY <1>2, <1>8 DEF Call, CallFails, TakeReply, EndLoop, RequestDump, Typed, TypeOK
<1>9. CASE UNCHANGED vars
  BY <1>2, <1>9 DEF vars
<1>. QED
  BY <1>1, <1>4, <1>5, <1>6, <1>7, <1>8, <1>9, StepCases

\* Each entry of a list becomes one PEL, at its level: none is lost, none is there
\* twice, whoever reports beside it and whatever call fails.
THEOREM OnePelPerEntry == Spec => []EachEntryOnce
<1>1. Init => LogInv
  BY DEF Init, LogInv, PelsOf, Logged, Through, Idle
<1>2. ASSUME Typed, LoopInv, LogInv
      PROVE  EachEntryOnce
  <2>. SUFFICES ASSUME NEW c \in Children
                PROVE  EachEntryOnce!(c)
    BY DEF EachEntryOnce
  <2>1. InputsTyped
    BY <1>2 DEF Typed, TypeOK, InputsTyped
  <2>2. \A p \in PelsOf(c) :
          /\ p.level \in Levels
          /\ kind[c] \in Poz /\ ffdc[c][p.entry] = "UNRECOVERABLE" => p.level = "Error"
    BY <1>2, <2>1, ReportsTyped DEF LogInv
  <2>3. Logged(c) \ Through(c) \subseteq
          (IF pc[c] \in {"call", "threw", Idle} /\ todo[c] # {} THEN {Current(c)} ELSE {})
    BY <1>2 DEF LogInv, LoopInv, MaybeLogged
  <2>. QED
    BY <1>2, <2>2, <2>3 DEF LogInv, LoopInv, Logged, Through
<1>. QED
  BY <1>1, <1>2, LoopStarts, LoopInvStep, LogInvStep, PTL DEF Spec

-----------------------------------------------------------------------------
(* The ids of the PELs. *)

\* The service gives each PEL the next id.
IdsInv ==
  /\ \A p \in log : p.id \in 1 .. Cardinality(log)
  /\ \A p, q \in log : p.id = q.id => p = q

\* The PEL of process c that is called id, about the last entry of the list so far.
Names(c, id) ==
  \E p \in log : p.id = id /\ p.child = c /\ p.entry \in Through(c)
                 /\ \A e \in Through(c) : e <= p.entry

\* An answer names the PEL of the current entry; what is kept of it names the last PEL;
\* and a dump is requested under what is kept, by a process that needs one.
IdInv ==
  \A c \in Children :
    /\ pc[c] = "call" /\ reply[c] # 0 =>
         \E p \in log : p.id = reply[c] /\ p.child = c /\ p.entry = Current(c)
    /\ Through(c) # {} => Names(c, plid[c])
    /\ pc[c] = "request" => c \in timeout /\ kind[c] = "proc"

DumpsInv ==
  \A d \in dumps :
    /\ d[1] \in Children /\ d[1] \in timeout /\ kind[d[1]] = "proc"
    /\ pc[d[1]] = "done"
    /\ d[2] = plid[d[1]]

LEMMA IdsInvStep == Typed /\ LoopInv /\ IdsInv /\ [Next]_vars => IdsInv' /\ log \subseteq log'
<1>. SUFFICES ASSUME Typed, LoopInv, IdsInv, [Next]_vars
              PROVE  IdsInv' /\ log \subseteq log'
  OBVIOUS
<1>1. CASE \E c \in Children : CreatePELWithFFDCFiles(c)
  <2>1. PICK c \in Children : CreatePELWithFFDCFiles(c)
    BY <1>1
  <2>2. log' = log \cup {NewPel(c)}
    BY <2>1 DEF CreatePELWithFFDCFiles, NewPel
  <2>3. NewPel(c).id = Cardinality(log) + 1 /\ Cardinality(log) \in Nat
    BY FS_CardinalityType DEF NewPel, NextId, Typed
  <2>4. NewPel(c) \notin log
    BY <2>3 DEF IdsInv
  <2>5. Cardinality(log') = Cardinality(log) + 1
    BY <2>2, <2>4, FS_AddElement DEF Typed
  <2>6. \A p \in log' : p.id \in 1 .. Cardinality(log')
    BY <2>2, <2>3, <2>5 DEF IdsInv
  <2>7. \A p, q \in log' : p.id = q.id => p = q
    BY <2>2, <2>3 DEF IdsInv
  <2>. QED
    BY <2>2, <2>6, <2>7 DEF IdsInv
<1>2. CASE UNCHANGED log
  BY <1>2 DEF IdsInv
<1>. QED
  BY <1>1, <1>2, StepCases DEF Call, CallFails, TakeReply, EndLoop, RequestDump, vars

\* A PEL that is in the log goes on naming its entry.
LEMMA NamesStay ==
  ASSUME NEW c \in Children, NEW id, Names(c, id), log \subseteq log', Through(c)' = Through(c)
  PROVE  Names(c, id)'
BY DEF Names

LEMMA IdInvStep ==
  Typed /\ LoopInv /\ IdsInv /\ IdInv /\ DumpsInv /\ [Next]_vars => IdInv' /\ DumpsInv'
<1>. SUFFICES ASSUME Typed, LoopInv, IdsInv, IdInv, DumpsInv, [Next]_vars
              PROVE  IdInv' /\ DumpsInv'
  OBVIOUS
<1>0. /\ log \subseteq log'
      /\ UNCHANGED <<kind, timeout>>
      /\ \A c \in Children : Reported(c)' = Reported(c)
  BY IdsInvStep, InputsStay, ChildrenAssumption DEF Reported, Next, ChildStep, Call, TakeReply,
     EndLoop, RequestDump, CreatePELWithFFDCFiles, CallFails, Finished, vars
<1>1. ASSUME NEW c \in Children, UNCHANGED <<pc[c], todo[c], reply[c], plid[c]>>
      PROVE  IdInv!(c)'
  <2>1. Through(c)' = Through(c) /\ Current(c)' = Current(c)
    BY <1>0, <1>1 DEF Through, Current
  <2>. QED
    BY <1>0, <1>1, <2>1, NamesStay DEF IdInv
<1>2. ASSUME NEW c \in Children, UNCHANGED <<todo[c], plid[c]>>, pc'[c] # "call" \/ reply'[c] = 0,
             pc'[c] = "request" => c \in timeout /\ kind[c] = "proc"
      PROVE  IdInv!(c)'
  <2>1. Through(c)' = Through(c)
    BY <1>0, <1>2 DEF Through
  <2>. QED
    BY <1>0, <1>2, <2>1, NamesStay DEF IdInv
<1>3. ASSUME NEW c \in Children, UNCHANGED dumps, pc[c] # "done",
             \A b \in Children : b # c => pc'[b] = pc[b] /\ plid'[b] = plid[b]
      PROVE  DumpsInv'
  <2>1. \A d \in dumps : d[1] # c
    BY <1>3 DEF DumpsInv
  <2>. QED
    BY <1>0, <1>3, <2>1 DEF DumpsInv
<1>4. CASE \E c \in Children : Call(c) \/ CallFails(c)
  <2>1. PICK c \in Children : Call(c) \/ CallFails(c)
    BY <1>4
  <2>2. \A b \in Children : b # c => UNCHANGED <<pc[b], todo[b], reply[b], plid[b]>>
    BY <2>1 DEF Call, CallFails, Typed, TypeOK
  <2>3. /\ UNCHANGED <<todo, plid, dumps>> /\ pc[c] # "done"
        /\ pc'[c] # "call" \/ reply'[c] = 0
        /\ pc'[c] # "request"
    BY <2>1 DEF Call, CallFails, Caught, Idle, Typed, TypeOK
  <2>4. IdInv!(c)'
    BY <1>2, <2>3
  <2>. QED
    BY <1>1, <1>3, <2>2, <2>3, <2>4 DEF IdInv
<1>5. CASE \E c \in Children : CreatePELWithFFDCFiles(c)
  <2>1. PICK c \in Children : CreatePELWithFFDCFiles(c)
    BY <1>5
  <2>2. /\ log' = log \cup {NewPel(c)} /\ reply'[c] = NextId(c)
        /\ UNCHANGED <<pc, todo, plid, dumps>> /\ pc[c] = "call"
        /\ \A b \in Children : b # c => UNCHANGED <<pc[b], todo[b], reply[b], plid[b]>>
    BY <2>1 DEF CreatePELWithFFDCFiles, NewPel, Typed, TypeOK
  <2>3. Through(c)' = Through(c) /\ Current(c)' = Current(c)
    BY <1>0, <2>2 DEF Through, Current
  <2>4. \E p \in log' : p.id = reply'[c] /\ p.child = c /\ p.entry = Current(c)'
    <3>1. NewPel(c) \in log' /\ NewPel(c).id = reply'[c]
      BY <2>2 DEF NewPel
    <3>2. NewPel(c).child = c /\ NewPel(c).entry = Current(c)'
      BY <2>3 DEF NewPel
    <3>. QED
      BY <3>1, <3>2
  <2>5. IdInv!(c)'
    <3>1. Through(c)' # {} => Names(c, plid[c])'
      <4>1. Through(c) # {} => Names(c, plid[c])
        BY DEF IdInv
      <4>. QED
        BY <1>0, <2>2, <2>3, <4>1, NamesStay
    <3>2. pc'[c] # "request"
      BY <2>2
    <3>. QED
      BY <2>4, <3>1, <3>2
  <2>. QED
    BY <1>1, <1>3, <2>2, <2>5 DEF IdInv
<1>6. CASE \E c \in Children : TakeReply(c)
  <2>1. PICK c \in Children : TakeReply(c)
    BY <1>6
  <2>2. /\ pc[c] = "call" /\ reply[c] # 0 /\ pc'[c] = "loop" /\ UNCHANGED <<log, dumps>>
        /\ todo'[c] = todo[c] \ {Current(c)} /\ plid'[c] = reply[c]
        /\ Current(c) \in todo[c] /\ todo[c] \subseteq Reported(c)
        /\ \A b \in Children : b # c => UNCHANGED <<pc[b], todo[b], reply[b], plid[b]>>
    BY <2>1, CurrentIsFirst DEF TakeReply, TodoAfter, IdAfter, LoopInv, Typed, TypeOK
  <2>3. Through(c)' = Through(c) \cup {Current(c)}
    BY <1>0, <2>2 DEF Through
  <2>4. \A e \in Through(c)' : e <= Current(c)
    <3>1. Current(c) \in Nat /\ Through(c) \subseteq Nat
      BY <2>2, ReportsTyped, EntriesAreNumbers DEF Through, Typed, TypeOK, InputsTyped
    <3>2. \A e \in Through(c) : e < Current(c)
      BY <2>2 DEF LoopInv
    <3>. QED
      BY <2>3, <3>1, <3>2
  <2>5. PICK p \in log : p.id = reply[c] /\ p.child = c /\ p.entry = Current(c)
    BY <2>2 DEF IdInv
  <2>6. Names(c, plid[c])'
    BY <2>2, <2>3, <2>4, <2>5 DEF Names
  <2>7. IdInv!(c)'
    BY <2>2, <2>6
  <2>. QED
    BY <1>1, <1>3, <2>2, <2>7 DEF IdInv
<1>7. CASE \E c \in Children : EndLoop(c)
  <2>1. PICK c \in Children : EndLoop(c)
    BY <1>7
  <2>2. \A b \in Children : b # c => UNCHANGED <<pc[b], todo[b], reply[b], plid[b]>>
    BY <2>1 DEF EndLoop, Typed, TypeOK
  <2>3. /\ UNCHANGED <<todo, plid, dumps>> /\ pc[c] # "done"
        /\ pc'[c] # "call"
        /\ pc'[c] = "request" => c \in timeout /\ kind[c] = "proc"
    BY <2>1 DEF EndLoop, AfterLoop, AsksForDump, Typed, TypeOK
  <2>4. IdInv!(c)'
    BY <1>2, <2>3
  <2>. QED
    BY <1>1, <1>3, <2>2, <2>3, <2>4 DEF IdInv
<1>8. CASE \E c \in Children : RequestDump(c)
  <2>1. PICK c \in Children : RequestDump(c)
    BY <1>8
  <2>2. /\ pc[c] = "request" /\ pc'[c] = "done" /\ UNCHANGED <<todo, plid>>
        /\ dumps' = dumps \cup {<<c, plid[c]>>}
        /\ \A b \in Children : b # c => UNCHANGED <<pc[b], todo[b], reply[b], plid[b]>>
    BY <2>1 DEF RequestDump, Typed, TypeOK
  <2>3. IdInv!(c)'
    BY <1>2, <2>2
  <2>4. \A d \in dumps : d[1] # c
    BY <2>2 DEF DumpsInv
  <2>5. c \in timeout /\ kind[c] = "proc"
    BY <2>2 DEF IdInv
  <2>6. DumpsInv'
    BY <1>0, <2>2, <2>4, <2>5 DEF DumpsInv
  <2>. QED
    BY <1>1, <2>2, <2>3, <2>6 DEF IdInv
<1>9. CASE UNCHANGED vars
  BY <1>0, <1>1, <1>9 DEF vars, IdInv, DumpsInv
<1>. QED
  BY <1>4, <1>5, <1>6, <1>7, <1>8, <1>9, StepCases

\* An SBE dump is requested by a processor that timed out, under the id of its own PEL
\* about the last entry, however many report beside it.
THEOREM DumpsAreNamed == Spec => []DumpNamesItsPel
<1>1. Init => IdsInv /\ IdInv /\ DumpsInv
  BY DEF Init, IdsInv, IdInv, DumpsInv, Through
<1>2. ASSUME Typed, LoopInv, IdsInv, IdInv, DumpsInv
      PROVE  DumpNamesItsPel
  <2>. SUFFICES ASSUME NEW d \in dumps
                PROVE  DumpNamesItsPel!(d)
    BY DEF DumpNamesItsPel
  <2>. DEFINE c == d[1]
  <2>1. c \in Children /\ c \in timeout /\ kind[c] = "proc" /\ pc[c] = "done" /\ d[2] = plid[c]
    BY <1>2 DEF DumpsInv
  <2>2. Through(c) = Reported(c)
    BY <1>2, <2>1 DEF LoopInv, Through
  <2>3. Reported(c) # {}
    BY <1>2, <2>1, ReportsTyped DEF Typed, TypeOK, InputsTyped
  <2>4. PICK p \in log : p.id = d[2] /\ p.child = c /\ \A e \in Reported(c) : e <= p.entry
    BY <1>2, <2>1, <2>2, <2>3 DEF IdInv, Names
  <2>5. \A q \in log : q.id = d[2] => q = p
    BY <1>2, <2>4 DEF IdsInv
  <2>. QED
    BY <2>1, <2>4, <2>5
<1>. QED
  BY <1>1, <1>2, LoopStarts, LoopInvStep, IdsInvStep, IdInvStep, PTL DEF Spec

-----------------------------------------------------------------------------
(* The children of collectDump, as DumpCollect has them. *)

\* What DumpCollect's variables stand for that change here.
CollectJobs == (ProcChips \cup OcmbChips) \X {"ON", "OFF"}
Places ==
  [j \in CollectJobs |-> IF \E c \in Collecting : j = JobOf(c) THEN PlaceOf(j[1][1]) ELSE "none"]
Errors ==
  [j \in CollectJobs |-> IF \E c \in Collecting : j = JobOf(c) THEN ErrorOf(j[1][1]) ELSE "none"]
ChipsTaken == {<<c, kind[c]>> : c \in Collecting}
JobsWithPel == {JobOf(c) : c \in {b \in Collecting : HasPel(b)}}
JobsWithDump == {JobOf(c) : c \in {b \in Collecting : \E d \in dumps : d[1] = b}}

LEMMA JobsApart ==
  /\ \A c \in Collecting : c \in Children /\ JobOf(c) \in CollectJobs /\ JobOf(c)[1][1] = c
  /\ \A c \in Collecting : JobOf(c)[1] \in OcmbChips <=> kind[c] = "ocmb"
  /\ \A b, c \in Collecting : JobOf(b) = JobOf(c) => b = c
BY DEF Collecting, JobOf, CollectJobs, ProcChips, OcmbChips, ProcOf, OcmbOf

\* Only a coroutine catches its exception and stays in its context.
IdleInv == \A c \in Children : pc[c] = Idle => kind[c] = "createpel"

LEMMA IdleInvStep == Typed /\ IdleInv /\ [Next]_vars => IdleInv'
<1>. SUFFICES ASSUME Typed, IdleInv, [Next]_vars, NEW b \in Children
              PROVE  IdleInv!(b)'
  BY DEF IdleInv
<1>1. kind' = kind
  BY DEF Next, ChildStep, Call, TakeReply, EndLoop, RequestDump, CreatePELWithFFDCFiles,
         CallFails, Finished, vars
<1>2. pc'[b] = Idle => pc[b] = Idle \/ kind[b] = "createpel"
  BY StepCases DEF Call, TakeReply, EndLoop, AfterLoop, RequestDump, CreatePELWithFFDCFiles,
     CallFails, Caught, Idle, Typed, TypeOK, vars
<1>. QED
  BY <1>1, <1>2 DEF IdleInv

\* A child that moves changes its own place, and the others' stay.
LEMMA OneMoves ==
  ASSUME UNCHANGED <<kind, timeout>>, NEW c \in Collecting,
         \A b \in Collecting : b # c => PlaceOf(b)' = PlaceOf(b)
  PROVE  /\ Places' = [Places EXCEPT ![JobOf(c)] = PlaceOf(c)']
         /\ Errors' = Errors /\ ChipsTaken' = ChipsTaken
<1>1. Collecting' = Collecting /\ \A b : JobOf(b)' = JobOf(b)
  BY DEF Collecting, JobOf
<1>2. CollectJobs' = CollectJobs
  BY DEF CollectJobs, ProcChips, OcmbChips
<1>3. Errors' = Errors /\ ChipsTaken' = ChipsTaken
  BY <1>1, <1>2 DEF Errors, ChipsTaken, ErrorOf
<1>4. ASSUME NEW j \in CollectJobs
      PROVE  Places'[j] = IF j = JobOf(c) THEN PlaceOf(c)' ELSE Places[j]
  <2>1. CASE \E b \in Collecting : j = JobOf(b)
    <3>1. PICK b \in Collecting : j = JobOf(b)
      BY <2>1
    <3>2. j[1][1] = b
      BY <3>1, JobsApart
    <3>3. Places'[j] = PlaceOf(b)' /\ Places[j] = PlaceOf(b)
      BY <1>1, <1>2, <3>1, <3>2 DEF Places
    <3>. QED
      BY <3>1, <3>3, JobsApart
  <2>2. CASE ~\E b \in Collecting : j = JobOf(b)
    BY <1>1, <1>2, <2>2 DEF Places
  <2>. QED
    BY <2>1, <2>2
<1>. QED
  BY <1>2, <1>3, <1>4 DEF Places

\* Nothing of what DumpCollect sees changes.
LEMMA NothingMoves ==
  ASSUME UNCHANGED <<kind, timeout>>,
         \A b \in Collecting :
           /\ PlaceOf(b)' = PlaceOf(b) /\ HasPel(b)' = HasPel(b)
           /\ (\E d \in dumps' : d[1] = b) <=> (\E d \in dumps : d[1] = b)
  PROVE  UNCHANGED Collect!vars
<1>1. Collecting' = Collecting /\ \A b : JobOf(b)' = JobOf(b)
  BY DEF Collecting, JobOf
<1>2. CollectJobs' = CollectJobs
  BY DEF CollectJobs, ProcChips, OcmbChips
<1>3. Errors' = Errors /\ ChipsTaken' = ChipsTaken
  BY <1>1, <1>2 DEF Errors, ChipsTaken, ErrorOf
<1>4. JobsWithPel' = JobsWithPel /\ JobsWithDump' = JobsWithDump
  BY <1>1 DEF JobsWithPel, JobsWithDump
<1>5. Places' = Places
  <2>1. \A j \in CollectJobs : Places'[j] = Places[j]
    BY <1>1, <1>2, JobsApart DEF Places
  <2>. QED
    BY <1>2, <2>1 DEF Places
<1>. QED
  BY <1>3, <1>4, <1>5
  DEF Collect!vars, Places, Errors, ChipsTaken, JobsWithPel, JobsWithDump, CollectJobs

\* A child whose loop is over, or was left by an exception, has taken DumpCollect's
\* step from its PEL.
LEMMA LeavesItsPel ==
  ASSUME Typed, UNCHANGED <<kind, timeout, log, dumps>>, NEW c \in Collecting,
         \A b \in Children : b # c => pc'[b] = pc[b],
         pc[c] \in {"loop", "call"},
         pc'[c] = "threw" \/ (pc'[c] = AfterLoop(c) /\ (kind[c] = "proc" => PelsOf(c) # {}))
  PROVE  Collect!CreatePel(JobOf(c))
<1>. DEFINE j == JobOf(c)
<1>0. c \in Children /\ Collecting \subseteq Children /\ kind[c] \in {"proc", "ocmb"}
      /\ kind' = kind /\ timeout' = timeout
  BY DEF Collecting
<1>1. \A b \in Collecting : b # c => PlaceOf(b)' = PlaceOf(b)
  BY <1>0 DEF PlaceOf
<1>2. /\ Places' = [Places EXCEPT ![j] = PlaceOf(c)']
      /\ Errors' = Errors /\ ChipsTaken' = ChipsTaken
  BY <1>1, OneMoves
<1>3. j \in CollectJobs /\ Places[j] = "pel" /\ Errors[j] = ErrorOf(c)
  <2>1. PlaceOf(c) = "pel"
    BY DEF PlaceOf
  <2>. QED
    BY <2>1, JobsApart DEF Places, Errors
<1>4. JobsWithDump' = JobsWithDump
  BY <1>0 DEF JobsWithDump, Collecting, JobOf
<1>5. PelsOf(c)' = PelsOf(c)
  BY DEF PelsOf
<1>6. /\ PelsOf(c) # {} => JobsWithPel' = JobsWithPel \cup {j}
      /\ PelsOf(c) = {} => JobsWithPel' = JobsWithPel
  <2>1. \A b \in Collecting : b # c => (HasPel(b)' <=> HasPel(b))
    BY <1>1 DEF HasPel, PelsOf
  <2>2. ~HasPel(c)
    BY DEF HasPel, PlaceOf
  <2>3. PlaceOf(c)' # "pel"
    BY <1>0 DEF PlaceOf, AfterLoop
  <2>4. HasPel(c)' <=> PelsOf(c) # {}
    BY <1>5, <2>3 DEF HasPel
  <2>5. Collecting' = Collecting /\ \A b : JobOf(b)' = JobOf(b)
    BY <1>0 DEF Collecting, JobOf
  <2>6. JobsWithPel' = {JobOf(b) : b \in {d \in Collecting : HasPel(d)'}}
    BY <2>5 DEF JobsWithPel
  <2>. QED
    BY <2>1, <2>2, <2>4, <2>6 DEF JobsWithPel
<1>7. CASE pc'[c] = "threw"
  <2>1. PlaceOf(c)' = "exit1"
    BY <1>7 DEF PlaceOf
  <2>2. Places' = [Places EXCEPT ![j] = "exit1"] /\ JobsWithPel' \in {JobsWithPel, JobsWithPel \cup {j}}
    BY <1>2, <1>6, <2>1
  <2>. QED
    BY <1>2, <1>3, <1>4, <2>2
    DEF Collect!CreatePel, Collect!Goto, Collect!parentVars, Places, Errors, ChipsTaken,
        JobsWithPel, JobsWithDump, CollectJobs
<1>8. CASE pc'[c] = AfterLoop(c) /\ (kind[c] = "proc" => PelsOf(c) # {})
  <2>1. Collect!AfterPel(j) = IF kind[c] = "ocmb" THEN "exit0"
                              ELSE IF c \in timeout THEN "request" ELSE "primary"
    <3>1. j[1] \in OcmbChips <=> kind[c] = "ocmb"
      BY JobsApart
    <3>2. Collect!AfterPel(j) = IF j[1] \in OcmbChips THEN "exit0"
                                ELSE IF Errors[j] = "timeout" THEN "request" ELSE "primary"
      BY DEF Collect!AfterPel, Errors, CollectJobs
    <3>. QED
      BY <1>3, <3>1, <3>2 DEF ErrorOf
  <2>2. PlaceOf(c)' = Collect!AfterPel(j)
    BY <1>0, <1>8, <2>1 DEF PlaceOf, AfterLoop, AsksForDump
  <2>3. Places' = [Places EXCEPT ![j] = Collect!AfterPel(j)]
    BY <1>2, <2>2
  <2>4. JobsWithPel' = JobsWithPel \cup {j} \/ (j[1] \in OcmbChips /\ JobsWithPel' = JobsWithPel)
    BY <1>0, <1>6, <1>8, JobsApart
  <2>. QED
    BY <1>2, <1>3, <1>4, <2>3, <2>4
    DEF Collect!CreatePel, Collect!Goto, Collect!parentVars, Places, Errors, ChipsTaken,
        JobsWithPel, JobsWithDump, CollectJobs
<1>. QED
  BY <1>7, <1>8

\* A child that has asked for its SBE dump has taken DumpCollect's step to the end of
\* the handler.
LEMMA AsksInItsStep ==
  ASSUME Typed, IdInv, NEW c \in Collecting, RequestDump(c)
  PROVE  Collect!RequestDump(JobOf(c))
<1>. DEFINE j == JobOf(c)
<1>0. /\ c \in Children /\ Collecting \subseteq Children
      /\ UNCHANGED <<kind, timeout, log>>
      /\ pc[c] = "request" /\ pc' = [pc EXCEPT ![c] = "done"]
      /\ dumps' = dumps \cup {<<c, plid[c]>>}
      /\ kind[c] = "proc"
  BY DEF Collecting, RequestDump, IdInv
<1>1. /\ \A b \in Collecting : b # c => PlaceOf(b)' = PlaceOf(b)
      /\ PlaceOf(c) = "request" /\ PlaceOf(c)' = "primary"
  BY <1>0 DEF PlaceOf, Typed, TypeOK
<1>2. /\ Places' = [Places EXCEPT ![j] = "primary"]
      /\ Errors' = Errors /\ ChipsTaken' = ChipsTaken
  BY <1>0, <1>1, OneMoves
<1>3. Places[j] = "request"
  BY <1>1, JobsApart DEF Places
<1>4. Collecting' = Collecting /\ \A b : JobOf(b)' = JobOf(b)
  BY <1>0 DEF Collecting, JobOf
<1>5. JobsWithPel' = JobsWithPel
  <2>1. \A b \in Collecting : HasPel(b)' <=> HasPel(b)
    BY <1>0, <1>1 DEF HasPel, PelsOf
  <2>. QED
    BY <1>4, <2>1 DEF JobsWithPel
<1>6. JobsWithDump' = JobsWithDump \cup {j}
  <2>1. \A b \in Collecting :
          (\E d \in dumps' : d[1] = b) <=> (b = c \/ \E d \in dumps : d[1] = b)
    <3>1. \A d : d \in dumps' <=> d \in dumps \/ d = <<c, plid[c]>>
      BY <1>0
    <3>2. <<c, plid[c]>>[1] = c
      OBVIOUS
    <3>. QED
      BY <3>1, <3>2
  <2>2. JobsWithDump' = {JobOf(b) : b \in {e \in Collecting : \E d \in dumps' : d[1] = e}}
    BY <1>4 DEF JobsWithDump
  <2>. QED
    BY <2>1, <2>2 DEF JobsWithDump
<1>. QED
  BY <1>2, <1>3, <1>5, <1>6
  DEF Collect!RequestDump, Collect!Goto, Collect!parentVars, Places, Errors, ChipsTaken,
      JobsWithPel, JobsWithDump, CollectJobs

\* One step of a process that leaves DumpCollect's child where it is.
LEMMA StaysAtItsPlace ==
  ASSUME Typed, UNCHANGED <<kind, timeout, dumps>>, NEW c \in Children,
         \A b \in Children : b # c => pc'[b] = pc[b] /\ PelsOf(b)' = PelsOf(b),
         c \in Collecting => pc[c] \in {"loop", "call"} /\ pc'[c] \in {"loop", "call"}
  PROVE  UNCHANGED Collect!vars
<1>1. Collecting \subseteq Children /\ kind' = kind
  BY DEF Collecting
<1>2. \A b \in Collecting : PlaceOf(b)' = PlaceOf(b)
  BY <1>1 DEF PlaceOf
<1>3. \A b \in Collecting : HasPel(b)' = HasPel(b)
  <2>1. TAKE b \in Collecting
  <2>2. CASE b = c
    BY <1>2, <2>2 DEF HasPel, PlaceOf
  <2>3. CASE b # c
    BY <1>1, <1>2, <2>3 DEF HasPel
  <2>. QED
    BY <2>2, <2>3
<1>. QED
  BY <1>2, <1>3, NothingMoves

\* The children of collectDump among the processes do what DumpCollect lets a child do
\* at its PEL and after it, and nothing else: whatever calls fail, in whatever order the
\* logging service answers.
THEOREM CollectsAsDumpCollect == Spec => CollectImplemented
<1>. DEFINE CollectStep ==
              \E c \in Collecting :
                Collect!CreatePel(JobOf(c)) \/ Collect!RequestDump(JobOf(c))
<1>1. ASSUME Typed, LoopInv, LogInv, IdInv, IdleInv, [Next]_vars
      PROVE  [CollectStep]_(Collect!vars)
  <2>1. ASSUME NEW c \in Children, c \in Collecting => pc[c] \in {"loop", "call"},
               Call(c) \/ CallFails(c) \/ TakeReply(c) \/ EndLoop(c)
        PROVE  [CollectStep]_(Collect!vars)
    <3>1. /\ UNCHANGED <<kind, timeout, log, dumps>>
          /\ \A b \in Children : b # c => pc'[b] = pc[b]
      BY <1>1, <2>1 DEF Call, CallFails, TakeReply, EndLoop, Typed, TypeOK
    <3>2. \A b \in Children : PelsOf(b)' = PelsOf(b)
      BY <3>1 DEF PelsOf
    <3>3. CASE c \in Collecting => pc'[c] \in {"loop", "call"}
      BY <1>1, <2>1, <3>1, <3>2, <3>3, StaysAtItsPlace
    <3>4. CASE c \in Collecting /\ pc'[c] \notin {"loop", "call"}
      <4>1. \/ pc'[c] = "threw"
            \/ pc'[c] = AfterLoop(c) /\ (kind[c] = "proc" => PelsOf(c) # {})
        <5>1. CASE EndLoop(c)
          <6>1. pc'[c] = AfterLoop(c) /\ todo[c] = {}
            BY <1>1, <5>1 DEF EndLoop, LoopOver, Typed, TypeOK
          <6>2. kind[c] = "proc" => Reported(c) # {}
            BY <1>1, ReportsTyped DEF Typed, TypeOK, InputsTyped
          <6>3. Reported(c) \subseteq Logged(c)
            BY <1>1, <6>1 DEF LogInv, Through
          <6>. QED
            BY <6>1, <6>2, <6>3 DEF Logged
        <5>2. CASE Call(c) \/ CallFails(c)
          BY <1>1, <3>4, <5>2 DEF Call, CallFails, Caught, Collecting, Typed, TypeOK
        <5>3. CASE TakeReply(c)
          BY <1>1, <3>4, <5>3 DEF TakeReply, Typed, TypeOK
        <5>. QED
          BY <2>1, <5>1, <5>2, <5>3
      <4>2. Collect!CreatePel(JobOf(c))
        BY <1>1, <2>1, <3>1, <3>4, <4>1, LeavesItsPel
      <4>. QED
        BY <3>4, <4>2
    <3>. QED
      BY <3>3, <3>4
  <2>2. CASE \E c \in Children : CreatePELWithFFDCFiles(c)
    <3>1. PICK c \in Children : CreatePELWithFFDCFiles(c)
      BY <2>2
    <3>2. /\ UNCHANGED <<kind, timeout, dumps, pc>> /\ pc[c] = "call"
          /\ log' = log \cup {NewPel(c)} /\ NewPel(c).child = c
      BY <3>1 DEF CreatePELWithFFDCFiles, NewPel
    <3>3. \A b \in Children : b # c => PelsOf(b)' = PelsOf(b)
      BY <3>2 DEF PelsOf
    <3>. QED
      BY <1>1, <3>2, <3>3, StaysAtItsPlace
  <2>3. CASE \E c \in Children : RequestDump(c)
    <3>1. PICK c \in Children : RequestDump(c)
      BY <2>3
    <3>2. kind[c] = "proc"
      BY <1>1, <3>1 DEF RequestDump, IdInv
    <3>3. c \in Collecting
      BY <3>2 DEF Collecting
    <3>. QED
      BY <1>1, <3>1, <3>3, AsksInItsStep
  <2>4. CASE UNCHANGED vars
    <3>1. \A b \in Children : PelsOf(b)' = PelsOf(b)
      BY <2>4 DEF vars, PelsOf
    <3>. QED
      BY <2>4, <3>1, NothingMoves DEF vars, PlaceOf, HasPel, Collecting
  <2>5. CASE \E c \in Children : Call(c) \/ CallFails(c) \/ TakeReply(c) \/ EndLoop(c)
    <3>1. PICK c \in Children : Call(c) \/ CallFails(c) \/ TakeReply(c) \/ EndLoop(c)
      BY <2>5
    <3>2. pc[c] \in {"loop", "call"}
      BY <3>1 DEF Call, CallFails, TakeReply, EndLoop
    <3>. QED
      BY <2>1, <3>1, <3>2
  <2>. QED
    BY <1>1, <2>2, <2>3, <2>4, <2>5, StepCases
<1>2. Init => IdleInv /\ LogInv /\ IdsInv /\ IdInv /\ DumpsInv
  BY DEF Init, IdleInv, Idle, LogInv, PelsOf, Logged, Through, IdsInv, IdInv, DumpsInv
<1>. QED
  BY <1>1, <1>2, LoopStarts, LoopInvStep, LogInvStep, IdsInvStep, IdInvStep, IdleInvStep, PTL
  DEF Spec, CollectImplemented

=============================================================================
