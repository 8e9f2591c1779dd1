-------------------------- MODULE BusReadersProofs --------------------------
(***************************************************************************)
(* BusReaders for any inventory and any number of changes.  What pvm_bios   *)
(* shows lags behind the table by the signals in its queue, so the          *)
(* invariant (LagInv) says where in the queue the table's value is.         *)
(***************************************************************************)
EXTENDS BusReaders, TLAPS

\* What a step is, one action at a time.
LEMMA StepCases ==
  ASSUME [Next]_vars
  PROVE  \/ \E v \in Settings : ChangeTable(v)
         \/ ChangeOther
         \/ \E c \in Cpus : ChangeFunction(c)
         \/ ReadTable
         \/ AddMatch
         \/ Dispatch
         \/ TakeCore
         \/ GetPaths
         \/ \E p \in Cpus : LookAt(p)
         \/ NoneMatches
         \/ getCoreFunctionalProp
         \/ UNCHANGED vars
BY DEF Next, ClientStep, ServiceStep, Finished

Signals == Settings \cup {Unrelated}

\* Every variable keeps its type.
THEOREM TypeCorrect == Spec => []TypeOK
<1>1. ASSUME Init
      PROVE  TypeOK
  <2>1. code \in [Cpus -> Codes \cup {NoCode}]
    BY <1>1 DEF Init, If
  <2>2. function \in SUBSET Cpus
    BY <1>1 DEF Init, If
  <2>3. table \in Settings
    BY <1>1 DEF Init, If, Settings
  <2>4. wanted \in Codes \cup {NoCode}
    BY <1>1 DEF Init, If
  <2>5. changes \in 0 .. MaxChanges
    BY <1>1, ChangesAssumption DEF Init
  <2>6. queue \in Seq(Settings \cup {Unrelated})
    BY <1>1 DEF Init
  <2>. QED
    BY <1>1, <2>1, <2>2, <2>3, <2>4, <2>5, <2>6 DEF Init, TypeOK
<1>2. ASSUME TypeOK, [Next]_vars
      PROVE  TypeOK'
  <2>. USE <1>2, ChangesAssumption DEF TypeOK
  <2>1. CASE \E v \in Settings : ChangeTable(v)
    <3>1. PICK v \in Settings : ChangeTable(v)
      BY <2>1
    <3>2. queue' \in Seq(Signals)
      BY <3>1 DEF ChangeTable, Signals
    <3>. QED
      BY <3>1, <3>2 DEF ChangeTable, coreVars, Signals
  <2>2. CASE ChangeOther
    <3>1. queue' \in Seq(Signals)
      BY <2>2 DEF ChangeOther, Signals
    <3>. QED
      BY <2>2, <3>1 DEF ChangeOther, coreVars, Signals
  <2>3. CASE \E c \in Cpus : ChangeFunction(c)
    BY <2>3 DEF ChangeFunction
  <2>4. CASE ReadTable
    BY <2>4 DEF ReadTable, Goto, isSystemHMCManaged, coreVars
  <2>5. CASE AddMatch
    BY <2>5 DEF AddMatch, Goto, tableVars, coreVars
  <2>6. CASE Dispatch
    <3>1. queue' \in Seq(Signals)
      BY <2>6 DEF Dispatch, Signals
    <3>. QED
      BY <2>6, <3>1 DEF Dispatch, propertyChanged, coreVars, Signals
  <2>7. CASE TakeCore
    BY <2>7 DEF TakeCore, Goto, tableVars, coreVars
  <2>8. CASE GetPaths
    BY <2>8 DEF GetPaths, Goto, tableVars
  <2>9. CASE \E p \in Cpus : LookAt(p)
    BY <2>9 DEF LookAt, Goto, tableVars
  <2>10. CASE NoneMatches
    BY <2>10 DEF NoneMatches, Goto, tableVars, coreVars
  <2>11. CASE getCoreFunctionalProp
    BY <2>11 DEF getCoreFunctionalProp, Goto, tableVars, coreVars
  <2>12. CASE UNCHANGED vars
    BY <2>12 DEF vars
  <2>. QED
    BY <2>1, <2>2, <2>3, <2>4, <2>5, <2>6, <2>7, <2>8, <2>9, <2>10, <2>11, <2>12, StepCases
<1>. QED
  BY <1>1, <1>2, PTL DEF Spec

-----------------------------------------------------------------------------
(* pvm_bios. *)

Followed == pc = "loop" /\ ~missed /\ table # "other"

\* Nothing about the table waits behind place i of the queue.
QuietBehind(i) == \A k \in i + 1 .. Len(queue) : queue[k] = Unrelated

\* The table's value is what is shown already, or waits in the queue with nothing
\* about the table behind it.
LagInv ==
  /\ pc # "loop" => queue = <<>>
  /\ pc = "match" /\ ~missed => shown = isSystemHMCManaged(table)
  /\ Followed =>
       \/ shown = isSystemHMCManaged(table) /\ QuietBehind(0)
       \/ \E i \in 1 .. Len(queue) : queue[i] = table /\ QuietBehind(i)

LEMMA LagInvStep == TypeOK /\ LagInv /\ [Next]_vars => LagInv'
<1>. SUFFICES ASSUME TypeOK, LagInv, [Next]_vars
              PROVE  LagInv'
  OBVIOUS
<1>0. queue \in Seq(Signals)
  BY DEF TypeOK, Signals
<1>1. CASE \E v \in Settings : ChangeTable(v)
  <2>1. PICK v \in Settings : ChangeTable(v)
    BY <1>1
  <2>2. CASE pc = "loop"
    <3>1. queue' = Append(queue, v) /\ table' = v /\ pc' = "loop"
      BY <2>1, <2>2 DEF ChangeTable
    <3>2. Len(queue') = Len(queue) + 1 /\ queue'[Len(queue) + 1] = v
      BY <1>0, <3>1
    <3>3. \E i \in 1 .. Len(queue') :
            queue'[i] = table' /\ \A k \in i + 1 .. Len(queue') : queue'[k] = Unrelated
      BY <1>0, <3>1, <3>2
    <3>. QED
      BY <3>1, <3>3 DEF LagInv, Followed, QuietBehind
  <2>3. CASE pc # "loop"
    BY <2>1, <2>3 DEF ChangeTable, LagInv, Followed
  <2>. QED
    BY <2>2, <2>3
<1>2. CASE ChangeOther
  <2>1. /\ queue' = Append(queue, Unrelated)
        /\ UNCHANGED <<pc, table, shown, missed>>
        /\ pc = "loop"
    BY <1>2 DEF ChangeOther
  <2>2. /\ Len(queue') = Len(queue) + 1 /\ queue'[Len(queue) + 1] = Unrelated
        /\ \A k \in 1 .. Len(queue) : queue'[k] = queue[k]
    BY <1>0, <2>1
  <2>3. ASSUME NEW i \in 0 .. Len(queue), QuietBehind(i)
        PROVE  QuietBehind(i)'
    BY <1>0, <2>2, <2>3 DEF QuietBehind
  <2>4. Len(queue) \in Nat
    BY <1>0
  <2>5. CASE Followed /\ shown = isSystemHMCManaged(table) /\ QuietBehind(0)
    <3>1. QuietBehind(0)'
      BY <2>3, <2>4, <2>5
    <3>. QED
      BY <2>1, <2>5, <3>1 DEF LagInv, isSystemHMCManaged
  <2>6. CASE Followed /\ \E i \in 1 .. Len(queue) : queue[i] = table /\ QuietBehind(i)
    <3>1. PICK i \in 1 .. Len(queue) : queue[i] = table /\ QuietBehind(i)
      BY <2>6
    <3>2. i \in 1 .. Len(queue') /\ queue'[i] = table' /\ QuietBehind(i)'
      BY <2>1, <2>2, <2>3, <2>4, <3>1
    <3>. QED
      BY <2>1, <3>2 DEF LagInv
  <2>7. CASE ~Followed
    BY <2>1, <2>7 DEF LagInv, Followed
  <2>. QED
    BY <2>5, <2>6, <2>7 DEF LagInv
<1>3. CASE \E c \in Cpus : ChangeFunction(c)
  BY <1>3 DEF ChangeFunction, LagInv, Followed, QuietBehind, isSystemHMCManaged
<1>4. CASE ReadTable
  BY <1>4 DEF ReadTable, Goto, LagInv, Followed, isSystemHMCManaged
<1>5. CASE AddMatch
  <2>1. UNCHANGED <<shown, table, queue, missed>> /\ queue = <<>> /\ pc = "match"
    BY <1>5 DEF AddMatch, Goto, tableVars, LagInv
  <2>2. QuietBehind(0)'
    BY <2>1 DEF QuietBehind
  <2>. QED
    BY <1>5, <2>1, <2>2 DEF AddMatch, Goto, LagInv, Followed, isSystemHMCManaged
<1>6. CASE Dispatch
  <2>1. /\ pc = "loop" /\ queue # <<>>
        /\ shown' = propertyChanged(queue[1])
        /\ queue' = Tail(queue)
        /\ UNCHANGED <<pc, table, missed>>
    BY <1>0, <1>6 DEF Dispatch
  <2>2. /\ Len(queue) \in Nat \ {0} /\ Len(queue') = Len(queue) - 1
        /\ \A k \in 1 .. Len(queue') : queue'[k] = queue[k + 1]
    BY <1>0, <2>1
  <2>3. ASSUME NEW i \in 1 .. Len(queue), QuietBehind(i)
        PROVE  QuietBehind(i - 1)'
    <3>1. \A k \in (i - 1) + 1 .. Len(queue') : queue'[k] = Unrelated
      <4>1. TAKE k \in (i - 1) + 1 .. Len(queue')
      <4>2. k \in 1 .. Len(queue') /\ k + 1 \in i + 1 .. Len(queue)
        BY <2>2
      <4>. QED
        BY <2>2, <2>3, <4>2 DEF QuietBehind
    <3>. QED
      BY <3>1 DEF QuietBehind
  <2>4. CASE Followed /\ shown = isSystemHMCManaged(table) /\ QuietBehind(0)
    <3>1. queue[1] = Unrelated
      BY <2>2, <2>4 DEF QuietBehind
    <3>2. shown' = shown
      BY <2>1, <3>1 DEF propertyChanged, Unrelated
    <3>3. QuietBehind(1)
      BY <2>2, <2>4 DEF QuietBehind
    <3>4. QuietBehind(0)'
      <4>1. 1 \in 1 .. Len(queue) /\ 1 - 1 = 0
        BY <2>2
      <4>. QED
        BY <2>3, <3>3, <4>1
    <3>. QED
      BY <2>1, <2>4, <3>2, <3>4 DEF LagInv, isSystemHMCManaged
  <2>5. CASE Followed /\ \E i \in 1 .. Len(queue) : queue[i] = table /\ QuietBehind(i)
    <3>1. PICK i \in 1 .. Len(queue) : queue[i] = table /\ QuietBehind(i)
      BY <2>5
    <3>2. CASE i = 1
      <4>1. shown' = isSystemHMCManaged(table)
        BY <2>1, <2>5, <3>1, <3>2
        DEF propertyChanged, isSystemHMCManaged, Followed, TypeOK, Settings
      <4>2. QuietBehind(0)'
        <5>1. 1 - 1 = 0
          OBVIOUS
        <5>. QED
          BY <2>3, <3>1, <3>2, <5>1
      <4>. QED
        BY <2>1, <4>1, <4>2 DEF LagInv, isSystemHMCManaged
    <3>3. CASE i # 1
      <4>1. i - 1 \in 1 .. Len(queue') /\ queue'[i - 1] = table'
        BY <2>1, <2>2, <3>1, <3>3
      <4>2. QuietBehind(i - 1)'
        BY <2>3, <3>1
      <4>. QED
        BY <2>1, <4>1, <4>2 DEF LagInv
    <3>. QED
      BY <3>2, <3>3
  <2>6. CASE ~Followed
    BY <2>1, <2>6 DEF LagInv, Followed
  <2>. QED
    BY <2>4, <2>5, <2>6 DEF LagInv
<1>7. CASE TakeCore \/ GetPaths \/ NoneMatches \/ getCoreFunctionalProp \/ \E p \in Cpus : LookAt(p)
  <2>1. UNCHANGED <<table, queue, missed>> /\ pc # "loop" /\ pc' \notin {"loop", "match"}
    BY <1>7 DEF TakeCore, GetPaths, NoneMatches, getCoreFunctionalProp, LookAt, Goto, tableVars
  <2>. QED
    BY <2>1 DEF LagInv, Followed
<1>8. CASE UNCHANGED vars
  BY <1>8 DEF vars, LagInv, Followed, QuietBehind, isSystemHMCManaged
<1>. QED
  BY <1>1, <1>2, <1>3, <1>4, <1>5, <1>6, <1>7, <1>8, StepCases

\* With its signals handled, pvm_bios shows what the table says, unless it has missed
\* a change, or the read, from before the match.
THEOREM ShowsTheTable == Spec => []ShownIsCurrent
<1>1. Init => LagInv
  BY DEF Init, LagInv, Followed
<1>2. LagInv => ShownIsCurrent
  BY DEF LagInv, ShownIsCurrent, Followed
<1>. QED
  BY <1>1, <1>2, LagInvStep, TypeCorrect, PTL DEF Spec

-----------------------------------------------------------------------------
(* getcores. *)

\* What getProcObjectPath knows of the processors it has looked at.
SearchInv ==
  /\ pc \in {"core", "paths", "look"} => found = NoPath
  /\ pc = "look" => \A c \in Cpus \ todo : code[c] = wanted => c \in unread
  /\ FoundIsMatch

\* What getcores finds is a processor of the location code it looks for, or of an empty
\* code or one it could not read when that is empty; and it misses none it could read.
THEOREM FindsTheProcessor == Spec => []FoundIsMatch
<1>1. Init => SearchInv
  BY DEF Init, SearchInv, FoundIsMatch
<1>2. ASSUME TypeOK, SearchInv, [Next]_vars
      PROVE  SearchInv'
  <2>1. CASE \E p \in Cpus : LookAt(p)
    <3>1. PICK p \in Cpus : LookAt(p)
      BY <2>1
    <3>2. PICK c \in {code[p], NoCode} :
            /\ unread' = IF c = code[p] THEN unread ELSE unread \cup {p}
            /\ \/ Matches(c) /\ Goto("look", "function") /\ found' = p
               \/ ~Matches(c) /\ Goto("look", "look") /\ UNCHANGED found
      BY <3>1 DEF LookAt
    <3>3. UNCHANGED <<code, wanted>> /\ todo' = todo \ {p} /\ pc = "look"
      BY <3>1 DEF LookAt, Goto
    <3>4. p # NoPath
      BY InventoryAssumption
    <3>5. CASE Matches(c)
      BY <3>2, <3>3, <3>4, <3>5 DEF Matches, Goto, SearchInv, FoundIsMatch
    <3>6. CASE ~Matches(c)
      BY <1>2, <3>2, <3>3, <3>6 DEF Matches, Goto, SearchInv, FoundIsMatch
    <3>. QED
      BY <3>5, <3>6
  <2>2. CASE GetPaths
    <3>1. UNCHANGED <<found, wanted, code>> /\ found = NoPath
      BY <1>2, <2>2 DEF GetPaths, Goto, SearchInv
    <3>2. CASE Goto("paths", "look") /\ todo' = Cpus
      BY <3>1, <3>2 DEF Goto, SearchInv, FoundIsMatch
    <3>3. CASE Goto("paths", "function") /\ unread' = Cpus
      BY <3>1, <3>3 DEF Goto, SearchInv, FoundIsMatch
    <3>. QED
      BY <2>2, <3>2, <3>3 DEF GetPaths
  <2>3. CASE NoneMatches
    BY <1>2, <2>3 DEF NoneMatches, Goto, coreVars, SearchInv, FoundIsMatch
  <2>4. CASE TakeCore
    BY <1>2, <2>4 DEF TakeCore, Goto, coreVars, SearchInv, FoundIsMatch
  <2>5. CASE ReadTable \/ AddMatch \/ getCoreFunctionalProp
    BY <1>2, <2>5 DEF ReadTable, AddMatch, getCoreFunctionalProp, Goto, coreVars, SearchInv,
      FoundIsMatch
  <2>6. CASE UNCHANGED <<pc, found, wanted, code, todo, unread>>
    BY <1>2, <2>6 DEF SearchInv, FoundIsMatch
  <2>. QED
    BY <1>2, <2>1, <2>2, <2>3, <2>4, <2>5, <2>6, StepCases
    DEF ChangeTable, ChangeOther, ChangeFunction, Dispatch, coreVars, vars
<1>3. SearchInv => FoundIsMatch
  BY DEF SearchInv
<1>. QED
  BY <1>1, <1>2, <1>3, TypeCorrect, PTL DEF Spec

=============================================================================
