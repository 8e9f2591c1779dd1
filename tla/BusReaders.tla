----------------------------- MODULE BusReaders -----------------------------
(***************************************************************************)
(* pvm_bios/pvm_bios.cpp and getcores/getcores.cpp: programs that read       *)
(* properties of D-Bus objects which their services change at any time.     *)
(* pvm_bios reads the BIOS table, shows whether a management console        *)
(* manages the system, and follows the table's changes from then on.        *)
(* getcores takes the first functional core, looks for its processor in the *)
(* inventory by location code, and shows what the object of the core under  *)
(* it says of its function.                                                 *)
(*                                                                         *)
(* The services and the bus are outside this repository.  As it stands      *)
(* pvm_bios takes readDBusProperty's std::expected for its value (L59); the *)
(* model is of the value, and of false for an error.                        *)
(***************************************************************************)
EXTENDS Naturals, Sequences

CONSTANTS
  Cpus,           \* processors in the inventory
  Codes,          \* location codes, by their last two parts
  MaxChanges      \* bound: changes the service makes to its table

\* A code without two dashes, or one that could not be read: getUnexpandedLocCode
\* and readProperty give the empty string for it.
NoCode == "no code"
NoPath == "no path"

ASSUME InventoryAssumption == NoCode \notin Codes /\ NoPath \notin Cpus
ASSUME ChangesAssumption == MaxChanges \in Nat

Clients == {"pvm_bios", "getcores"}

\* pvm_hmc_managed in the table: "other" when the attribute or the table is missing,
\* or is no string.
Settings == {"Enabled", "Disabled", "other"}

\* The change of another property.
Unrelated == "unrelated"

VARIABLES
  client,         \* the program that runs
  pc,             \* where it is
  table,          \* the service's BIOS table
  changes,        \* how often the services have changed something
  queue,          \* the signals the program's match has let through
  shown,          \* what the program has shown last
  missed,         \* the table was read in vain, or changed before there was a match,
                  \* and no change since
  code,           \* the location code of each processor in the inventory
  function,       \* the core objects, by processor, that say they are functional
  wanted,         \* the location code of the core's processor in the device tree
  todo,           \* processors getProcObjectPath has not looked at
  unread,         \* those whose code it could not read
  found           \* what it has found

tableVars == <<table, changes, queue, missed>>
coreVars  == <<code, function, wanted, todo, unread, found>>
vars      == <<client, pc, table, changes, queue, shown, missed,
               code, function, wanted, todo, unread, found>>

TypeOK ==
  /\ client \in Clients
  /\ pc \in {"read", "match", "loop", "core", "paths", "look", "function", "ended"}
  /\ table \in Settings
  /\ changes \in 0 .. MaxChanges
  /\ queue \in Seq(Settings \cup {Unrelated})
  /\ shown \in {"nothing", "yes", "no"}
  /\ missed \in BOOLEAN
  /\ code \in [Cpus -> Codes \cup {NoCode}]
  /\ function \in SUBSET Cpus
  /\ wanted \in Codes \cup {NoCode}
  /\ todo \in SUBSET Cpus
  /\ unread \in SUBSET Cpus
  /\ found \in Cpus \cup {NoPath}

\* What a program has nothing to do with stands still.
If(c, s, default) == IF client = c THEN s ELSE {default}

\* The code in the device tree is that of one processor of the inventory, of several or
\* of none, or empty: what getLocationCode returns is not looked at (L188).
Init ==
  /\ client \in Clients
  /\ pc = IF client = "pvm_bios" THEN "read" ELSE "core"
  /\ table \in If("pvm_bios", Settings, "other")
  /\ changes = 0
  /\ queue = <<>>
  /\ shown = "nothing"
  /\ missed = FALSE
  /\ code \in If("getcores", [Cpus -> Codes \cup {NoCode}], [c \in Cpus |-> NoCode])
  /\ function \in If("getcores", SUBSET Cpus, {})
  /\ wanted \in If("getcores", Codes \cup {NoCode}, NoCode)
  /\ todo = {} /\ unread = {}
  /\ found = NoPath

Goto(from, to) == pc = from /\ pc' = to

-----------------------------------------------------------------------------
(* The services. *)

\* The BIOS table changes, and a match that is registered gets the signal.
ChangeTable(v) ==
  /\ client = "pvm_bios"
  /\ changes < MaxChanges
  /\ changes' = changes + 1
  /\ table' = v
  /\ queue' = IF pc = "loop" THEN Append(queue, v) ELSE queue
  /\ missed' = (pc = "match")
  /\ UNCHANGED <<client, pc, shown>>
  /\ UNCHANGED coreVars

\* Another property of the manager changes.
ChangeOther ==
  /\ client = "pvm_bios"
  /\ pc = "loop"
  /\ changes < MaxChanges
  /\ changes' = changes + 1
  /\ queue' = Append(queue, Unrelated)
  /\ UNCHANGED <<client, pc, table, shown, missed>>
  /\ UNCHANGED coreVars

\* A core comes to work, or ceases to.
ChangeFunction(c) ==
  /\ client = "getcores"
  /\ changes < MaxChanges
  /\ changes' = changes + 1
  /\ function' \in {function \cup {c}, function \ {c}}
  /\ UNCHANGED <<client, pc, table, queue, shown, missed>>
  /\ UNCHANGED <<code, wanted, todo, unread, found>>

-----------------------------------------------------------------------------
(* pvm_bios. *)

isSystemHMCManaged(v) == IF v = "Enabled" THEN "yes" ELSE "no"

\* The property is read and the answer shown; a call that fails counts as no.
ReadTable ==
  /\ client = "pvm_bios"
  /\ Goto("read", "match")
  /\ \/ shown' = isSystemHMCManaged(table) /\ missed' = FALSE
     \/ shown' = "no" /\ missed' = TRUE
  /\ UNCHANGED <<client, table, changes, queue>>
  /\ UNCHANGED coreVars

\* The match is registered, and the event loop begins; if it cannot be, the exception
\* ends the program.
AddMatch ==
  /\ \/ Goto("match", "loop")
     \/ Goto("match", "ended")
  /\ UNCHANGED <<client, shown>>
  /\ UNCHANGED tableVars
  /\ UNCHANGED coreVars

\* A fault: what is not enabled is not shown.
propertyChangedEnabled(v) == IF v = "Enabled" THEN "yes" ELSE shown

\* What a signal shows: nothing new if the attribute is not in it.
propertyChanged(v) ==
  CASE v = "Enabled"  -> "yes"
    [] v = "Disabled" -> "no"
    [] OTHER          -> shown

Dispatch ==
  /\ pc = "loop"
  /\ queue # <<>>
  /\ shown' = propertyChanged(Head(queue))
  /\ queue' = Tail(queue)
  /\ UNCHANGED <<client, pc, table, changes, missed>>
  /\ UNCHANGED coreVars

-----------------------------------------------------------------------------
(* getcores. *)

\* The first core that is present and functional, with its processor and location
\* code; there may be none, and the calls may throw.
TakeCore ==
  /\ Goto("core", "paths") \/ Goto("core", "ended")
  /\ UNCHANGED <<client, shown>>
  /\ UNCHANGED tableVars
  /\ UNCHANGED coreVars

\* GetSubTreePaths, or its exception.
GetPaths ==
  /\ \/ Goto("paths", "look") /\ todo' = Cpus /\ UNCHANGED unread
     \/ Goto("paths", "function") /\ unread' = Cpus /\ UNCHANGED todo
  /\ UNCHANGED <<client, shown, code, function, wanted, found>>
  /\ UNCHANGED tableVars

\* A fault: an empty code matches any.
MatchesEmpty(c) == c \in {wanted, NoCode}

Matches(c) == c = wanted

\* The code of the next processor is read, in the order of the reply; a read that
\* fails gives the empty one.
LookAt(p) ==
  /\ p \in todo
  /\ todo' = todo \ {p}
  /\ \E c \in {code[p], NoCode} :
     /\ unread' = IF c = code[p] THEN unread ELSE unread \cup {p}
     /\ \/ Matches(c) /\ Goto("look", "function") /\ found' = p
        \/ ~Matches(c) /\ Goto("look", "look") /\ UNCHANGED found
  /\ UNCHANGED <<client, shown, code, function, wanted>>
  /\ UNCHANGED tableVars

\* No processor has the code: the path of the core begins with an empty one.
NoneMatches ==
  /\ todo = {}
  /\ Goto("look", "function")
  /\ UNCHANGED <<client, shown>>
  /\ UNCHANGED tableVars
  /\ UNCHANGED coreVars

\* The core's object says whether it is functional; a read that fails, for want of
\* such an object or otherwise, gives false.
getCoreFunctionalProp ==
  /\ Goto("function", "ended")
  /\ \/ shown' = IF found \in function THEN "yes" ELSE "no"
     \/ shown' = "no"
  /\ UNCHANGED client
  /\ UNCHANGED tableVars
  /\ UNCHANGED coreVars

-----------------------------------------------------------------------------

ClientStep ==
  \/ ReadTable
  \/ AddMatch
  \/ Dispatch
  \/ TakeCore
  \/ GetPaths
  \/ \E p \in Cpus : LookAt(p)
  \/ NoneMatches
  \/ getCoreFunctionalProp

ServiceStep ==
  \/ \E v \in Settings : ChangeTable(v)
  \/ ChangeOther
  \/ \E c \in Cpus : ChangeFunction(c)

\* pvm_bios waits for signals for ever.
Finished ==
  /\ pc = "ended" \/ (pc = "loop" /\ queue = <<>>)
  /\ UNCHANGED vars

Next == ClientStep \/ ServiceStep \/ Finished

\* The program runs, and its calls return or time out.
Spec == Init /\ [][Next]_vars /\ WF_vars(ClientStep)

-----------------------------------------------------------------------------
(* Properties. *)

\* Once its signals are handled, pvm_bios has shown what the table says.  It has not
\* when the table could not be read, or changed between the read and the match, and
\* has not changed since (L128-142); nor when the attribute has gone (L113-119).
ShownIsCurrent ==
  pc = "loop" /\ queue = <<>> /\ ~missed /\ table # "other" =>
    shown = isSystemHMCManaged(table)

\* And what it shows comes to be so.
ShownComesTrue ==
  <>[](pc = "loop" => missed \/ table = "other" \/ shown = isSystemHMCManaged(table))

\* The processor getcores finds has the location code it looks for; only when that is
\* empty may it be one whose code could not be read, which is empty to the program, too
\* (L83-87, L130).  And it finds one if there is one, unless reading its code, or the
\* list of processors, failed (L126-139).
FoundIsMatch ==
  /\ found # NoPath => code[found] = wanted \/ (wanted = NoCode /\ found \in unread)
  /\ pc = "function" /\ found = NoPath => \A c \in Cpus : code[c] = wanted => c \in unread

\* getcores.cpp L17 says that the processor found matches the location code.
FoundHasTheCode == found # NoPath => code[found] = wanted

=============================================================================
