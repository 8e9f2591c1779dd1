# Formal models of the OpenBMC/POWER test programs

The repository is a collection of programs for the BMC of POWER systems: each
top-level directory is an executable of its own, built around libpdbg, libphal
and the D-Bus services of OpenBMC. This directory holds TLA+ models of the
programs that have behaviour worth modelling, the TLC configurations that check
them, and proofs of the properties that matter most. All paths below are
relative to `src/`.

## 1. Inventory

| Component | Where | State it keeps | Operations | Interacts with |
|---|---|---|---|---|
| Dump collection | `collectdump/dump_collect.cpp` | target list, children, `failed`, dump folder | `collectDump`, `collectDumpFromSBE`, `writeDumpFile` | one child process per chip and clock state; SBEs through libphal; the folder all children share; logging and dump manager services |
| Dump request | `collectdump/dump_utils.cpp` (same file in `multiffdc/`) | `inProgress`, `timedOut`, `secondsCount`, the match and its connection | `requestSBEDump`, `monitorDump`, `dumpStatusChanged`, `getService` | dump manager over D-Bus: a call and a signal |
| SBE error PELs | `collectdump/create_pel.cpp` (nearly the same in `multiffdc/`) | `plid`, the FFDC list | `createSbeErrorPEL`, `createPOZSbeErrorPEL`, `createPelWithFFDCfiles` | logging service over D-Bus |
| SBE response parser | `ffdcparse/ffdc.C` | offset, value, status, FFDC map | `parseSBEResponse`, `parseSBEFFDC`, `main` | none: a pure algorithm on a buffer |
| Entity paths | `pdbg_targeting/targeting/common/entitypath.C` | type, size, fixed array | add, remove, replace, copy, compare | keys of whoever stores targets |
| Scanning tools | `sbescom`, `sbegetscom`, `ocmbsbescom`, `sbefifo`, `sbegetstate`, `sbecfam`, `sbekernel`, `sbedump`, `sbeffdc`, `collectdump/collectdump.cpp`, `multiffdc/multiffdc.cpp`, `extract`, `p12istep`, `p12startcbs`, `ocmbfapi`, `attrupdate` | local variables, the probed devices | a loop over the targets of a class with a few calls each | each other, through the registers and attributes of the chips |
| FFDC PEL tools | `ffdcpel`, `captureffdc`, `createodypel`, `multiffdc` | local | target loop, one PEL per entry | logging service, beside the children of the collection |
| Target service | `pdbg_targeting/*.C` | the tree of targets | parse, traverse, next target | device-tree blob |
| FIFO FFDC context | `ffdcparse/ffdc.c`, `plat_sbe_oper.H` | status, buffer, length | clear, set, get, dump | FIFO device |
| FSI kernel access | `pcfam`, `pread` | fd, `first_probe` | probe with retries, scan, read | sysfs; each other, as a scan invalidates what anyone has open |
| Back-end switching | `pdbg` | back end and tree (in libpdbg), the static `flag` | switch, probe, getscom, reset | libpdbg; through its kernel back end the FSI entries |
| Watchers | `pvm_bios`, `watch` | what was read or listed | read, then register a match, then follow signals | D-Bus services that change what was read |
| Async PEL | `dump` | a coroutine and its context | spawn, run, stop | logging service |
| Core lookup | `getcores` | local | path of a core from a location code | inventory service |
| Attribute script | `attr/devtree.py` | lists of nodes and attributes | list, sort, filter, print | text files |
| One-shots | `progress`, `rebootcount`, `guard`, `fanerr`, `pwrerr`, `elog`, `core` | none | one or two calls | library or D-Bus service |
| Printing | `ocmbindex`, `pdbgtgttrav`, `performance` | none | walk and print | libpdbg |
| Generated tables | `attributestructs.H`, `attributetraits.H`, `attributeenums.H` | none | none | none |

What is hard in them:

* **Processes.** `collectDump` forks a child per chip, twice. Children write to
  one folder, report to one logging service, may fail in a dozen places, may be
  killed, and tell the parent nothing but an exit status.
* **Signals and replies.** `monitorDump` subscribes after the request was
  answered, on a connection of its own, handles one message per turn and counts
  turns as seconds.
* **Partial failure.** FFDC lists, PELs, files and damaged packages are handled
  one by one; each of them can be the one that fails.
* **Shared hardware.** Two of the command-line tools may be at one chip at the
  same time, and `sbescom` leaves a test pattern in a register for two seconds.
* **State that others change.** A property changes between the read and the match
  for its changes; a kernel entry that is open is made anew by another program's
  scan; a static flag outlives the device tree it was set for.
* **Byte and word arithmetic** in the response parser, and raw memory
  comparison in the entity path.

What makes the components correct is stated in section 4, per module. Every
hazard, with its line, is listed in `PROJECT.json`.

## 2. Modules

| Module | Models | Checked by | Proved in |
|---|---|---|---|
| `DumpArchive` | what a collection promises to the packaging after it: a folder filled in stages (abstract specification) | implemented by `DumpCollect` | - |
| `DumpCollect` | `dump_collect.cpp`: the parent, its children, the folder | `Collect.cfg`, `Collect_close.cfg` through `MC_DumpCollect`; implemented by `SbeErrorPel` as far as the PELs go | `DumpCollectProofs` |
| `SbeDumpRequest` | `dump_utils.cpp`, the dump manager and the bus | `Request.cfg` | `SbeDumpRequestProofs` |
| `SbeErrorPel` | `create_pel.cpp` and its use in `collectDumpFromSBE`, the PEL tools, `createpel` and the one-shots that log, the logging service | `ErrorPel.cfg` through `MC_SbeErrorPel` | `SbeErrorPelProofs` |
| `SbeResponse` | `ffdc.C` | `Libraries.cfg` through `MC_Libraries` | `FfdcparseProofs` |
| `EntityPath` | `entitypath.C` | `Libraries.cfg` through `MC_Libraries`, `Paths_equals.cfg` | `TargetingProofs` |
| `TargetService` | `target_service.C`, `target.C`, `dtree_loader.C` and the loop of `main.C` | `Libraries.cfg` through `MC_Libraries` | `TargetingProofs` |
| `DevTree` | `attr/devtree.py` | `DevTree.cfg`, `DevTree_json.cfg` through `MC_DevTree` | `DeviceTreeProofs` |
| `FfdcContext` | `ffdcparse/ffdc.c` | `Libraries.cfg` through `MC_Libraries` | `FfdcparseProofs` |
| `TargetTools` | twenty-one `main()` functions and the chips they share | `Tools.cfg` through `MC_TargetTools` | `DeviceTreeProofs` |
| `FsiAccess` | `pcfam.cpp`, `pread.cpp` and the kernel's entries | `Backend.cfg`, as part of `PdbgBackend` | `PdbgBackendProofs` |
| `PdbgBackend` | `switch_pdbg_backend.C`, `backend_switch.cpp` over `FsiAccess`, and what they need of libpdbg | `Backend.cfg` through `MC_PdbgBackend` | `PdbgBackendProofs` |
| `BusReaders` | `pvm_bios.cpp`, `getcores.cpp` and the services they read from | `Readers.cfg`, `Readers_code.cfg` through `MC_BusReaders` | `BusReadersProofs` |

`SbeResponse`, `EntityPath`, `TargetService` and `FfdcContext` are code that works in
memory alone and knows nothing of each other. `MC_Libraries` checks them in one run:
a behaviour is one of them running, the others staying in their first state.

A definition named a *fault* in a comment is a mistake the code might have
made; no specification uses it. Each property has one it must catch.

### DumpCollect

Parent: `ppc` is where `collectDump` is, `toScan` and `targets` are its target
loop and list, `clock` the loop variable `cstate`, `reaped` what `waitpid` has
returned for, `failed` the flag. Actions: `SkipProc`, `TakeProc`, `ScanThrows`,
`ScanDone` (L256-345), `Fork`, `ForkFails` (L354-388), `Reap` (L389-401),
`EndStage` (L402-412). Child: `cpc[<<chip, clock>>]`; actions `GetDump`,
`CreatePel`, `RequestDump`, `CheckPrimary` (`collectDumpFromSBE`), `OpenFile`,
`WriteData`, `CloseFile` (`writeDumpFile`), and `ChildKilled` from outside. A
file is absent, partial (created or truncated, not yet flushed) or whole.
`Folder` and `Stage` are the refinement mapping to `DumpArchive`.

Read off the code and assumed:

* The target loop's order does not matter; a stage's children run in any order.
* The dump folder is empty at the start; `is_empty` may throw if it is missing.
* Something else than a `runtime_error` that leaves the child's handler aborts
  it, and `WEXITSTATUS` of an aborted child is 0. What libphal throws for an SBE
  error is taken to be a `runtime_error`, as the handler at L373 takes it.
* `report<>` itself does not fail. `collectFastArray` only becomes a parameter
  of `getDump`, which is libphal's.

### DumpArchive

`stage` and the set of files. A file is added for the clock state being
collected, a stage is left only with something in the folder, and a collection
that ended other than by an exception changes no more. `DumpCollect` maps its
folder and parent to it with `INSTANCE DumpArchive WITH ...`; TLC checks
`Archive!ArchiveSpec`, the liveness included, and TLAPS proves its safety part.

### SbeDumpRequest

`rpc` walks through `requestSBEDump` and the loop of `monitorDump`; `queue` is
the connection's queue, filled only from the registration of the match on;
`process_discard` takes one message. The dump manager (external) may answer
late, after the requester gave up, or never, and may or may not end the dump.
`secondsCount` has its width (`CountModulus`). `elapsed` counts the seconds
that have really passed, to compare.

### SbeErrorPel

Processes that report side by side; `kind` says what each of them is: a child of
`collectDump`, one of the tools, or a one-shot. An operator named like the function or the
tool gives the entries it makes PELs of and their levels; the call to the
logging service and the loop around it are the same for all. The FFDC list is a
`std::map`, so the loop goes by ascending SLID; the error log of `ffdcpel` and
`ffdcpozpel` is a vector whose null entries are skipped, a list over places. The
logging service gives out ids by itself; a call fails before or after the
service has handled it. A failing `getService`, which throws in some of the
programs and gives an empty name to the call in others, is a call that fails.

`createpel` makes its call in a coroutine. When the call has returned it asks its
context to stop and the program ends; when it throws, the exception is caught and
the context runs on (`Idle`). Its user data refers to the text of a temporary
(createpel.cpp:32): that is the PEL's text, which the model leaves out.

`CollectImplemented` is the composition with `DumpCollect`: under a refinement
mapping that takes a child to be at its PEL as long as its loop over the entries
lasts, every step of a child is `DumpCollect!CreatePel`, `DumpCollect!RequestDump`
or a stutter. What `DumpCollect` does in one step is so checked to be what the loop,
the calls and the failures between them add up to.

### SbeResponse

The buffer is a sequence of words: it is built from words, and all offsets are
multiples of four. `Respond` is the format of the comment at L461-472 and the
status block `parseSBEResponse` expects; `Damaged` changes the length in one
package header, 0 included: the parser then stores entries without end, which
the model follows up to `MaxEntries`. `Nth(k)` is the entry that was stored as the k-th of
all: the `Place`-th under its SLID, counting the entries before it that went there. The
distance word is taken to be the one
the protocol prescribes; damage to it is not modelled. `RoundTrip` leaves out
the response with neither value nor FFDC: its three words are below
`SBEFIFO_MIN_RESP_LEN` (0x10) and are rejected (L541).

### EntityPath

Two objects under any sequence of calls. A call outside its precondition
asserts and ends the program. `entitypath.H` L252-253 says `equals` asserts
when the number of elements exceeds this path's size; the code returns false
then (L152) and asserts only beyond `MAX_PATH_ELEMENTS` (L148). The model follows the
code; the run `paths_equals` shows the difference.

### TargetService

`op` is where `init` is: the steps of the loader's constructor, then the parser,
whose recursion is `stack`. A blob is the sequence of its nodes' depths; a blob
damaged from some node on is a shorter one, as libfdt's loop macros end at an
error as at the end. `fds` and `maps` are the kernel's view of what the loaders
hold. A walk is the stack of nested generators of `getAllTargets`; the client
resumes it (`Descend`, `Return`), leaves it, and may call `init` in between.
`main.C` calls `init` once and walks once; the model lets a client call again, as
the guard at target_service.C:22 expects. The model is of a build with
`std::generator`; in an older one `getNextTarget` gives nothing and there are no
walks. The parts of a tree whose parse failed, which keep each other alive
through their shared pointers, are out of reach and not followed.

### TargetTools

A tool is a sequence of loops, a loop gives for each class of target the calls
made on one of them, and a call says what its failure leads to. A run is a record
with the main function's variables; where it is, is a loop of its tool and a chip
of the device tree (`Places`), and a step of what is done there (`Programs`). A run
goes on with the first of the places ahead: those of the targets behind this one,
or, after a break, of the loops behind this loop. The register at 0xc0002040, the SBE state and the MRU id
are shared by all runs. The history variables `own` and `disturbed` say what a
cell would hold without the tools, and where a test did not go undisturbed.

A lookup of a device (`get_ody_fsi_target` and its like) may give a null
pointer, and a main function that goes on with it crashes. So it is with the
processor above a chip (`Parent`): it is looked up for the message before the test of
the chip id, and nothing looks at it before its index is taken. A `break` ends a loop
for the chips it stands at: behind a DDR4 chip it goes on. An SBE state that
could not be read is an uninitialized variable: any state may be written back.

### DevTree

The script reads a listing, takes it apart (`processFile`), goes over the targets
once (`PrintAll`, `PrintJson`, `PrintSpecific`, `listNodes`, `Find`, one step per
target, as the option says) and ends (`Finish`). The tree is printed one node per
step: `l` is the script's list of that name, the path of the node `printNodes` is at;
the recursion goes down to the first node below (`PrintBelow`), and behind a node
without any to the next one beside it or back (`PrintBehind`). A target is its name, its path,
its ECO mode and its HWAS state; a path is a sequence of elements, a unit and an
index. The script searches for text in text, and units are texts of which one may
begin with, end with or have inside another: `TextBegins`, `TextEnds` and `TextInside` say which do, for any
units. So `-find omi` also prints `omic-0`, which attr/help_usage.txt L33-35 does not
say, `mi-0` is found in `omi-0`, and `proc-1` in `proc-10`. `-find` compares with what
stands behind the last slash and does not take off the `physical:` of a path, as
`getPath` does, so it does not find the top by its unit. A path that is missing or unknown and a
condition without value or on an attribute the target lacks end the script, and the
model has them do so. Left out are characters that mean something in a regular
expression, files that cannot be read, and conditions on attributes other than HWAS
bits and ECO mode, which compare in the same way. `-limited` and
lists of attributes select what is printed of a target and are left out, as are
the commands the script passes on to `attributes`, over ssh or not. `-nodes` with
a path prints every target in whose path the texts of the elements occur, which is more
than the subtree that attr/help_usage.txt speaks of; `SubtreeShown` says that it is
not less.

### FfdcContext

`ffdc`, `ffdc_len` and `status` are the context's; `live` and `data` are the heap,
and a block's number is never given again. `malloc` succeeds or not at each call.
`sbefifo_ffdc_get` puts test data into the context before it answers, as the code
does. `held` is the pointer the last get gave out, `printed` what a dump made
of the buffer. A read through the null pointer ends the program (`Crash`). A
block the context had is not freed by the next set: such blocks stay in `live`.

### FsiAccess and PdbgBackend

The kernel keeps at most one entry for the slave; `entry` is its number, a number is
never given again, and `endedBy` remembers who had an entry removed. A program
keeps the numbers it has open in `held`: an open entry that is no longer `entry` is
invalid. `kernel_fsi_probe` is `Probe`, then `OpenSucceeds` or `OpenFails` per
try, and `Scan` (the scan, which may fail silently, and the second of sleep) behind every
failed try while `first_probe` holds. `main()` of `pcfam` probes one device and
ends; the flag is there for more, and the model lets a program probe up to
`MaxProbes` times and release in between. `KernelChanges` is the slave found or lost
without a program asking.

`PdbgBackend` extends it by one program of `pdbg/`. `backend` and `tree` are
libpdbg's, `flag` is the static of switch_pdbg_backend.C, which
`pdbg_reset_dt_root` leaves alone, `asked` is the argument of `myGetScom`. Of
libpdbg it takes: a back end is not set, and no other tree made, under a tree; a
probe over the kernel back end opens the slave's entry or fails to; any of its calls
may fail for reasons of its own (`refused`). A probe without a tree may crash. What it
does with a target nobody probed is not in this repository, and its clients differ:
`sbegetscom` reads an OCMB it has not probed (L124). So data may or may not come from
the tree behind the reset, which the flag leaves unprobed (`Usable`).

### BusReaders

`client` is the program that runs, as the two share nothing. `ChangeTable`,
`ChangeOther` and `ChangeFunction` are the services; a signal is queued from the
registration of the match on. `missed` says that the table changed between the read
and the match, or could not be read, and has not changed since. A location code is
told apart by its last two parts; a code that cannot be read, or has no two dashes, is
the empty string (`NoCode`) and equals another one like it; `unread` are the processors
whose code the program could not read. pvm_bios.cpp:59 uses the
`std::expected` of `readDBusProperty` as if it were its value, which is no
valid C++; the model is of the value, and of `false` for an error.

## 3. Runs and bounds

| Run | Instance | What it shows |
|---|---|---|
| `collect` | one processor, one OCMB with the same index, all three types of dump | two children per stage that fail, throw or are killed at any place, the rethrow on the primary for a hostboot dump; the equal index makes the chip class in the file name matter |
| `collect_close` | two processors, hostboot dump | a finding below |
| `request` | timeout 3, up to three other messages | each turn can be used up by a message, by a second, or the end of the dump; all mixtures of three turns |
| `error_pel` | pairs of children, tools and one-shots, lists over two SLIDs with four severities, timeout or not | two loops of zero, one or two entries against each other; what a child does against `DumpCollect` |
| `libraries`: response | up to two packages of one or two data words in the FFDC and in the value, two SLIDs, six damaged lengths | first, middle and last package; equal and different SLIDs; too short, too long and zero lengths |
| `libraries`: paths | arrays of three, two types, two instances | empty, full and in between, for both objects |
| `paths_equals` | the same paths | a finding below |
| `libraries`: service | every blob of up to seven nodes | every shape with a subtree that ends up to six levels at once, a middle child with children, and `init` failing at each step any number of times |
| `libraries`: context | three allocations, seven buffers | a block over another one, a failure before, between and after; whole, cut, empty and headless packages |
| `tools` | two Odyssey OCMBs with a DDR4 one between them, two processors, a hub chip; twenty pairs of tools | overlap of tests on the first and on a later chip, kill, failure of every call |
| `devtree` | up to four of nine targets in any order, every option | a parent before and after its child, a core-0 at the front, behind its unit or behind a stranger, indices and units one of which begins with, ends with or has inside another, paths that are missing or unknown, every condition on ECO mode and three HWAS bits, one on no attribute and one without a value |
| `devtree_json` | the same files | a finding below |
| `backend` | one `pcfam` with two probes of three tries, one `pread`, one program of `pdbg/`, three kernel entries | a probe behind one that succeeded and behind one that failed, a scan while another program or the tree has the entry open, the entry gone between any two steps |
| `readers` | three processors under two codes, four changes | a change before, between and after the read and the match; codes that are equal, empty, unreadable or others than the device tree's; a core that changes while it is looked for |
| `readers_code` | the same inventory | a finding below |

Bounds by name: `MaxElapsed` and `MaxOther` (request), `MaxPackages`,
`MaxData`, `MaxValue`, `MaxEntries` (responses), `MaxNodes` (blobs), `MaxMoves`
(tools), `MaxTargets` (devtree), `MaxBlocks` (the context's heap), `MaxProbes` and
`MaxEntries` (backend), `MaxChanges` (readers). Constants
that are small here and have the code's value in mind: `PosModulus` (2^8),
`Timeout` (240), `Tries` (5), `CountModulus` (2^32), `MaxPathElements` (10), `HalfModulus`
(2^16), `SizeModulus` (2^30 and more).

Deadlock is checked in every run: a `Finished` disjunct names the states in
which the program is over.

### Findings

* `collect_close`: `outfile.close()` (dump_collect.cpp:91) is outside the try
  block, so a write error that shows only then fails the whole collection; the
  comments say the other dumps can still be packaged.
* `devtree_json`: a target's attributes replace what stands at its path
  (devtree.py:197), so one listed before a target above it is not in the JSON tree;
  attr/help_usage.txt:62 says it "Displays information about all targets in JSON format."
* `paths_equals`: `equals` answers no (entitypath.C:152) where entitypath.H:252-253
  says it asserts.
* `readers_code`: a location code that cannot be read is empty and equals that of a core
  whose own came back empty (getcores.cpp:130), so a processor is taken that has another
  code than getcores.cpp:17 says.

Four more are stated within properties that hold. `EndIsClean` admits children that
were killed in a collection reported complete: `WEXITSTATUS` is all that is looked at
(dump_collect.cpp:393), and it is 0 for a child that a signal ended. `ShownIsCurrent`
leaves out the change between the read and the match (pvm_bios.cpp:132-142).
`EndIsQueued` leaves out the
dump that is over before the match is registered (dump_utils.cpp:72): that one is
waited for until the timeout and logged as a status that did not change.
`ParserAdvances` leaves out the package that announces length 0, which ffdc.C:501
accepts although the format comment (:465) gives N+5 words: at it, the parser does
not end (:522).

## 4. Properties and fairness

* **Collection.** `StageBarrier`, `WholeFilesStay` (a file that is whole is
  never touched again, so no two children write to one), `RequestsJustified`,
  `EndIsClean` (who has been waited for when it ends, and what a complete
  collection and a failed one say of their children and the folder), `Termination`
  (liveness), `ArchiveImplemented` (refinement). A failing child is reported: by
  `Termination` the collection ends, by `EndIsClean` not as complete. Fairness: the
  parent and each child, weak: the kernel schedules them, and `getDump` and
  `requestSBEDump` have timeouts. Nothing is assumed of `ChildKilled`.
* **Request.** `ReturnIsJustified`, `EndIsQueued`, `WaitIsBounded`,
  `RequestEnds`. Fairness: only the requester's; nothing of the dump manager.
* **PELs.** `EachEntryOnce`, `DumpNamesItsPel`, `ChildrenEnd`,
  `CollectImplemented`. `ChildrenEnd` leaves out a `createpel` whose call failed.
  Fairness: each child, and the end of its call, which `bus.call` bounds.
* **Response.** `RoundTrip`, `EntriesTile`, `ParserAdvances`.
* **Paths.** `EqualityIsExact` (`EqualMeansSame`, and `EqualsIsPrefix`: yes for
  paths that both have so many elements and the same, and only for those),
  `LessIsTotal`.
* **Service.** `NothingLeaked`, `TargetsMapped`, `TreeIsBlob` (a target's ancestors are
  the set of nodes that enclose its own, in descending order; the traversal and
  `getNextTarget` against the blob), `WalkInOrder`: safety only.
* **Script.** `TreeShown` (`TreeInOrder` and `SubtreeShown`), `SelectsAsked`
  (`FoundIsAsked` and `FindIsExact`), `JsonHoldsOrdered` (what the tree keeps if what is above comes first, in
  any order otherwise), `CrashIsExplained` (an equivalence: the exceptions, and no
  others): safety only, of a program that runs alone.
* **Context.** `PointersLive` (`OwnsItsBlock` and `HandedOutLives`),
  `PackagesTile`, `CrashNeedsFailure`: safety only. That a dump ends is in
  `PackagesTile`: each package gets it ahead, within a buffer that does not change.
* **Types.** Each module's type invariant (`PathTypeOK` in `EntityPath`,
  `ResponseTypeOK` in `SbeResponse`, `ScriptTypeOK` in `DevTree`, `SwitchTypeOK` in `PdbgBackend`, `ContextTypeOK` in
  `FfdcContext`, else `TypeOK`) is proved for every value of the constants, so no run
  repeats it.
* **Tools.** `PutBack`, `UsesEnabled`, `RunsEnd`. Fairness: each run, weak. The tools
  have no lock: `PutBack` leaves out a cell whose test another run, a kill, a failing
  read or the SBE itself disturbed. `UsesEnabled` is about tools that act on the result
  of a probe; `Unprobed` lists the others, the pib of `sbeffdc` among them, which is
  probed and then used whatever came of it (L110-113).
* **FSI and back ends.** `OwnScansHarmless`, `GivesUpInTime`,
  `DataOfAskedBackend`, `ProgramsEnd` (liveness). Fairness: each program, weak;
  nothing is assumed of the kernel, so an entry may never come. A scan does
  invalidate what *another* program has open, which nothing in the code prevents.
* **Readers.** `ShownIsCurrent`, `FoundIsMatch` (the processor found, and that none is
  missed, for empty codes too), `ShownComesTrue` (liveness).
  Fairness: the program, weak, as its calls return or time out; nothing of the
  services.

## 5. Proofs

All theorems hold for every value of the constants under the modules' named
assumptions.

* `DumpCollectProofs`. The inductive invariant adds to the type invariant how
  the parent's place determines which children exist and which are reaped, which
  reaped children have ended, that `failed` is set once a child with `exit1` is
  reaped, what state of a child goes with which error, and that a file that is
  not absent belongs to a child that has reached it. The barrier needs it: only
  with "reaped implies ended" and "the stage advances only when all are reaped"
  is it inductive. `OneWriter` follows from the injectivity of `FileName`, which
  `PositionsAssumption` gives: two chips of a class differ modulo `PosModulus`.
  `ImplementsArchive` is the step simulation of `DumpArchive`: each action of the
  collection is one of the archive's under the mapping, or leaves it alone. It needs
  that a child that writes belongs to the stage the parent is in.
* `SbeDumpRequestProofs`. Invariant: how the reply, the flags and the counter
  go with the requester's place; `elapsed <= secondsCount` (plus one while a
  turn is being processed) gives the bounded wait, and `Timeout < CountModulus`
  that the counter does not wrap.
* `FfdcparseProofs`, of the context and of the parser.
  * Context. The invariant adds to the properties that blocks are numbered in the order
    of their allocation, so that a new block is none of the live ones; that a length
    without a block comes from a failed `malloc`; and that the dump stands at a word, so
    that the head it reads is one of the buffer's words.
  * Parser. `Arrived`: the buffer has the shape of what was sent, damaged or not: damage
    changes neither the value's length nor the status block. `Running`: the parser is
    within the response's FFDC, or within the value. `Filed`: under each SLID there are
    as many entries as `order` names it, so that `Nth` finds what was stored
    (`Stored`). `EntriesTile` is inductive on top of these, as the flattened entries
    grow at the end by what the turn has passed (`TileGrows`), and `offset = start` begins
    an empty tiling. `Found`, of an undamaged response: what has been stored is the
    first packages sent, and the parser stands at the start of the next one
    (`First(List, Done)`); so a turn stores the next package (`NextPackage`) and the loop
    ends only behind the last (`NoPackageLeft`). `RoundTrip` is that at the end.
    `HeaderFound` is where the width of the distance word and of `size_t` matters:
    `SizesAssumption` keeps the largest response below both.
* `TargetingProofs`, of the two modules of `pdbg_targeting`.
  * Paths. Invariant: type and clear tail; the comparisons are then theorems about
    two clear paths, and `EqualityStaysExact` joins them. `LessStaysTotal`: of two
    paths that differ, one is less. Where they differ first is the least member of a
    set of places; that there is one is `LeastNatural`.
  * Service. `Accounted`: the open files and mappings are those of `_loader` and what
    the step of the constructor has made so far, and a root or a walk exists only
    behind a finished `init`. From it follow `NothingLeaked` and `TargetsMapped`.
    `ParseInv`: the parser's stack lies along one branch of the blob, each entry's
    target is the last child so far of the one under it, the loop of the innermost
    stands at its next subnode, and what it is through with (not on the stack, before
    the node reached) has all its children. Only with that last part is the tree
    complete when the stack is empty (`TreeIsComplete`). `WalkInv`: the generators
    lie inside each other likewise, and the target that the innermost goes on with is
    one behind those seen; so a walk yields the targets in order (`WalksInOrder`).
    `Linked`: children and parents match, and only nodes have children. With it
    `TreeStaysTheBlob` goes from the children of each target to all of the tree. Up:
    each node but the root is a child of the last node before it that encloses it
    (`HasParent`), and what encloses a child is its parent and what encloses that
    (`EnclosingChild`). Down: the traversal of a node is the run of numbers from it to
    `After` it, as its children's runs join (`TraversalIs`).
* `DeviceTreeProofs`, of the tools and of the attribute script.
  * Tools. What the text of a tool has to do with it is said of a program (`Sound`:
    a step that uses a device is behind a probe of it that cannot be passed when it
    fails; a cell is written only between reading it and putting it back, and
    nothing else is read into the variable in between) and checked program by
    program. The invariant is about any sound programs: the devices
    probed behind a run are enabled (`AllEnabled`); a cell whose tests were not
    disturbed is tested by at most one run, whose variable holds what the cell would
    hold without the tools, and is what it would be if nobody tests it (`Restores`).
  * Script. `Copied`: what the listing has become when a part of it is taken apart.
    `TreeInv`: the tree has with a node all nodes above it, and what has been
    printed is what comes before the node the recursion is at, with that node and, on
    the way back, what is below it (`Visited`). This is what makes the order and the
    completeness inductive: a step down, beside or back changes that set by the node
    it prints or not at all (`VisitedBelow`, `VisitedBeside`, `VisitedAbove`), by one
    lemma on the order (`BeforeChild`) and its being total (`SortedIsTotal`).
    `AskedInv`, `FindInv` and `JsonInv` are the properties for the part of the file
    that the loop is through with.
* `SbeErrorPelProofs`. Four invariants, each upon those before. `LoopInv`: what a
  loop is through with lies below what is left of it, so its next entry, a minimum of
  a set, is new. `LogInv`: the PELs of a process are one for each entry its loop is
  through with, and perhaps that of the one it is at. `IdsInv`: the ids of
  the log are 1 up to its cardinality, so the next one is no other PEL's. `IdInv`: an
  answer names the PEL of the current entry, and what is kept of it the PEL of the last
  one; this survives what other processes log because the log only grows.
  `CollectsAsDumpCollect` is the step simulation of
  `DumpCollect`: under the mapping of `CollectImplemented` each step of the loop over
  the entries leaves the child where it is, and the last one is a step of `CreatePel`
  or `RequestDump` with what the loop has made; the invariants say that it has made it.
* `BusReadersProofs`. Invariant: unless a change was missed, the table's value is
  shown already, or waits in the queue, with only signals behind it that are not about
  the table.
* `PdbgBackendProofs`. Invariant: entries not removed yet have nobody to blame, a
  program that has anything open has `first_probe` cleared and makes no scan, a probe
  that may not scan is at its first try; and between two resets the back end and the
  tree are of the kind asked for, unless libpdbg refused.

There is no induction over data in these proofs. Where one would be used, the least
member of a set of numbers stands in for it: `WFMin`, a theorem of the library. In this
way the functions that are defined by recursion can be reasoned about too
(`FlattenSeq`, `ancestors`, `preOrder`). Such a definition is some solution of its own
equation; that there is one, and no other, is shown by the least number at which it
would fail (`AncestryExists`, `SumsExist`, `SumsAgree`, `TraversalsAgree`), as a sum
goes back to a shorter one and a target's ancestors and children are before and behind it.
Then the result that is claimed only has to be a solution.

All invariants that the runs check are proved, and the action properties. Left to TLC is
liveness (`Termination`, `RequestEnds`, `ChildrenEnd`, `RunsEnd`, `ProgramsEnd`,
`ShownComesTrue`), and with it the fairness part of the refinement of `DumpArchive`
(`ArchiveImplemented`; the steps are proved in `ImplementsArchive`).

## 6. Not modelled, and why

* `watch/watch.cpp` does not compile: it uses a bus that is not declared, an
  enumeration that is not declared, and `this` in a free function. It would have
  the gap of `pvm_bios` between its list and its match.
* `ffdcparse/plat_sbe_oper.H`, the transport of the FIFO, is included by no file
  here, and `ffdcscom` uses undeclared variables and is not built.
* `coroutine_example`, `progress`, `rebootcount`, `guard`, `elog` and `core` make
  one or two calls in a row and keep nothing; the printing programs walk and print.
* The generated tables have no behaviour. The strings of an entity path, the text
  of PELs, logging and the reading of hexadecimal text are formatting. What a read of
  a CFAM or SCOM returns changes no state.
* libpdbg, libphal, the kernel's drivers and the D-Bus services are outside the
  repository and appear only as far as the programs depend on them.

## 7. Plan

1. Done: the modules above, in their order, with the compositions of
   `SbeErrorPel` and `DumpCollect` and of `FsiAccess` and `PdbgBackend`.
2. Done: proofs of every invariant and action property the runs check.
3. Open, of the model: `SbeDumpRequest` as the detail of `DumpCollect!RequestDump`, with
   several requesters at one dump manager.
