---------------------------- MODULE FfdcContext ----------------------------
(***************************************************************************)
(* ffdcparse/ffdc.c: the FFDC a SBE FIFO context keeps.  Clients set, clear *)
(* and get it in any order; a dump prints its packages one by one.  malloc  *)
(* may fail, and what get hands out points into the context's block.        *)
(*                                                                         *)
(* A buffer is its words and the bytes behind the last whole word.  Of a    *)
(* word counts what it says as the head of a package: the magic and the     *)
(* length in words.                                                        *)
(***************************************************************************)
EXTENDS Naturals, Sequences

CONSTANTS
  Buffers,      \* what clients set
  TestData,     \* test_pozffdc_data_bytes1
  MaxBlocks     \* bound: allocations

ASSUME BuffersAssumption ==
  /\ \A b \in Buffers \cup {TestData} :
       /\ b.words \in Seq([magic : BOOLEAN, len : Nat])
       /\ b.rest \in 0 .. 3
ASSUME MaxBlocksAssumption == MaxBlocks \in Nat \ {0}

Null   == 0
Blocks == 1 .. MaxBlocks
AllBuffers == Buffers \cup {TestData}

Size(b) == 4 * Len(b.words) + b.rest

VARIABLES
  status,       \* sctx->status: zero, or an error
  ffdc,         \* sctx->ffdc
  ffdc_len,     \* sctx->ffdc_len, in bytes
  live,         \* the blocks malloc gave and free did not take back
  data,         \* what was copied into each block
  used,         \* allocations so far
  held,         \* the pointer the last get handed out
  cleared,      \* history: the context was cleared since it did
  failed,       \* history: the last malloc failed
  pc,           \* "idle", "dump", or "crashed"
  dumpOffset,   \* of the package the dump is at
  printed       \* the packages printed: where, and how many words

context == <<status, ffdc, ffdc_len>>
heap    == <<live, data, used>>
history == <<held, cleared, failed>>
dump    == <<pc, dumpOffset, printed>>
contextVars == <<context, heap, history, dump>>

Sizes == {Size(b) : b \in AllBuffers}

ContextTypeOK ==
  /\ status \in {"zero", "error"}
  /\ ffdc \in Blocks \cup {Null}
  /\ ffdc_len \in Sizes \cup {0}
  /\ live \subseteq Blocks
  /\ data \in [Blocks -> AllBuffers]
  /\ used \in 0 .. MaxBlocks
  /\ held \in Blocks \cup {Null}
  /\ cleared \in BOOLEAN
  /\ failed \in BOOLEAN
  /\ pc \in {"idle", "dump", "crashed"}
  /\ dumpOffset \in Nat
  /\ \A p \in printed : p \in [at : Nat, words : Nat]

ContextInit ==
  /\ status = "zero" /\ ffdc = Null /\ ffdc_len = 0
  /\ live = {} /\ data = [b \in Blocks |-> TestData] /\ used = 0
  /\ held = Null /\ cleared = FALSE /\ failed = FALSE
  /\ pc = "idle" /\ dumpOffset = 0 /\ printed = {}

-----------------------------------------------------------------------------

Free ==
  /\ live' = live \ {ffdc}
  /\ ffdc' = Null
  /\ ffdc_len' = 0

sbefifo_ffdc_clear ==
  /\ pc = "idle"
  /\ status' = "zero"
  /\ IF ffdc # Null THEN Free ELSE UNCHANGED <<ffdc, ffdc_len, live>>
  /\ cleared' = TRUE
  /\ UNCHANGED <<data, used, held, failed, dump>>

FreshBlock == used + 1

\* A fault: the block before is freed.
AllocatedInstead(b) ==
  /\ ffdc' = FreshBlock /\ ffdc_len' = Size(b)
  /\ live' = (live \ {ffdc}) \cup {FreshBlock}
  /\ data' = [data EXCEPT ![FreshBlock] = b]
  /\ failed' = FALSE

\* The block the context had is neither freed nor known any more.
Allocated(b) ==
  /\ ffdc' = FreshBlock /\ ffdc_len' = Size(b)
  /\ live' = live \cup {FreshBlock}
  /\ data' = [data EXCEPT ![FreshBlock] = b]
  /\ failed' = FALSE

\* A fault: the length is set although there is no block for it.
LengthOnly(b) ==
  /\ ffdc' = Null /\ ffdc_len' = Size(b)
  /\ failed' = FALSE
  /\ UNCHANGED <<live, data>>

\* The length stays what it was.
NotAllocated(b) ==
  /\ ffdc' = Null
  /\ failed' = TRUE
  /\ UNCHANGED <<ffdc_len, live, data>>

Store(s, b) ==
  /\ pc = "idle"
  /\ used < MaxBlocks
  /\ used' = FreshBlock
  /\ status' = s
  /\ Allocated(b) \/ NotAllocated(b)

sbefifo_ffdc_set(s, b) ==
  /\ Store(s, b)
  /\ UNCHANGED <<held, cleared, dump>>

\* Test data is set before anything is given; a context without length leaves
\* the caller's pointer alone.
sbefifo_ffdc_get ==
  /\ Store("zero", TestData)
  /\ IF ffdc_len' > 0 THEN held' = ffdc' /\ cleared' = FALSE ELSE UNCHANGED <<held, cleared>>
  /\ UNCHANGED dump

-----------------------------------------------------------------------------
(* sbefifo_ffdc_dump. *)

BeginDump ==
  /\ pc = "idle"
  /\ pc' = "dump" /\ dumpOffset' = 0 /\ printed' = {}
  /\ UNCHANGED <<context, heap, history>>

\* sbefifo_ffdc_get_uint32 can read the word at an offset.
Readable(at) == at + 4 <= ffdc_len

WordAt(at) == data[ffdc].words[at \div 4 + 1]

\* A fault: the words a package announces, its three first ones included.
AnnouncedWords(head) == head.len

\* A package has three words at least, whatever it says.
PackageWords(head) == IF head.len < 3 THEN 3 ELSE head.len

\* sbefifo_ffdc_dump_pkg gets to its end.
Printable ==
  /\ Readable(dumpOffset)
  /\ WordAt(dumpOffset).magic
  /\ Readable(dumpOffset + 4 * (PackageWords(WordAt(dumpOffset)) - 1))

DumpPackage ==
  /\ pc = "dump"
  /\ dumpOffset < ffdc_len
  /\ ffdc # Null
  /\ Printable
  /\ printed' = printed \cup {[at |-> dumpOffset, words |-> PackageWords(WordAt(dumpOffset))]}
  /\ dumpOffset' = dumpOffset + 4 * PackageWords(WordAt(dumpOffset))
  /\ UNCHANGED <<pc, context, heap, history>>

EndDump ==
  /\ pc = "dump"
  /\ dumpOffset >= ffdc_len \/ (IF ffdc = Null THEN ~Readable(dumpOffset) ELSE ~Printable)
  /\ pc' = "idle"
  /\ UNCHANGED <<dumpOffset, printed, context, heap, history>>

\* A word is read through the null pointer.
Crash ==
  /\ pc = "dump"
  /\ ffdc = Null
  /\ Readable(dumpOffset)
  /\ pc' = "crashed"
  /\ UNCHANGED <<dumpOffset, printed, context, heap, history>>

-----------------------------------------------------------------------------

ContextFinished == pc = "crashed" /\ UNCHANGED contextVars

ContextNext ==
  \/ sbefifo_ffdc_clear
  \/ \E s \in {"zero", "error"}, b \in Buffers : sbefifo_ffdc_set(s, b)
  \/ sbefifo_ffdc_get
  \/ BeginDump
  \/ DumpPackage
  \/ EndDump
  \/ Crash
  \/ ContextFinished

ContextSpec == ContextInit /\ [][ContextNext]_contextVars

-----------------------------------------------------------------------------
(* Properties. *)

\* What the context points to was allocated and not freed, and its length is that
\* of the block: clear frees no block twice, the dump reads no byte behind it
\* (L31-36, L98-106).
OwnsItsBlock ==
  ffdc # Null => ffdc \in live /\ ffdc_len = Size(data[ffdc])

\* What get handed out lives until the context is cleared, also when the client
\* sets something else meanwhile (L98, L115-121).
HandedOutLives ==
  held # Null /\ ~cleared => held \in live

\* No pointer to the heap dangles, neither the context's own nor the client's.
PointersLive == OwnsItsBlock /\ HandedOutLives

\* The dump prints the packages from the first on, each behind the one before,
\* each with its magic, as long as it says and within the buffer; it never stays
\* where it is (L142-211, L217-226).
End(p) == p.at + 4 * p.words

PackagesTile ==
  pc = "dump" /\ ffdc # Null =>
    /\ dumpOffset \in {0} \cup {End(p) : p \in printed}
    /\ \A p \in printed :
         /\ p.at \in {0} \cup {End(q) : q \in printed \ {p}}
         /\ WordAt(p.at).magic
         /\ p.words >= 3 /\ p.words >= WordAt(p.at).len
         /\ End(p) <= Size(data[ffdc])

\* A null pointer is read only after a malloc that failed: that one leaves the
\* length of a block that is gone (L98-103, L115-121, L133-136).
CrashNeedsFailure ==
  pc = "crashed" => failed

=============================================================================
