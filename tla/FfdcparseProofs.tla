-------------------------- MODULE FfdcparseProofs --------------------------
(***************************************************************************)
(* Proofs about the two halves of ffdcparse.                                *)
(*                                                                         *)
(* FfdcContext: for any buffers and any number of allocations no pointer    *)
(* dangles, the dump tiles the buffer, and only a failed malloc makes it    *)
(* crash.                                                                   *)
(*                                                                         *)
(* SbeResponse: for any packages, value and damage the entries tile what    *)
(* the parser passed; an undamaged response is taken apart into what it was *)
(* made of.  Packages are laid end to end by FlattenSeq, which is defined   *)
(* by recursion: what it computes is found from the definition's solution,  *)
(* shown to exist and to be the only one by the least number at which it    *)
(* would not.                                                               *)
(***************************************************************************)
EXTENDS FfdcContext, SbeResponse, TLAPS, WellFoundedInduction, FiniteSetTheorems,
        SequenceTheorems

-----------------------------------------------------------------------------
(* FfdcContext. *)

\* Blocks are numbered in the order of their allocation: the next one is new.
NewIsNew ==
  /\ live \subseteq 1 .. used
  /\ ffdc <= used

\* A length without a block is what a failed malloc left behind.
LengthExplained == ffdc = Null /\ ffdc_len > 0 => failed

\* The dump stands at a word.
AtWord == \E k \in Nat : dumpOffset = 4 * k

ContextInv ==
  /\ ContextTypeOK
  /\ NewIsNew
  /\ LengthExplained
  /\ AtWord
  /\ OwnsItsBlock
  /\ HandedOutLives
  /\ PackagesTile
  /\ CrashNeedsFailure

\* A buffer's size is one the context may have.
LEMMA SizeTyped ==
  ASSUME NEW b \in AllBuffers
  PROVE  /\ Size(b) \in Nat
         /\ Size(b) \in Sizes
         /\ b.words \in Seq([magic : BOOLEAN, len : Nat])
         /\ b.rest \in 0 .. 3
         /\ Len(b.words) \in Nat
<1>1. /\ b.words \in Seq([magic : BOOLEAN, len : Nat])
      /\ b.rest \in 0 .. 3
  BY BuffersAssumption DEF AllBuffers
<1> QED
  BY <1>1 DEF Size, Sizes

\* The word the dump is at is there whenever it can be read.
LEMMA WordTyped ==
  ASSUME ContextInv, ffdc # Null, Readable(dumpOffset)
  PROVE  /\ WordAt(dumpOffset).len \in Nat
         /\ PackageWords(WordAt(dumpOffset)) \in Nat \ 0 .. 2
         /\ PackageWords(WordAt(dumpOffset)) >= WordAt(dumpOffset).len
<1> DEFINE b == data[ffdc]
<1>1. b \in AllBuffers
  BY DEF ContextInv, ContextTypeOK
<1>2. PICK k \in Nat : dumpOffset = 4 * k
  BY DEF ContextInv, AtWord
<1>3. 4 * k + 4 <= 4 * Len(b.words) + b.rest
  BY <1>2 DEF ContextInv, OwnsItsBlock, Readable, Size
<1>4. k + 1 \in 1 .. Len(b.words)
  <2> HIDE DEF b
  <2> QED BY <1>1, <1>3, SizeTyped
<1>5. dumpOffset \div 4 = k
  BY <1>2
<1>6. WordAt(dumpOffset) = b.words[k + 1]
  BY <1>5 DEF WordAt
<1>7. WordAt(dumpOffset) \in [magic : BOOLEAN, len : Nat]
  <2>1. b.words \in Seq([magic : BOOLEAN, len : Nat])
    <3> HIDE DEF b
    <3> QED BY <1>1, SizeTyped
  <2>2. b.words[k + 1] \in [magic : BOOLEAN, len : Nat]
    <3> HIDE DEF b
    <3> QED BY <1>4, <2>1, ElementOfSeq
  <2> HIDE DEF b
  <2> QED BY <1>6, <2>2
<1> QED
  BY <1>7 DEF PackageWords

\* A new context points to nothing.
LEMMA ContextInitInv == ContextInit => ContextInv
<1> SUFFICES ASSUME ContextInit PROVE ContextInv
  OBVIOUS
<1>1. ContextTypeOK
  <2>1. TestData \in AllBuffers
    BY DEF AllBuffers
  <2>2. data \in [Blocks -> AllBuffers]
    BY <2>1 DEF ContextInit
  <2>3. \A p \in printed : p \in [at : Nat, words : Nat]
    BY DEF ContextInit
  <2>4. /\ ffdc \in Blocks \cup {Null} /\ held \in Blocks \cup {Null}
        /\ ffdc_len \in Sizes \cup {0} /\ live \subseteq Blocks
        /\ used \in 0 .. MaxBlocks
    BY MaxBlocksAssumption DEF ContextInit, Null
  <2>5. cleared \in BOOLEAN /\ failed \in BOOLEAN
    BY DEF ContextInit
  <2> QED BY <2>2, <2>3, <2>4, <2>5 DEF ContextInit, ContextTypeOK
<1>2. AtWord
  <2>1. dumpOffset = 4 * 0 BY DEF ContextInit
  <2> QED BY <2>1 DEF AtWord
<1> QED
  BY <1>1, <1>2
  DEF ContextInit, ContextInv, NewIsNew, LengthExplained, OwnsItsBlock, HandedOutLives,
      PackagesTile, CrashNeedsFailure, Null

\* What both outcomes of malloc keep, whoever called it.
LEMMA StoreKeeps ==
  ASSUME ContextInv, NEW s \in {"zero", "error"}, NEW b \in AllBuffers, Store(s, b),
         UNCHANGED dump,
         held' \in {held, ffdc'},
         cleared' \in BOOLEAN,
         held' = held => cleared' = cleared \/ held' = ffdc'
  PROVE  ContextInv'
<1> USE MaxBlocksAssumption DEF Null, Blocks
<1>1. /\ Size(b) \in Nat /\ Size(b) \in Sizes
      /\ FreshBlock \in Blocks /\ used' = FreshBlock /\ FreshBlock = used + 1 /\ used \in Nat
      /\ FreshBlock \notin live
  BY SizeTyped DEF ContextInv, ContextTypeOK, Store, FreshBlock, NewIsNew
<1>2. \/ Allocated(b)
      \/ NotAllocated(b)
  BY DEF Store
<1>3. /\ ffdc' \in {FreshBlock, Null}
      /\ live \subseteq live' /\ live' \subseteq live \cup {FreshBlock}
      /\ data' \in [Blocks -> AllBuffers]
      /\ ffdc' # Null => ffdc' \in live' /\ data'[ffdc'] = b /\ ffdc_len' = Size(b)
      /\ ffdc' = Null => failed'
      /\ ffdc_len' \in Sizes \cup {0}
      /\ failed' \in BOOLEAN
  <2> HIDE DEF Blocks
  <2>1. CASE Allocated(b)
    <3>1. data' = [data EXCEPT ![FreshBlock] = b] /\ data \in [Blocks -> AllBuffers]
      BY <2>1 DEF Allocated, ContextInv, ContextTypeOK
    <3>2. data' \in [Blocks -> AllBuffers] /\ data'[FreshBlock] = b
      BY <1>1, <3>1
    <3>3. /\ ffdc' = FreshBlock /\ ffdc_len' = Size(b)
          /\ live' = live \cup {FreshBlock} /\ failed' = FALSE
      BY <2>1 DEF Allocated
    <3>4. FreshBlock # Null
      BY <1>1
    <3> HIDE DEF FreshBlock
    <3> QED BY <1>1, <3>2, <3>3, <3>4
  <2>2. CASE NotAllocated(b)
    BY <2>2 DEF NotAllocated, ContextInv, ContextTypeOK
  <2> QED BY <1>2, <2>1, <2>2
<1>4. pc' = "idle" /\ UNCHANGED <<pc, dumpOffset, printed>>
  BY DEF Store, dump
<1>5. ContextTypeOK'
  BY <1>1, <1>3, <1>4 DEF ContextInv, ContextTypeOK, Store
<1>6. NewIsNew'
  BY <1>1, <1>3 DEF ContextInv, ContextTypeOK, NewIsNew
<1>7. LengthExplained' /\ OwnsItsBlock'
  BY <1>3 DEF LengthExplained, OwnsItsBlock
<1>8. AtWord'
  BY <1>4 DEF ContextInv, AtWord
<1>9. HandedOutLives'
  BY <1>3 DEF ContextInv, HandedOutLives
<1>10. PackagesTile' /\ CrashNeedsFailure'
  BY <1>4 DEF PackagesTile, CrashNeedsFailure
<1> QED
  BY <1>5, <1>6, <1>7, <1>8, <1>9, <1>10 DEF ContextInv

\* Clearing gives up the block it frees.
LEMMA ClearKeeps ==
  ASSUME ContextInv, sbefifo_ffdc_clear
  PROVE  ContextInv'
<1> USE MaxBlocksAssumption DEF Null, Blocks
<1>1. /\ pc' = "idle" /\ UNCHANGED <<pc, dumpOffset, printed, data, used, held, failed>>
      /\ ffdc' = Null /\ live' \subseteq live /\ cleared' = TRUE /\ status' = "zero"
      /\ ffdc_len' = 0 \/ (ffdc = Null /\ ffdc_len' = ffdc_len)
  BY DEF sbefifo_ffdc_clear, Free, dump
<1>2. ContextTypeOK'
  BY <1>1 DEF ContextInv, ContextTypeOK
<1>3. NewIsNew'
  BY <1>1 DEF ContextInv, ContextTypeOK, NewIsNew
<1>4. AtWord'
  BY <1>1 DEF ContextInv, AtWord
<1>5. LengthExplained'
  BY <1>1 DEF ContextInv, LengthExplained
<1> QED
  BY <1>1, <1>2, <1>3, <1>4, <1>5
  DEF ContextInv, OwnsItsBlock, HandedOutLives, PackagesTile, CrashNeedsFailure

\* Steps of a dump leave the context alone.
LEMMA DumpKeepsContext ==
  ASSUME ContextInv, UNCHANGED <<context, heap, history>>
  PROVE  NewIsNew' /\ LengthExplained' /\ OwnsItsBlock' /\ HandedOutLives'
BY DEF context, heap, history, ContextInv, NewIsNew, LengthExplained, OwnsItsBlock, HandedOutLives

\* The one step that moves the dump on.
LEMMA PackageKeeps ==
  ASSUME ContextInv, DumpPackage
  PROVE  ContextInv'
<1> DEFINE W == PackageWords(WordAt(dumpOffset))
           p == [at |-> dumpOffset, words |-> W]
<1>1. /\ pc = "dump" /\ pc' = pc /\ ffdc # Null /\ Readable(dumpOffset)
      /\ UNCHANGED <<context, heap, history>>
      /\ UNCHANGED <<status, ffdc, ffdc_len, live, data, used, held, cleared, failed>>
      /\ printed' = printed \cup {p} /\ dumpOffset' = dumpOffset + 4 * W
      /\ WordAt(dumpOffset).magic
      /\ Readable(dumpOffset + 4 * (W - 1))
  BY DEF DumpPackage, Printable, context, heap, history
<1>2. W \in Nat \ 0 .. 2 /\ W >= WordAt(dumpOffset).len /\ dumpOffset \in Nat
  BY <1>1, WordTyped DEF ContextInv, ContextTypeOK
<1> HIDE DEF W
<1>3. ContextTypeOK'
  <2>1. p \in [at : Nat, words : Nat]
    BY <1>2
  <2>2. dumpOffset' \in Nat
    BY <1>1, <1>2
  <2> QED BY <1>1, <2>1, <2>2 DEF ContextInv, ContextTypeOK
<1>4. AtWord'
  <2>1. PICK k \in Nat : dumpOffset = 4 * k
    BY DEF ContextInv, AtWord
  <2>2. dumpOffset' = 4 * (k + W) /\ k + W \in Nat
    BY <1>1, <1>2, <2>1
  <2> QED BY <2>2 DEF AtWord
<1>5. PackagesTile'
  <2>1. p.at = dumpOffset /\ p.words = W /\ End(p) = dumpOffset'
    BY <1>1 DEF End
  <2>2. dumpOffset' \in {0} \cup {End(q) : q \in printed'}
    BY <1>1, <2>1
  <2>3. ASSUME NEW r \in printed'
        PROVE  /\ r.at \in {0} \cup {End(q) : q \in printed' \ {r}}
               /\ WordAt(r.at).magic
               /\ r.words >= 3 /\ r.words >= WordAt(r.at).len
               /\ End(r) <= Size(data[ffdc])
    <3>1. CASE r \in printed
      BY <1>1, <3>1 DEF ContextInv, PackagesTile
    <3>2. CASE r = p
      <4>1. p.at \in {0} \cup {End(q) : q \in printed}
        BY <1>1, <2>1 DEF ContextInv, PackagesTile
      <4>2. ASSUME NEW q \in printed, End(q) = p.at PROVE q # p
        BY <1>1, <1>2, <2>1, <4>2 DEF End
      <4>3. p.at \in {0} \cup {End(q) : q \in printed' \ {p}}
        BY <1>1, <4>1, <4>2
      <4>4. End(p) <= Size(data[ffdc])
        <5>1. dumpOffset + 4 * (W - 1) + 4 <= ffdc_len
          BY <1>1 DEF Readable
        <5>2. ffdc_len = Size(data[ffdc])
          BY <1>1 DEF ContextInv, OwnsItsBlock
        <5>3. Size(data[ffdc]) \in Nat
          BY <1>1, SizeTyped DEF ContextInv, ContextTypeOK
        <5> QED BY <1>1, <1>2, <2>1, <5>1, <5>2, <5>3
      <4> QED BY <1>1, <1>2, <2>1, <3>2, <4>3, <4>4
    <3> QED BY <1>1, <3>1, <3>2
  <2>4. UNCHANGED <<data, ffdc>>
    BY <1>1
  <2> QED BY <2>2, <2>3, <2>4 DEF PackagesTile, WordAt, End
<1>6. CrashNeedsFailure'
  BY <1>1 DEF CrashNeedsFailure
<1> QED
  BY <1>1, <1>3, <1>4, <1>5, <1>6, DumpKeepsContext DEF ContextInv

\* No operation, and no turn of the dump, breaks the invariant.
LEMMA ContextStepInv == ContextInv /\ [ContextNext]_contextVars => ContextInv'
<1> SUFFICES ASSUME ContextInv, [ContextNext]_contextVars PROVE ContextInv'
  OBVIOUS
<1>1. CASE sbefifo_ffdc_clear
  BY <1>1, ClearKeeps
<1>2. ASSUME NEW s \in {"zero", "error"}, NEW b \in Buffers, sbefifo_ffdc_set(s, b)
      PROVE  ContextInv'
  <2>1. cleared \in BOOLEAN BY DEF ContextInv, ContextTypeOK
  <2>2. b \in AllBuffers BY DEF AllBuffers
  <2> QED BY <1>2, <2>1, <2>2, StoreKeeps DEF sbefifo_ffdc_set
<1>3. CASE sbefifo_ffdc_get
  <2>1. cleared \in BOOLEAN BY DEF ContextInv, ContextTypeOK
  <2>2. TestData \in AllBuffers BY DEF AllBuffers
  <2> QED BY <1>3, <2>1, <2>2, StoreKeeps DEF sbefifo_ffdc_get
<1>4. CASE BeginDump
  <2>1. /\ pc' = "dump" /\ dumpOffset' = 0 /\ printed' = {}
        /\ UNCHANGED <<context, heap, history>>
    BY <1>4 DEF BeginDump
  <2>2. ContextTypeOK'
    BY <2>1 DEF ContextInv, ContextTypeOK, context, heap, history
  <2>3. AtWord'
    <3>1. dumpOffset' = 4 * 0 BY <2>1
    <3> QED BY <3>1 DEF AtWord
  <2> QED BY <2>1, <2>2, <2>3, DumpKeepsContext DEF ContextInv, PackagesTile, CrashNeedsFailure
<1>5. CASE DumpPackage
  BY <1>5, PackageKeeps
<1>6. CASE EndDump \/ Crash
  <2>1. /\ pc' \in {"idle", "crashed"} /\ UNCHANGED <<dumpOffset, printed>>
        /\ UNCHANGED <<context, heap, history>>
    BY <1>6 DEF EndDump, Crash
  <2>2. ContextTypeOK'
    BY <2>1 DEF ContextInv, ContextTypeOK, context, heap, history
  <2>3. CrashNeedsFailure'
    <3>1. CASE EndDump
      BY <3>1 DEF EndDump, CrashNeedsFailure
    <3>2. CASE Crash
      <4>1. ffdc = Null /\ dumpOffset + 4 <= ffdc_len /\ dumpOffset \in Nat
        BY <3>2 DEF Crash, Readable, ContextInv, ContextTypeOK
      <4>2. ffdc_len \in Nat
        BY SizeTyped DEF ContextInv, ContextTypeOK, Sizes
      <4>3. failed
        BY <4>1, <4>2 DEF ContextInv, LengthExplained
      <4> QED BY <2>1, <4>3 DEF CrashNeedsFailure, history
    <3> QED BY <1>6, <3>1, <3>2
  <2> QED BY <2>1, <2>2, <2>3, DumpKeepsContext DEF ContextInv, AtWord, PackagesTile
<1>7. CASE ContextFinished \/ UNCHANGED contextVars
  <2>1. UNCHANGED contextVars BY <1>7 DEF ContextFinished
  <2>2. /\ UNCHANGED <<status, ffdc, ffdc_len, live, data, used, held, cleared, failed>>
        /\ UNCHANGED <<pc, dumpOffset, printed>>
        /\ UNCHANGED <<context, heap, history>>
    BY <2>1 DEF contextVars, context, heap, history, dump
  <2>3. ContextTypeOK' /\ AtWord' /\ CrashNeedsFailure'
    BY <2>2 DEF ContextInv, ContextTypeOK, AtWord, CrashNeedsFailure
  <2>4. PackagesTile'
    BY <2>2 DEF ContextInv, PackagesTile, WordAt, End
  <2> QED BY <2>2, <2>3, <2>4, DumpKeepsContext DEF ContextInv
<1> QED
  BY <1>1, <1>2, <1>3, <1>4, <1>5, <1>6, <1>7 DEF ContextNext

THEOREM ContextInvHolds == ContextSpec => []ContextInv
BY ContextInitInv, ContextStepInv, PTL DEF ContextSpec

\* For any buffers and any allocations the context keeps its type (L27-126).
THEOREM ContextTypeCorrect == ContextSpec => []ContextTypeOK
BY ContextInvHolds, PTL DEF ContextInv

\* Neither the context's pointer nor the one get handed out dangles: what they
\* point to was allocated and not freed, and the length is that of the block
\* (L31-36, L98-106, L115-121).
THEOREM NothingDangles == ContextSpec => []PointersLive
BY ContextInvHolds, PTL DEF ContextInv, PointersLive

\* The packages a dump prints lie end to end within the buffer, whatever lengths
\* they announce (L142-211, L217-226).
THEOREM DumpTiles == ContextSpec => []PackagesTile
BY ContextInvHolds, PTL DEF ContextInv

\* The dump reads through a null pointer only after a failed malloc (L98-103, L133-136).
THEOREM CrashExplained == ContextSpec => []CrashNeedsFailure
BY ContextInvHolds, PTL DEF ContextInv

-----------------------------------------------------------------------------
(* Sequences laid end to end. *)

\* A set of natural numbers that is not empty has a least member.
LEMMA LeastNatural ==
  ASSUME NEW S \in SUBSET Nat, S # {}
  PROVE  \E m \in S : \A y \in S : m <= y
<1>1. PICK m \in S : \A y \in S : ~ (<<y, m>> \in OpToRel(<, Nat))
  BY WFMin, NatLessThanWellFounded, Zenon
<1>2. \A y \in S : ~ (y < m)
  BY <1>1 DEF OpToRel
<1>. QED
  BY <1>2

\* f lists what the first, the first two, ... of n sequences are end to end.
Sums(ss, n, f) ==
  f = [i \in 1 .. n |-> IF i = 1 THEN ss[i] ELSE f[i - 1] \o ss[i]]

\* The last of the sums adds the last sequence.
LEMMA SumsLast ==
  ASSUME NEW ss, NEW n \in Nat, n > 1, NEW f, Sums(ss, n, f)
  PROVE  f[n] = f[n - 1] \o ss[n]
<1>1. n \in 1 .. n /\ n # 1
  OBVIOUS
<1>2. \A i \in 1 .. n : f[i] = IF i = 1 THEN ss[i] ELSE f[i - 1] \o ss[i]
  BY Zenon DEF Sums
<1>3. f[n] = IF n = 1 THEN ss[n] ELSE f[n - 1] \o ss[n]
  BY <1>1, <1>2, Zenon
<1>. QED
  BY <1>1, <1>3, Zenon

\* The sums of n sequences are determined: their definition has one solution.
LEMMA SumsAgree ==
  ASSUME NEW ss, NEW n \in Nat, NEW f, NEW g, Sums(ss, n, f), Sums(ss, n, g)
  PROVE  f = g
<1> DEFINE D == {i \in 1 .. n : f[i] # g[i]}
<1>1. SUFFICES ASSUME D # {} PROVE FALSE
  <2>1. DOMAIN f = 1 .. n /\ DOMAIN g = 1 .. n
    BY DEF Sums
  <2>2. f = [i \in 1 .. n |-> f[i]] /\ g = [i \in 1 .. n |-> g[i]]
    BY DEF Sums
  <2> QED BY <2>2, Zenon
<1>2. PICK m \in D : \A y \in D : m <= y
  <2>1. D \in SUBSET Nat
    OBVIOUS
  <2> HIDE DEF D
  <2> QED BY <1>1, <2>1, LeastNatural
<1>3. m \in 1 .. n /\ f[m] # g[m]
  OBVIOUS
<1>4. m # 1
  BY <1>3 DEF Sums
<1>5. m - 1 \in 1 .. n /\ m - 1 \notin D
  BY <1>2, <1>3, <1>4
<1>6. f[m - 1] = g[m - 1]
  BY <1>5
<1>. QED
  BY <1>3, <1>4, <1>6 DEF Sums

\* Sums of one sequence less give those of all.
LEMMA SumsGrow ==
  ASSUME NEW ss, NEW n \in Nat \ {0}, NEW f, Sums(ss, n - 1, f)
  PROVE  LET x == IF n = 1 THEN ss[1] ELSE f[n - 1] \o ss[n]
         IN  Sums(ss, n, [i \in 1 .. n |-> IF i = n THEN x ELSE f[i]])
<1> DEFINE x == IF n = 1 THEN ss[1] ELSE f[n - 1] \o ss[n]
           g == [i \in 1 .. n |-> IF i = n THEN x ELSE f[i]]
<1>1. \A i \in 1 .. n - 1 : f[i] = IF i = 1 THEN ss[i] ELSE f[i - 1] \o ss[i]
  BY DEF Sums
<1>2. \A i \in 1 .. n : g[i] = IF i = 1 THEN ss[i] ELSE g[i - 1] \o ss[i]
  <2>1. \A i \in 1 .. n : i # 1 => i - 1 \in 1 .. n /\ i - 1 \in 1 .. n - 1 /\ i - 1 # n
    OBVIOUS
  <2>2. \A i \in 1 .. n : i # n => i \in 1 .. n - 1
    OBVIOUS
  <2>3. g[n] = x /\ \A i \in 1 .. n - 1 : g[i] = f[i]
    <3>1. n \in 1 .. n /\ \A i \in 1 .. n - 1 : i \in 1 .. n /\ i # n
      OBVIOUS
    <3> HIDE DEF x
    <3> QED BY <3>1
  <2> HIDE DEF g
  <2>4. ASSUME NEW i \in 1 .. n PROVE g[i] = IF i = 1 THEN ss[i] ELSE g[i - 1] \o ss[i]
    <3>1. CASE i = n
      BY <2>1, <2>3, <3>1
    <3>2. CASE i # n
      BY <1>1, <2>1, <2>2, <2>3, <3>2
    <3> QED BY <3>1, <3>2
  <2> QED BY <2>4
<1>3. g = [i \in 1 .. n |-> g[i]]
  OBVIOUS
<1>. QED
  <2> HIDE DEF g, x
  <2>1. g = [i \in 1 .. n |-> IF i = 1 THEN ss[i] ELSE g[i - 1] \o ss[i]]
    BY <1>2, <1>3, Zenon
  <2>2. Sums(ss, n, g)
    BY <2>1 DEF Sums
  <2> QED BY <2>2 DEF g, x

\* There are sums of any number of sequences.
LEMMA SumsExist ==
  ASSUME NEW ss, NEW n \in Nat
  PROVE  \E f : Sums(ss, n, f)
<1> DEFINE Bad == {k \in Nat : \A f : ~Sums(ss, k, f)}
<1>1. SUFFICES ASSUME Bad # {} PROVE FALSE
  BY Zenon
<1>2. PICK m \in Bad : \A y \in Bad : m <= y
  <2>1. Bad \in SUBSET Nat
    BY Zenon
  <2> HIDE DEF Bad
  <2> QED BY <1>1, <2>1, LeastNatural
<1>3. m \in Nat /\ \A f : ~Sums(ss, m, f)
  BY <1>2, Zenon
<1>4. m # 0
  <2>1. Sums(ss, 0, [i \in 1 .. 0 |-> ss[i]])
    BY DEF Sums
  <2> QED BY <1>3, <2>1, Zenon
<1>5. m - 1 \in Nat /\ m - 1 \notin Bad
  <2> HIDE DEF Bad
  <2> QED BY <1>2, <1>3, <1>4
<1>6. PICK f : Sums(ss, m - 1, f)
  BY <1>5, Zenon
<1>. QED
  BY <1>3, <1>4, <1>6, SumsGrow

\* FlattenSeq, which defines the sums by recursion, is the last of them.
LEMMA FlattenIs ==
  ASSUME NEW ss, Len(ss) \in Nat, Len(ss) # 0, NEW f, Sums(ss, Len(ss), f)
  PROVE  FlattenSeq(ss) = f[Len(ss)]
<1> DEFINE g == CHOOSE h : Sums(ss, Len(ss), h)
<1>1. Sums(ss, Len(ss), g)
  OBVIOUS
<1>2. FlattenSeq(ss) = g[Len(ss)]
  BY DEF FlattenSeq, Sums
<1>3. f = g
  <2> HIDE DEF g
  <2> QED BY <1>1, SumsAgree
<1>. QED
  BY <1>2, <1>3

\* Each of the sums is a sequence, and that of what comes first does not depend on
\* what follows.
LEMMA SumsTyped ==
  ASSUME NEW T, NEW ss \in Seq(Seq(T)), NEW f, Sums(ss, Len(ss), f)
  PROVE  \A i \in 1 .. Len(ss) : f[i] \in Seq(T)
<1> DEFINE D == {i \in 1 .. Len(ss) : f[i] \notin Seq(T)}
<1>1. SUFFICES ASSUME D # {} PROVE FALSE
  BY Zenon
<1>2. PICK m \in D : \A y \in D : m <= y
  <2>1. D \in SUBSET Nat
    OBVIOUS
  <2> HIDE DEF D
  <2> QED BY <1>1, <2>1, LeastNatural
<1>3. m \in 1 .. Len(ss) /\ f[m] \notin Seq(T)
  BY <1>2, Zenon
<1>4. ss[m] \in Seq(T)
  BY <1>3, ElementOfSeq
<1>5. m # 1
  BY <1>3, <1>4 DEF Sums
<1>6. m - 1 \in 1 .. Len(ss) /\ m - 1 \notin D
  BY <1>2, <1>3, <1>5
<1>7. f[m - 1] \in Seq(T)
  BY <1>6, Zenon
<1>8. f[m] = f[m - 1] \o ss[m]
  BY <1>3, <1>5 DEF Sums
<1>. QED
  BY <1>3, <1>4, <1>7, <1>8, ConcatProperties

\* The sequences laid end to end are a sequence.
LEMMA FlattenTyped ==
  ASSUME NEW T, NEW ss \in Seq(Seq(T))
  PROVE  FlattenSeq(ss) \in Seq(T)
<1>1. CASE Len(ss) = 0
  <2>1. ss = <<>>
    BY <1>1, EmptySeq
  <2>2. FlattenSeq(ss) = <<>>
    BY <1>1, <2>1 DEF FlattenSeq
  <2> QED BY <2>2
<1>2. CASE Len(ss) # 0
  <2>1. PICK f : Sums(ss, Len(ss), f)
    BY SumsExist, LenProperties
  <2>2. f[Len(ss)] \in Seq(T)
    BY <1>2, <2>1, SumsTyped, LenProperties
  <2> QED BY <1>2, <2>1, <2>2, FlattenIs, LenProperties
<1>. QED
  BY <1>1, <1>2

\* One sequence more is laid at the end.
LEMMA FlattenAppend ==
  ASSUME NEW T, NEW ss \in Seq(Seq(T)), NEW e \in Seq(T)
  PROVE  FlattenSeq(Append(ss, e)) = FlattenSeq(ss) \o e
<1> DEFINE n == Len(ss)
           tt == Append(ss, e)
<1>1. /\ n \in Nat /\ tt \in Seq(Seq(T)) /\ Len(tt) = n + 1 /\ tt[n + 1] = e
      /\ \A i \in 1 .. n : tt[i] = ss[i]
  BY AppendProperties, LenProperties
<1> HIDE DEF n, tt
<1>2. PICK f : Sums(tt, n + 1, f)
  <2>1. n + 1 \in Nat
    BY <1>1
  <2> QED BY <2>1, SumsExist
<1>3. FlattenSeq(tt) = f[n + 1]
  BY <1>1, <1>2, FlattenIs
<1>4. CASE n = 0
  <2>1. ss = <<>> /\ FlattenSeq(ss) = <<>>
    BY <1>4, EmptySeq DEF FlattenSeq, n
  <2>2. f[1] = e
    BY <1>1, <1>2, <1>4 DEF Sums
  <2>3. <<>> \o e = e
    BY ConcatEmptySeq
  <2> QED BY <1>3, <1>4, <2>1, <2>2, <2>3 DEF tt
<1>5. CASE n # 0
  <2> DEFINE g == [i \in 1 .. n |-> f[i]]
  <2>1. Sums(ss, n, g)
    <3>1. \A i \in 1 .. n : i \in 1 .. n + 1 /\ (i # 1 => i - 1 \in 1 .. n)
      BY <1>1
    <3>2. \A i \in 1 .. n : g[i] = IF i = 1 THEN ss[i] ELSE g[i - 1] \o ss[i]
      BY <1>1, <1>2, <3>1 DEF Sums
    <3>3. g = [i \in 1 .. n |-> g[i]]
      OBVIOUS
    <3> HIDE DEF g
    <3>4. g = [i \in 1 .. n |-> IF i = 1 THEN ss[i] ELSE g[i - 1] \o ss[i]]
      BY <3>2, <3>3, Zenon
    <3> QED BY <3>4 DEF Sums
  <2>2. FlattenSeq(ss) = g[n]
    <3> HIDE DEF g
    <3> QED BY <1>1, <1>5, <2>1, FlattenIs DEF n
  <2>3. g[n] = f[n] /\ f[n + 1] = f[n] \o e
    <3>1. n \in 1 .. n /\ n + 1 \in 1 .. n + 1 /\ n + 1 # 1 /\ n + 1 - 1 = n
      BY <1>1, <1>5
    <3>2. n + 1 \in Nat /\ n + 1 > 1
      BY <1>1, <1>5
    <3>3. f[n + 1] = f[(n + 1) - 1] \o tt[n + 1]
      BY <1>2, <3>2, SumsLast
    <3> QED BY <1>1, <1>2, <3>1, <3>3
  <2> QED BY <1>3, <2>2, <2>3 DEF tt
<1>. QED
  BY <1>4, <1>5

-----------------------------------------------------------------------------
(* Sequences. *)

\* Where the elements of a concatenation come from.
LEMMA ConcatAt ==
  ASSUME NEW T, NEW s \in Seq(T), NEW t \in Seq(T)
  PROVE  /\ s \o t \in Seq(T)
         /\ Len(s \o t) = Len(s) + Len(t)
         /\ \A i \in 1 .. Len(s) : (s \o t)[i] = s[i]
         /\ \A i \in Len(s) + 1 .. Len(s) + Len(t) : (s \o t)[i] = t[i - Len(s)]
BY ConcatProperties, LenProperties

\* A suffix, element by element.
LEMMA SuffixIs ==
  ASSUME NEW T, NEW s \in Seq(T), NEW t \in Seq(T)
  PROVE  IsSuffix(s, t) <=>
           /\ Len(s) <= Len(t)
           /\ \A i \in 1 .. Len(s) : s[i] = t[Len(t) - Len(s) + i]
<1> DEFINE r == Reverse(s)
           u == Reverse(t)
<1>1. /\ Len(s) \in Nat /\ Len(t) \in Nat
      /\ r \in Seq(T) /\ Len(r) = Len(s) /\ \A i \in 1 .. Len(s) : r[i] = s[Len(s) - i + 1]
      /\ u \in Seq(T) /\ Len(u) = Len(t) /\ \A i \in 1 .. Len(t) : u[i] = t[Len(t) - i + 1]
  BY DEF Reverse
<1> HIDE DEF r, u
<1>2. IsSuffix(s, t) <=> Len(s) <= Len(t) /\ SubSeq(r, 1, Len(s)) = SubSeq(u, 1, Len(s))
  BY <1>1 DEF IsSuffix, IsPrefix, r, u
<1>3. ASSUME Len(s) <= Len(t)
      PROVE  SubSeq(r, 1, Len(s)) = SubSeq(u, 1, Len(s)) <=>
               \A i \in 1 .. Len(s) : r[i] = u[i]
  BY <1>1, <1>3
<1>4. ASSUME Len(s) <= Len(t)
      PROVE  (\A i \in 1 .. Len(s) : r[i] = u[i]) <=>
               \A i \in 1 .. Len(s) : s[i] = t[Len(t) - Len(s) + i]
  <2>1. ASSUME \A i \in 1 .. Len(s) : r[i] = u[i], NEW i \in 1 .. Len(s)
        PROVE  s[i] = t[Len(t) - Len(s) + i]
    <3>1. /\ Len(s) - i + 1 \in 1 .. Len(s) /\ Len(s) - i + 1 \in 1 .. Len(t)
          /\ Len(s) - (Len(s) - i + 1) + 1 = i
          /\ Len(t) - (Len(s) - i + 1) + 1 = Len(t) - Len(s) + i
      BY <1>1, <1>4
    <3> QED BY <1>1, <2>1, <3>1
  <2>2. ASSUME \A i \in 1 .. Len(s) : s[i] = t[Len(t) - Len(s) + i], NEW i \in 1 .. Len(s)
        PROVE  r[i] = u[i]
    <3>1. /\ Len(s) - i + 1 \in 1 .. Len(s) /\ i \in 1 .. Len(t)
          /\ Len(t) - Len(s) + (Len(s) - i + 1) = Len(t) - i + 1
      BY <1>1, <1>4
    <3> QED BY <1>1, <2>2, <3>1
  <2> QED BY <2>1, <2>2
<1>. QED
  BY <1>2, <1>3, <1>4

\* What is laid behind a sequence is laid behind its suffixes.
LEMMA SuffixGrows ==
  ASSUME NEW T, NEW s \in Seq(T), NEW t \in Seq(T), NEW d \in Seq(T), IsSuffix(s, t)
  PROVE  IsSuffix(s \o d, t \o d)
<1>1. /\ Len(s) \in Nat /\ Len(t) \in Nat /\ Len(d) \in Nat /\ Len(s) <= Len(t)
      /\ \A i \in 1 .. Len(s) : s[i] = t[Len(t) - Len(s) + i]
  BY SuffixIs, LenProperties
<1>2. s \o d \in Seq(T) /\ t \o d \in Seq(T)
  BY ConcatProperties
<1>3. Len(s \o d) = Len(s) + Len(d) /\ Len(t \o d) = Len(t) + Len(d)
  BY ConcatProperties
<1>4. ASSUME NEW i \in 1 .. Len(s) + Len(d)
      PROVE  (s \o d)[i] = (t \o d)[Len(t) + Len(d) - (Len(s) + Len(d)) + i]
  <2> DEFINE j == Len(t) + Len(d) - (Len(s) + Len(d)) + i
  <2>1. CASE i \in 1 .. Len(s)
    <3>1. (s \o d)[i] = s[i]
      BY <2>1
    <3>2. j \in 1 .. Len(t) /\ j = Len(t) - Len(s) + i
      BY <1>1, <2>1
    <3>3. (t \o d)[j] = t[j]
      BY <3>2
    <3> QED BY <1>1, <2>1, <3>1, <3>2, <3>3
  <2>2. CASE i \notin 1 .. Len(s)
    <3>1. /\ i \in Len(s) + 1 .. Len(s) + Len(d) /\ j \in Len(t) + 1 .. Len(t) + Len(d)
          /\ j - Len(t) = i - Len(s)
      BY <1>1, <2>2
    <3>2. (s \o d)[i] = d[i - Len(s)]
      BY <1>1, <3>1
    <3>3. (t \o d)[j] = d[j - Len(t)]
      <4> HIDE DEF j
      <4> QED BY <1>1, <3>1
    <3> QED BY <3>1, <3>2, <3>3
  <2> QED BY <2>1, <2>2
<1>. QED
  <2>1. Len(s \o d) <= Len(t \o d)
    BY <1>1, <1>3
  <2>2. \A i \in 1 .. Len(s \o d) :
          (s \o d)[i] = (t \o d)[Len(t \o d) - Len(s \o d) + i]
    <3> DEFINE a == s \o d
               b == t \o d
    <3> HIDE DEF a, b
    <3>1. \A i \in 1 .. Len(s) + Len(d) : a[i] = b[Len(t) + Len(d) - (Len(s) + Len(d)) + i]
      BY <1>4 DEF a, b
    <3>2. \A i \in 1 .. Len(a) : a[i] = b[Len(b) - Len(a) + i]
      <4>1. /\ Len(a) = Len(s) + Len(d) /\ Len(b) = Len(t) + Len(d)
            /\ Len(s) \in Nat /\ Len(t) \in Nat /\ Len(d) \in Nat
        BY <1>1, <1>3 DEF a, b
      <4> QED BY <3>1, <4>1
    <3> QED BY <3>2 DEF a, b
  <2> QED BY <1>2, <2>1, <2>2, SuffixIs, Zenon

-----------------------------------------------------------------------------
(* SbeResponse: the invariant. *)

Words   == [hi : 0 .. HalfModulus - 1, lo : 0 .. HalfModulus - 1]
Entries == [data : Seq(Words), fapiRc : Nat, severity : Nat]

\* What starts like a package has a SLID where a package has it.
Headed(b) ==
  \A i \in 1 .. Len(b) :
    b[i].hi = FFDC_MAGIC => i + 2 <= Len(b) /\ b[i + 2].hi \in Slids

\* Where the parts of a response are, damaged or not.
Shaped(c, b) ==
  LET v == Len(c.value)
      f == Len(EncodeAll(c.ffdc))
  IN  /\ b \in Seq(Words)
      /\ Headed(b)
      /\ Len(b) = v + STATUS_RESP_SIZE + f
      /\ b[v + 1] = Word(MAGIC_HEADER, 0)
      /\ b[v + 2] = Word(3, 4)
      /\ Last(b) = Word(0, STATUS_RESP_SIZE + f)

Arrived ==
  /\ sent \in Contents
  /\ intact \in BOOLEAN
  /\ Shaped(sent, buf)
  /\ intact => buf = Respond(sent)

\* The parser runs over the response's FFDC or the value, and not beyond its end.
Running ==
  /\ parser \in {"response", "ffdc", "value", "done"}
  /\ rc \in {0, EPROTO}
  /\ src \in Seq(Words)
  /\ Len(src) <= Len(buf) /\ \A i \in 1 .. Len(src) : src[i] = buf[i]
  /\ {start, offset, endOffset} \subseteq Nat
  /\ start <= offset /\ offset <= endOffset /\ endOffset <= Len(src)
  /\ sw \in [primary : 0 .. HalfModulus - 1, secondary : 0 .. HalfModulus - 1]
  /\ parser = "response" => order = <<>> /\ offset = start /\ rc = 0
  /\ Parsing => value = SubSeq(buf, 1, Len(sent.value))
  /\ parser = "ffdc" =>
       src = buf /\ start = Len(sent.value) + 2 /\ endOffset = Len(buf) - 1
  /\ parser = "value" => src = value /\ start = 0 /\ endOffset = Len(value)

\* An entry is stored for every SLID in order.
Filed ==
  /\ order \in Seq(Slids)
  /\ ffdcMap \in [Slids -> Seq(Entries)]
  /\ \A s \in Slids : Len(ffdcMap[s]) = Cardinality({k \in 1 .. Len(order) : order[k] = s})

\* The words of the first packages of a list.
First(ps, k) == EncodeAll(SubSeq(ps, 1, k))

Packs == sent.ffdc \o sent.inValue

\* The packages the parser goes through, and how many of them it has stored.
List == IF parser = "ffdc" THEN sent.ffdc ELSE sent.inValue
Done == IF parser = "ffdc" THEN Len(order) ELSE Len(order) - Len(sent.ffdc)

\* What has been found of an undamaged response.
Found ==
  intact /\ Len(buf) >= SBEFIFO_MIN_RESP_LEN /\ parser # "response" =>
    /\ rc = 0
    /\ value = sent.value
    /\ sw = [primary |-> 3, secondary |-> 4]
    /\ Len(order) <= Len(Packs)
    /\ \A k \in 1 .. Len(order) :
         order[k] = Packs[k].slid /\ Nth(k) = EntryFor(Packs[k])
    /\ Parsing =>
         /\ Done \in 0 .. Len(List)
         /\ offset = start + Len(First(List, Done))
    /\ parser = "value" => sent.inValue # <<>>
    /\ parser = "done" => Len(order) = Len(Packs)

ResponseInv == Arrived /\ Running /\ Filed /\ EntriesTile /\ Found

-----------------------------------------------------------------------------
(* The response: what an SBE sends. *)

\* The bounds are numbers, and the largest response fits a half.
LEMMA BoundsTyped ==
  /\ MaxPackages \in Nat /\ MaxData \in Nat /\ MaxValue \in Nat
  /\ HalfModulus \in Nat /\ SizeModulus \in Nat
  /\ 4 < HalfModulus /\ HalfModulus <= SizeModulus
  /\ 2 * ((4 + MaxData) * MaxPackages) + MaxValue + 3 < HalfModulus
<1>1. /\ MaxPackages \in Nat /\ MaxData \in Nat /\ MaxValue \in Nat
      /\ HalfModulus \in Nat /\ SizeModulus \in Nat
      /\ 4 < HalfModulus /\ HalfModulus <= SizeModulus
      /\ 2 * (4 + MaxData) * MaxPackages + MaxValue + 3 < HalfModulus
  BY SizesAssumption
<1>. QED
  BY <1>1

\* So does the largest package, if there is one.
LEMMA DataFits ==
  ASSUME MaxPackages # 0
  PROVE  4 + MaxData < HalfModulus
<1>1. (4 + MaxData) * MaxPackages >= 4 + MaxData
  BY BoundsTyped
<1>2. (4 + MaxData) * MaxPackages \in Nat
  BY BoundsTyped
<1>. QED
  BY <1>1, <1>2, BoundsTyped

\* A list of packages is a sequence within its bound.
LEMMA ListTyped ==
  ASSUME NEW ps \in PackageLists
  PROVE  /\ ps \in Seq(Packages)
         /\ Len(ps) \in 0 .. MaxPackages
<1>1. PICK m \in 0 .. MaxPackages : ps \in [1 .. m -> Packages]
  BY Zenon DEF PackageLists, BoundedSeq, SeqOf
<1>2. m \in Nat
  BY BoundsTyped
<1>. QED
  BY <1>1, <1>2

\* The words of a package: its head, then its data.
LEMMA EncodeIs ==
  ASSUME NEW p \in Packages, MaxPackages # 0
  PROVE  /\ Encode(p) \in Seq(Words)
         /\ p.data \in 1 .. MaxData /\ p.slid \in Slids
         /\ Len(Encode(p)) = HEADER_SIZE + p.data
         /\ Encode(p)[1] = Word(FFDC_MAGIC, HEADER_SIZE + p.data)
         /\ Encode(p)[2] = Word(0, 0)
         /\ Encode(p)[3] = Word(p.slid, p.data)
         /\ Encode(p)[4] = Word(0, p.slid)
         /\ \A i \in 5 .. 4 + p.data : Encode(p)[i] = Word(0, i - 4)
<1> DEFINE head == <<Word(FFDC_MAGIC, HEADER_SIZE + p.data), Word(0, 0), Word(p.slid, p.data),
                     Word(0, p.slid)>>
           body == [i \in 1 .. p.data |-> Word(0, i)]
<1>1. /\ p.data \in 1 .. MaxData /\ p.slid \in Slids
      /\ MaxData \in Nat /\ HalfModulus \in Nat /\ 4 + MaxData < HalfModulus
      /\ p.slid \in 1 .. HalfModulus - 1
  BY BoundsTyped, DataFits, SizesAssumption DEF Packages
<1>2. \A h, l \in 0 .. HalfModulus - 1 : Word(h, l) \in Words
  BY DEF Word, Words
<1>3. head \in Seq(Words) /\ Len(head) = 4
  <2>1. Word(FFDC_MAGIC, HEADER_SIZE + p.data) \in Words
    BY <1>1, <1>2 DEF FFDC_MAGIC, HEADER_SIZE
  <2>2. Word(0, 0) \in Words /\ Word(p.slid, p.data) \in Words /\ Word(0, p.slid) \in Words
    BY <1>1, <1>2
  <2> QED BY <2>1, <2>2
<1>4. body \in Seq(Words) /\ Len(body) = p.data /\ \A i \in 1 .. p.data : body[i] = Word(0, i)
  <2>1. \A i \in 1 .. p.data : Word(0, i) \in Words
    BY <1>1, <1>2
  <2>2. p.data \in Nat
    BY <1>1
  <2> QED BY <2>1, <2>2, IsASeq
<1>5. /\ head[1] = Word(FFDC_MAGIC, HEADER_SIZE + p.data) /\ head[2] = Word(0, 0)
      /\ head[3] = Word(p.slid, p.data) /\ head[4] = Word(0, p.slid)
  OBVIOUS
<1>6. Encode(p) = head \o body
  BY DEF Encode
<1> HIDE DEF head, body
<1>7. /\ head \o body \in Seq(Words) /\ Len(head \o body) = 4 + Len(body)
      /\ \A i \in 1 .. 4 : (head \o body)[i] = head[i]
      /\ \A i \in 4 + 1 .. 4 + Len(body) : (head \o body)[i] = body[i - 4]
  <2>1. head \in Seq(Words) /\ body \in Seq(Words)
    BY <1>3, <1>4
  <2>2. /\ head \o body \in Seq(Words)
        /\ Len(head \o body) = Len(head) + Len(body)
        /\ \A i \in 1 .. Len(head) : (head \o body)[i] = head[i]
        /\ \A i \in Len(head) + 1 .. Len(head) + Len(body) :
             (head \o body)[i] = body[i - Len(head)]
    BY <2>1, ConcatAt, Zenon
  <2>3. Len(head) = 4
    BY <1>3
  <2> QED BY <2>2, <2>3, Zenon
<1>8. /\ \A i \in 1 .. 4 : (head \o body)[i] = head[i]
      /\ \A i \in 5 .. 4 + p.data : (head \o body)[i] = body[i - 4]
  BY <1>4, <1>7
<1>9. \A i \in 5 .. 4 + p.data : i - 4 \in 1 .. p.data
  BY <1>1
<1>. QED
  BY <1>1, <1>4, <1>5, <1>6, <1>7, <1>8, <1>9 DEF HEADER_SIZE

\* A list of packages is sent as words.
LEMMA EncodeAllTyped ==
  ASSUME NEW ps \in Seq(Packages), MaxPackages # 0
  PROVE  EncodeAll(ps) \in Seq(Words)
<1> DEFINE es == [i \in 1 .. Len(ps) |-> Encode(ps[i])]
<1>1. \A i \in 1 .. Len(ps) : Encode(ps[i]) \in Seq(Words)
  BY EncodeIs, ElementOfSeq
<1>2. es \in Seq(Seq(Words))
  BY <1>1, IsASeq, LenProperties
<1>. QED
  BY <1>2, FlattenTyped DEF EncodeAll

\* No packages, no words.
LEMMA EncodeNone == EncodeAll(<<>>) = <<>>
<1>1. [i \in 1 .. Len(<<>>) |-> Encode(<<>>[i])] = <<>>
  OBVIOUS
<1>2. FlattenSeq(<<>>) = <<>>
  BY DEF FlattenSeq
<1>. QED
  BY <1>1, <1>2 DEF EncodeAll

\* The first packages are words too.
LEMMA FirstTyped ==
  ASSUME NEW ps \in Seq(Packages), NEW k \in 0 .. Len(ps), MaxPackages # 0
  PROVE  First(ps, k) \in Seq(Words)
<1>1. SubSeq(ps, 1, k) \in Seq(Packages)
  BY LenProperties
<1>. QED
  BY <1>1, EncodeAllTyped DEF First

\* The words of one package more lie behind those of the first ones.
LEMMA FirstGrows ==
  ASSUME NEW ps \in Seq(Packages), NEW k \in 0 .. Len(ps) - 1, MaxPackages # 0
  PROVE  First(ps, k + 1) = First(ps, k) \o Encode(ps[k + 1])
<1> DEFINE es == [i \in 1 .. k |-> Encode(ps[i])]
           e  == Encode(ps[k + 1])
<1>1. /\ Len(ps) \in Nat /\ k \in Nat /\ k + 1 \in 1 .. Len(ps)
      /\ \A i \in 1 .. k + 1 : ps[i] \in Packages
  BY LenProperties, ElementOfSeq
<1>2. \A i \in 1 .. k + 1 : Encode(ps[i]) \in Seq(Words)
  BY <1>1, EncodeIs
<1>3. es \in Seq(Seq(Words)) /\ Len(es) = k /\ e \in Seq(Words)
  BY <1>1, <1>2, IsASeq
<1>4. Len(SubSeq(ps, 1, k)) = k /\ Len(SubSeq(ps, 1, k + 1)) = k + 1
  BY <1>1
<1>5. es = [i \in 1 .. Len(SubSeq(ps, 1, k)) |-> Encode(SubSeq(ps, 1, k)[i])]
  BY <1>1, <1>4
<1>6. Append(es, e) = [i \in 1 .. Len(SubSeq(ps, 1, k + 1)) |-> Encode(SubSeq(ps, 1, k + 1)[i])]
  <2> DEFINE all == [i \in 1 .. k + 1 |-> Encode(ps[i])]
  <2>1. all = [i \in 1 .. Len(SubSeq(ps, 1, k + 1)) |-> Encode(SubSeq(ps, 1, k + 1)[i])]
    BY <1>1, <1>4
  <2>2. all \in Seq(Seq(Words)) /\ Len(all) = k + 1
    BY <1>1, <1>2, IsASeq
  <2>3. Append(es, e) \in Seq(Seq(Words)) /\ Len(Append(es, e)) = k + 1
    BY <1>3, AppendProperties
  <2>4. ASSUME NEW i \in 1 .. k + 1 PROVE Append(es, e)[i] = all[i]
    <3>1. CASE i = k + 1
      BY <1>3, <3>1, AppendProperties
    <3>2. CASE i # k + 1
      <4>1. i \in 1 .. k
        BY <1>1, <3>2
      <4>2. Append(es, e)[i] = es[i]
        <5> HIDE DEF es, e
        <5> QED BY <1>3, <4>1, AppendProperties
      <4> QED BY <4>1, <4>2
    <3> QED BY <3>1, <3>2
  <2> HIDE DEF all, es, e
  <2>5. Append(es, e) = all
    BY <2>2, <2>3, <2>4, SeqEqual
  <2> QED BY <2>1, <2>5
<1>7. FlattenSeq(Append(es, e)) = FlattenSeq(es) \o e
  <2> HIDE DEF es, e
  <2> QED BY <1>3, FlattenAppend
<1>. QED
  BY <1>5, <1>6, <1>7 DEF First, EncodeAll

\* All packages are the first Len(ps), and the first 0 are none.
LEMMA FirstAll ==
  ASSUME NEW ps \in Seq(Packages)
  PROVE  First(ps, Len(ps)) = EncodeAll(ps) /\ First(ps, 0) = <<>>
<1>1. SubSeq(ps, 1, Len(ps)) = ps
  BY SubSeqFull
<1>2. SubSeq(ps, 1, 0) = <<>>
  BY LenProperties
<1>. QED
  BY <1>1, <1>2, EncodeNone DEF First

\* What lies behind the words of the first packages does not change them.
LEMMA FirstIsFirst ==
  ASSUME NEW ps \in Seq(Packages), MaxPackages # 0, NEW k \in 0 .. Len(ps)
  PROVE  \E r \in Seq(Words) : EncodeAll(ps) = First(ps, k) \o r
<1> DEFINE n == Len(ps)
           Good(d) == \E r \in Seq(Words) : EncodeAll(ps) = First(ps, n - d) \o r
           Bad == {d \in 0 .. n : ~Good(d)}
<1>1. SUFFICES ASSUME Bad # {} PROVE FALSE
  <2>1. n - k \in 0 .. n /\ n - (n - k) = k
    BY LenProperties
  <2> HIDE DEF n
  <2>2. Good(n - k)
    BY <2>1
  <2> QED BY <2>1, <2>2
<1>2. PICK d \in Bad : \A y \in Bad : d <= y
  <2>1. Bad \in SUBSET Nat
    BY LenProperties
  <2> HIDE DEF Bad
  <2> QED BY <1>1, <2>1, LeastNatural
<1>3. d \in 0 .. n /\ n \in Nat
  BY <1>2, LenProperties
<1>4. d # 0
  <2>1. First(ps, n - 0) = EncodeAll(ps)
    BY <1>3, FirstAll
  <2>2. EncodeAll(ps) \in Seq(Words) /\ <<>> \in Seq(Words)
    BY EncodeAllTyped
  <2>3. EncodeAll(ps) = EncodeAll(ps) \o <<>>
    BY <2>2, ConcatEmptySeq
  <2>4. Good(0)
    BY <2>1, <2>2, <2>3, Zenon
  <2> QED BY <1>2, <2>4
<1>5. Good(d - 1)
  <2>1. d - 1 \in 0 .. n /\ ~(d <= d - 1)
    BY <1>3, <1>4
  <2>2. d - 1 \notin Bad
    <3> HIDE DEF Bad
    <3> QED BY <1>2, <2>1
  <2> QED BY <2>1, <2>2
<1>6. PICK r \in Seq(Words) : EncodeAll(ps) = First(ps, n - (d - 1)) \o r
  BY <1>5
<1>7. n - d \in 0 .. n - 1 /\ n - d \in 0 .. n /\ n - (d - 1) = (n - d) + 1
  BY <1>3, <1>4
<1>8. First(ps, n - (d - 1)) = First(ps, n - d) \o Encode(ps[(n - d) + 1])
  BY <1>7, FirstGrows
<1>9. First(ps, n - d) \in Seq(Words) /\ Encode(ps[(n - d) + 1]) \in Seq(Words)
  <2>1. (n - d) + 1 \in 1 .. n
    BY <1>3, <1>7
  <2>2. ps[(n - d) + 1] \in Packages
    BY <2>1, ElementOfSeq
  <2> QED BY <1>7, <2>2, EncodeIs, FirstTyped
<1>10. EncodeAll(ps) = First(ps, n - d) \o (Encode(ps[(n - d) + 1]) \o r)
  <2> DEFINE f == First(ps, n - d)
             e == Encode(ps[(n - d) + 1])
  <2>1. f \in Seq(Words) /\ e \in Seq(Words) /\ EncodeAll(ps) = (f \o e) \o r
    BY <1>6, <1>8, <1>9
  <2> HIDE DEF f, e
  <2>2. (f \o e) \o r = f \o (e \o r)
    BY <2>1, ConcatAssociative
  <2>3. EncodeAll(ps) = f \o (e \o r)
    BY <2>1, <2>2
  <2> QED BY <2>3 DEF f, e
<1>11. Encode(ps[(n - d) + 1]) \o r \in Seq(Words)
  BY <1>6, <1>9, ConcatAt
<1>12. Good(d)
  BY <1>10, <1>11, Zenon
<1>. QED
  BY <1>2, <1>12

\* Where a package lies among all.
LEMMA PackageAt ==
  ASSUME NEW ps \in Seq(Packages), MaxPackages # 0, NEW k \in 0 .. Len(ps) - 1
  PROVE  LET n == Len(First(ps, k))
             e == Encode(ps[k + 1])
         IN  /\ n \in Nat
             /\ First(ps, k + 1) \in Seq(Words)
             /\ Len(First(ps, k + 1)) = n + Len(e)
             /\ n + Len(e) <= Len(EncodeAll(ps))
             /\ \A i \in 1 .. Len(e) : EncodeAll(ps)[n + i] = e[i]
<1> DEFINE f == First(ps, k)
           e == Encode(ps[k + 1])
           g == First(ps, k + 1)
<1>1. k \in 0 .. Len(ps) /\ k + 1 \in 0 .. Len(ps) /\ k + 1 \in 1 .. Len(ps)
  BY LenProperties
<1>2. f \in Seq(Words) /\ g \in Seq(Words) /\ e \in Seq(Words) /\ g = f \o e
  BY <1>1, FirstTyped, FirstGrows, EncodeIs, ElementOfSeq
<1>3. PICK r \in Seq(Words) : EncodeAll(ps) = g \o r
  BY <1>1, FirstIsFirst
<1> HIDE DEF f, e, g
<1>4. /\ Len(g) = Len(f) + Len(e)
      /\ \A i \in Len(f) + 1 .. Len(f) + Len(e) : g[i] = e[i - Len(f)]
  BY <1>2, ConcatAt
<1>5. /\ Len(EncodeAll(ps)) = Len(g) + Len(r)
      /\ \A i \in 1 .. Len(g) : EncodeAll(ps)[i] = g[i]
  BY <1>2, <1>3, ConcatAt
<1>6. Len(f) \in Nat /\ Len(e) \in Nat /\ Len(r) \in Nat
  BY <1>2, LenProperties
<1>7. ASSUME NEW i \in 1 .. Len(e)
      PROVE  EncodeAll(ps)[Len(f) + i] = e[i]
  <2>1. /\ Len(f) + i \in Len(f) + 1 .. Len(f) + Len(e) /\ Len(f) + i \in 1 .. Len(g)
        /\ Len(f) + i - Len(f) = i
    BY <1>4, <1>6
  <2> QED BY <1>4, <1>5, <2>1
<1>8. Len(g) <= Len(EncodeAll(ps))
  BY <1>4, <1>5, <1>6
<1>. QED
  BY <1>2, <1>4, <1>6, <1>7, <1>8 DEF f, e, g

\* Heads stay whole when words are laid end to end.
LEMMA HeadedConcat ==
  ASSUME NEW s \in Seq(Words), NEW t \in Seq(Words), Headed(s), Headed(t)
  PROVE  Headed(s \o t)
<1> DEFINE u == s \o t
<1>1. /\ Len(s) \in Nat /\ Len(t) \in Nat /\ Len(u) = Len(s) + Len(t)
      /\ \A i \in 1 .. Len(s) : u[i] = s[i]
      /\ \A i \in Len(s) + 1 .. Len(s) + Len(t) : u[i] = t[i - Len(s)]
  BY ConcatAt, LenProperties
<1> HIDE DEF u
<1>2. ASSUME NEW i \in 1 .. Len(u), u[i].hi = FFDC_MAGIC
      PROVE  i + 2 <= Len(u) /\ u[i + 2].hi \in Slids
  <2>1. CASE i \in 1 .. Len(s)
    <3>1. i + 2 <= Len(s) /\ s[i + 2].hi \in Slids
      BY <1>1, <1>2, <2>1 DEF Headed
    <3>2. i + 2 \in 1 .. Len(s)
      BY <1>1, <3>1
    <3> QED BY <1>1, <3>1, <3>2
  <2>2. CASE i \notin 1 .. Len(s)
    <3> DEFINE j == i - Len(s)
    <3>1. i \in Len(s) + 1 .. Len(s) + Len(t) /\ j \in 1 .. Len(t)
      BY <1>1, <2>2
    <3>2. j + 2 <= Len(t) /\ t[j + 2].hi \in Slids
      BY <1>1, <1>2, <3>1 DEF Headed
    <3>3. i + 2 \in Len(s) + 1 .. Len(s) + Len(t) /\ i + 2 - Len(s) = j + 2
      BY <1>1, <3>1, <3>2
    <3> QED BY <1>1, <3>2, <3>3
  <2> QED BY <2>1, <2>2
<1>. QED
  BY <1>2 DEF Headed, u

\* A package has one head.
LEMMA EncodeHeaded ==
  ASSUME NEW p \in Packages, MaxPackages # 0
  PROVE  Headed(Encode(p))
<1>1. /\ p.slid \in Slids /\ p.slid # FFDC_MAGIC /\ p.data \in Nat
      /\ Len(Encode(p)) = 4 + p.data
      /\ Encode(p)[2].hi = 0 /\ Encode(p)[3].hi = p.slid /\ Encode(p)[4].hi = 0
      /\ \A i \in 5 .. 4 + p.data : Encode(p)[i].hi = 0
  <2>1. \A h, l : Word(h, l).hi = h
    BY DEF Word
  <2>2. p.slid \in Slids /\ p.data \in Nat /\ Len(Encode(p)) = 4 + p.data
    BY EncodeIs DEF HEADER_SIZE
  <2>3. p.slid # FFDC_MAGIC
    BY <2>2, SizesAssumption
  <2>4. \A i \in 5 .. 4 + p.data : Encode(p)[i].hi = 0
    BY <2>1, EncodeIs
  <2>5. Encode(p)[2].hi = 0 /\ Encode(p)[3].hi = p.slid /\ Encode(p)[4].hi = 0
    BY <2>1, EncodeIs
  <2> QED BY <2>2, <2>3, <2>4, <2>5
<1>2. ASSUME NEW i \in 1 .. Len(Encode(p)), Encode(p)[i].hi = FFDC_MAGIC
      PROVE  i = 1
  BY <1>1, <1>2 DEF FFDC_MAGIC
<1>. QED
  BY <1>1, <1>2 DEF Headed

\* The packages take no more words than their bounds allow, and start as such.
LEMMA FirstBounds ==
  ASSUME NEW ps \in Seq(Packages), MaxPackages # 0, NEW k \in 0 .. Len(ps)
  PROVE  Len(First(ps, k)) <= (4 + MaxData) * k /\ Headed(First(ps, k))
<1> DEFINE Good(j) == Len(First(ps, j)) <= (4 + MaxData) * j /\ Headed(First(ps, j))
           Bad == {j \in 0 .. Len(ps) : ~Good(j)}
<1>1. SUFFICES ASSUME Bad # {} PROVE FALSE
  OBVIOUS
<1>2. PICK m \in Bad : \A y \in Bad : m <= y
  <2>1. Bad \in SUBSET Nat
    BY LenProperties
  <2> HIDE DEF Bad
  <2> QED BY <1>1, <2>1, LeastNatural
<1>3. m \in 0 .. Len(ps) /\ Len(ps) \in Nat /\ ~Good(m)
  BY <1>2, LenProperties
<1>4. m # 0
  <2>1. First(ps, 0) = <<>>
    BY FirstAll
  <2>2. Headed(<<>>)
    BY DEF Headed
  <2>3. Good(0)
    BY <2>1, <2>2, BoundsTyped
  <2> QED BY <1>3, <2>3
<1>5. m - 1 \in 0 .. Len(ps) - 1 /\ m - 1 \in 0 .. Len(ps) /\ m - 1 + 1 = m /\ m \in 1 .. Len(ps)
  BY <1>3, <1>4
<1>6. Good(m - 1)
  <2>1. m - 1 \notin Bad
    <3> HIDE DEF Bad
    <3> QED BY <1>2, <1>5
  <2> QED BY <1>5, <2>1
<1>7. First(ps, m) = First(ps, m - 1) \o Encode(ps[m])
  BY <1>5, FirstGrows
<1>8. /\ First(ps, m - 1) \in Seq(Words) /\ Encode(ps[m]) \in Seq(Words)
      /\ Len(Encode(ps[m])) <= 4 + MaxData /\ Headed(Encode(ps[m]))
  <2>1. ps[m] \in Packages
    BY <1>5, ElementOfSeq
  <2>2. Len(Encode(ps[m])) = HEADER_SIZE + ps[m].data /\ ps[m].data \in 1 .. MaxData
    BY <2>1, EncodeIs
  <2>3. Len(Encode(ps[m])) <= 4 + MaxData
    BY <2>2, BoundsTyped DEF HEADER_SIZE
  <2>4. Encode(ps[m]) \in Seq(Words) /\ Headed(Encode(ps[m]))
    BY <2>1, EncodeIs, EncodeHeaded
  <2> QED BY <1>5, <2>3, <2>4, FirstTyped
<1>9. Len(First(ps, m)) <= (4 + MaxData) * (m - 1) + (4 + MaxData)
  <2>1. Len(First(ps, m)) = Len(First(ps, m - 1)) + Len(Encode(ps[m]))
    BY <1>7, <1>8, ConcatAt
  <2>2. /\ Len(First(ps, m - 1)) \in Nat /\ Len(Encode(ps[m])) \in Nat
        /\ (4 + MaxData) * (m - 1) \in Int
    BY <1>5, <1>8, LenProperties, BoundsTyped
  <2> QED BY <1>6, <1>8, <2>1, <2>2, BoundsTyped
<1>10. (4 + MaxData) * (m - 1) + (4 + MaxData) = (4 + MaxData) * m
  BY <1>5, BoundsTyped
<1>11. Good(m)
  BY <1>6, <1>7, <1>8, <1>9, <1>10, HeadedConcat
<1>. QED
  BY <1>3, <1>11

\* The words of a list within the bounds.
LEMMA ListEncoded ==
  ASSUME NEW ps \in PackageLists
  PROVE  /\ EncodeAll(ps) \in Seq(Words)
         /\ Headed(EncodeAll(ps))
         /\ Len(EncodeAll(ps)) \in Nat
         /\ Len(EncodeAll(ps)) <= (4 + MaxData) * MaxPackages
<1>1. ps \in Seq(Packages) /\ Len(ps) \in 0 .. MaxPackages
  BY ListTyped
<1>2. CASE MaxPackages = 0
  <2>1. ps = <<>>
    BY <1>1, <1>2, EmptySeq
  <2>2. EncodeAll(ps) = <<>>
    BY <2>1, EncodeNone
  <2>3. Headed(<<>>)
    BY DEF Headed
  <2> QED BY <1>2, <2>2, <2>3, BoundsTyped
<1>3. CASE MaxPackages # 0
  <2>1. EncodeAll(ps) \in Seq(Words) /\ Len(EncodeAll(ps)) \in Nat
    BY <1>1, <1>3, EncodeAllTyped, LenProperties
  <2>2. First(ps, Len(ps)) = EncodeAll(ps) /\ Len(ps) \in 0 .. Len(ps)
    BY <1>1, FirstAll
  <2>3. Len(EncodeAll(ps)) <= (4 + MaxData) * Len(ps) /\ Headed(EncodeAll(ps))
    BY <1>1, <1>3, <2>2, FirstBounds
  <2>4. (4 + MaxData) * Len(ps) <= (4 + MaxData) * MaxPackages
    BY <1>1, BoundsTyped
  <2>5. (4 + MaxData) * Len(ps) \in Nat /\ (4 + MaxData) * MaxPackages \in Nat
    BY <1>1, BoundsTyped
  <2> QED BY <2>1, <2>3, <2>4, <2>5
<1>. QED
  BY <1>2, <1>3

\* The value is FFDC or has no word that starts like a package.
LEMMA ContentsAre ==
  ASSUME NEW c \in Contents
  PROVE  /\ c.ffdc \in PackageLists /\ c.inValue \in PackageLists
         /\ c.value \in Seq(Words)
         /\ Headed(c.value)
         /\ c.inValue # <<>> => c.value = EncodeAll(c.inValue)
         /\ c.inValue = <<>> => \A i \in 1 .. Len(c.value) : c.value[i].hi = 0
         /\ Len(c.value) \in Nat
         /\ Len(c.value) + STATUS_RESP_SIZE + Len(EncodeAll(c.ffdc)) < HalfModulus
<1>1. \/ \E n \in 0 .. MaxValue, ps \in PackageLists :
           c = [value |-> [i \in 1 .. n |-> Word(0, i)], inValue |-> <<>>, ffdc |-> ps]
      \/ \E vs \in PackageLists \ {<<>>}, ps \in PackageLists :
           c = [value |-> EncodeAll(vs), inValue |-> vs, ffdc |-> ps]
  <2> DEFINE A == {[value |-> v, inValue |-> <<>>, ffdc |-> ps] :
                     v \in {[i \in 1 .. n |-> Word(0, i)] : n \in 0 .. MaxValue},
                     ps \in PackageLists}
             B == {[value |-> EncodeAll(vs), inValue |-> vs, ffdc |-> ps] :
                     vs \in PackageLists \ {<<>>}, ps \in PackageLists}
  <2>1. c \in A \/ c \in B
    BY DEF Contents
  <2>2. ASSUME c \in A
        PROVE  \E n \in 0 .. MaxValue, ps \in PackageLists :
                 c = [value |-> [i \in 1 .. n |-> Word(0, i)], inValue |-> <<>>, ffdc |-> ps]
    BY <2>2
  <2>3. ASSUME c \in B
        PROVE  \E vs \in PackageLists \ {<<>>}, ps \in PackageLists :
                 c = [value |-> EncodeAll(vs), inValue |-> vs, ffdc |-> ps]
    BY <2>3
  <2> HIDE DEF A, B
  <2> QED BY <2>1, <2>2, <2>3, Zenon
<1>2. (4 + MaxData) * MaxPackages \in Nat
  BY BoundsTyped
<1>3. CASE \E n \in 0 .. MaxValue, ps \in PackageLists :
             c = [value |-> [i \in 1 .. n |-> Word(0, i)], inValue |-> <<>>, ffdc |-> ps]
  <2>1. PICK n \in 0 .. MaxValue, ps \in PackageLists :
             c = [value |-> [i \in 1 .. n |-> Word(0, i)], inValue |-> <<>>, ffdc |-> ps]
    BY <1>3, Zenon
  <2> DEFINE v == [i \in 1 .. n |-> Word(0, i)]
  <2>2. c.value = v /\ c.inValue = <<>> /\ c.ffdc = ps
    BY <2>1
  <2>3. \A i \in 1 .. n : Word(0, i) \in Words /\ Word(0, i).hi = 0
    BY BoundsTyped DEF Word, Words
  <2>4. v \in Seq(Words) /\ Len(v) = n /\ \A i \in 1 .. n : v[i].hi = 0
    BY <2>3, BoundsTyped, IsASeq
  <2> HIDE DEF v
  <2>5. Headed(v)
    BY <2>4, BoundsTyped DEF Headed, FFDC_MAGIC
  <2>6. <<>> \in PackageLists
    <3>1. <<>> \in [1 .. 0 -> Packages] /\ 0 \in 0 .. MaxPackages
      BY BoundsTyped
    <3> QED BY <3>1, Zenon DEF PackageLists, BoundedSeq, SeqOf
  <2>7. Len(EncodeAll(ps)) \in Nat /\ Len(EncodeAll(ps)) <= (4 + MaxData) * MaxPackages
    BY ListEncoded
  <2>8. n + STATUS_RESP_SIZE + Len(EncodeAll(ps)) < HalfModulus
    BY <1>2, <2>7, BoundsTyped DEF STATUS_RESP_SIZE
  <2> QED BY <2>2, <2>4, <2>5, <2>6, <2>8, BoundsTyped
<1>4. CASE \E vs \in PackageLists \ {<<>>}, ps \in PackageLists :
             c = [value |-> EncodeAll(vs), inValue |-> vs, ffdc |-> ps]
  <2>1. PICK vs \in PackageLists \ {<<>>}, ps \in PackageLists :
             c = [value |-> EncodeAll(vs), inValue |-> vs, ffdc |-> ps]
    BY <1>4, Zenon
  <2>2. c.value = EncodeAll(vs) /\ c.inValue = vs /\ c.ffdc = ps
    BY <2>1
  <2>3. /\ Len(EncodeAll(vs)) \in Nat /\ Len(EncodeAll(vs)) <= (4 + MaxData) * MaxPackages
        /\ Len(EncodeAll(ps)) \in Nat /\ Len(EncodeAll(ps)) <= (4 + MaxData) * MaxPackages
        /\ EncodeAll(vs) \in Seq(Words) /\ Headed(EncodeAll(vs))
    BY ListEncoded
  <2>4. Len(EncodeAll(vs)) + STATUS_RESP_SIZE + Len(EncodeAll(ps)) < HalfModulus
    BY <1>2, <2>3, BoundsTyped DEF STATUS_RESP_SIZE
  <2> QED BY <2>1, <2>2, <2>3, <2>4
<1>. QED
  BY <1>1, <1>3, <1>4

\* A response has its parts where Respond lays them.
LEMMA RespondIs ==
  ASSUME NEW c \in Contents
  PROVE  /\ Shaped(c, Respond(c))
         /\ SubSeq(Respond(c), 1, Len(c.value)) = c.value
         /\ \A i \in 1 .. Len(EncodeAll(c.ffdc)) :
              Respond(c)[Len(c.value) + 2 + i] = EncodeAll(c.ffdc)[i]
<1> DEFINE v == c.value
           h == <<Word(MAGIC_HEADER, 0), Word(3, 4)>>
           f == EncodeAll(c.ffdc)
           d == <<Word(0, STATUS_RESP_SIZE + Len(f))>>
           b == ((v \o h) \o f) \o d
<1>1. Respond(c) = b
  BY DEF Respond
<1>2. /\ v \in Seq(Words) /\ Headed(v) /\ f \in Seq(Words) /\ Headed(f)
      /\ Len(v) \in Nat /\ Len(f) \in Nat /\ Len(v) + 3 + Len(f) < HalfModulus
  BY ContentsAre, ListEncoded DEF STATUS_RESP_SIZE
<1> HIDE DEF v, f
<1>3. h \in Seq(Words) /\ Len(h) = 2 /\ h[1] = Word(MAGIC_HEADER, 0) /\ h[2] = Word(3, 4)
  BY BoundsTyped DEF Words, Word, MAGIC_HEADER
<1>4. d \in Seq(Words) /\ Len(d) = 1 /\ d[1] = Word(0, STATUS_RESP_SIZE + Len(f))
  BY <1>2, BoundsTyped DEF Words, Word, STATUS_RESP_SIZE
<1>5. Headed(h) /\ Headed(d)
  <2>1. h[1].hi # FFDC_MAGIC /\ h[2].hi # FFDC_MAGIC /\ d[1].hi # FFDC_MAGIC
    BY <1>3, <1>4 DEF Word, MAGIC_HEADER, FFDC_MAGIC
  <2>2. \A i \in 1 .. 2 : i = 1 \/ i = 2
    OBVIOUS
  <2> HIDE DEF h, d
  <2> QED BY <1>3, <1>4, <2>1, <2>2 DEF Headed
<1> HIDE DEF h, d
<1>6. /\ v \o h \in Seq(Words) /\ Len(v \o h) = Len(v) + 2 /\ Headed(v \o h)
      /\ \A i \in 1 .. Len(v) : (v \o h)[i] = v[i]
      /\ (v \o h)[Len(v) + 1] = h[1] /\ (v \o h)[Len(v) + 2] = h[2]
  <2>1. /\ v \o h \in Seq(Words) /\ Len(v \o h) = Len(v) + Len(h)
        /\ \A i \in 1 .. Len(v) : (v \o h)[i] = v[i]
        /\ \A i \in Len(v) + 1 .. Len(v) + Len(h) : (v \o h)[i] = h[i - Len(v)]
    BY <1>2, <1>3, ConcatAt, Zenon
  <2>2. /\ Len(v) + 1 \in Len(v) + 1 .. Len(v) + Len(h) /\ Len(v) + 1 - Len(v) = 1
        /\ Len(v) + 2 \in Len(v) + 1 .. Len(v) + Len(h) /\ Len(v) + 2 - Len(v) = 2
    BY <1>2, <1>3
  <2>3. Headed(v \o h)
    BY <1>2, <1>3, <1>5, HeadedConcat
  <2> QED BY <1>3, <2>1, <2>2, <2>3
<1> DEFINE u == v \o h
<1> HIDE DEF u
<1>7. /\ u \o f \in Seq(Words) /\ Len(u \o f) = Len(v) + 2 + Len(f) /\ Headed(u \o f)
      /\ \A i \in 1 .. Len(v) + 2 : (u \o f)[i] = u[i]
      /\ \A i \in 1 .. Len(f) : (u \o f)[Len(v) + 2 + i] = f[i]
  <2>1. u \in Seq(Words) /\ Len(u) = Len(v) + 2 /\ Headed(u)
    BY <1>6 DEF u
  <2>2. /\ u \o f \in Seq(Words) /\ Len(u \o f) = Len(u) + Len(f)
        /\ \A i \in 1 .. Len(u) : (u \o f)[i] = u[i]
        /\ \A i \in Len(u) + 1 .. Len(u) + Len(f) : (u \o f)[i] = f[i - Len(u)]
    BY <1>2, <2>1, ConcatAt, Zenon
  <2>3. \A i \in 1 .. Len(f) :
          Len(v) + 2 + i \in Len(u) + 1 .. Len(u) + Len(f) /\ Len(v) + 2 + i - Len(u) = i
    BY <1>2, <2>1
  <2>4. Headed(u \o f)
    BY <1>2, <2>1, HeadedConcat
  <2>5. \A i \in 1 .. Len(f) : (u \o f)[Len(v) + 2 + i] = f[i]
    BY <2>2, <2>3
  <2> QED BY <2>1, <2>2, <2>4, <2>5
<1> DEFINE w == u \o f
<1> HIDE DEF w
<1>8. /\ w \o d \in Seq(Words) /\ Len(w \o d) = Len(v) + 3 + Len(f) /\ Headed(w \o d)
      /\ \A i \in 1 .. Len(v) + 2 + Len(f) : (w \o d)[i] = w[i]
      /\ (w \o d)[Len(v) + 3 + Len(f)] = d[1]
  <2>1. w \in Seq(Words) /\ Len(w) = Len(v) + 2 + Len(f) /\ Headed(w)
    BY <1>7 DEF w
  <2>2. /\ w \o d \in Seq(Words) /\ Len(w \o d) = Len(w) + Len(d)
        /\ \A i \in 1 .. Len(w) : (w \o d)[i] = w[i]
        /\ \A i \in Len(w) + 1 .. Len(w) + Len(d) : (w \o d)[i] = d[i - Len(w)]
    <3>1. w \in Seq(Words) /\ d \in Seq(Words)
      BY <1>4, <2>1
    <3> QED BY <3>1, ConcatAt, Zenon
  <2>3. Headed(w \o d)
    BY <1>4, <1>5, <2>1, HeadedConcat
  <2>4. /\ Len(v) + 3 + Len(f) \in Len(w) + 1 .. Len(w) + Len(d)
        /\ Len(v) + 3 + Len(f) - Len(w) = 1
    BY <1>2, <1>4, <2>1
  <2> QED BY <1>2, <1>4, <2>1, <2>2, <2>3, <2>4
<1>9. b = w \o d
  BY DEF w, u
<1> HIDE DEF b
<1>10. /\ b[Len(v) + 1] = Word(MAGIC_HEADER, 0) /\ b[Len(v) + 2] = Word(3, 4)
       /\ \A i \in 1 .. Len(v) : b[i] = v[i]
       /\ \A i \in 1 .. Len(f) : b[Len(v) + 2 + i] = f[i]
  <2>1. \A i \in 1 .. Len(v) + 2 : i \in 1 .. Len(v) + 2 + Len(f)
    BY <1>2
  <2>2. \A i \in 1 .. Len(v) + 2 : b[i] = u[i]
    BY <1>7, <1>8, <1>9, <2>1 DEF w
  <2>3. \A i \in 1 .. Len(f) : Len(v) + 2 + i \in 1 .. Len(v) + 2 + Len(f)
    BY <1>2
  <2>4. \A i \in 1 .. Len(f) : b[Len(v) + 2 + i] = f[i]
    BY <1>7, <1>8, <1>9, <2>3 DEF w
  <2>5. Len(v) + 1 \in 1 .. Len(v) + 2 /\ Len(v) + 2 \in 1 .. Len(v) + 2
    BY <1>2
  <2>6. \A i \in 1 .. Len(v) : i \in 1 .. Len(v) + 2
    BY <1>2
  <2> QED BY <1>3, <1>6, <2>2, <2>4, <2>5, <2>6 DEF u
<1>11. b \in Seq(Words) /\ Len(b) = Len(v) + 3 + Len(f) /\ Headed(b) /\ Last(b) = d[1]
  BY <1>8, <1>9 DEF Last
<1>12. SubSeq(b, 1, Len(v)) = v
  <2>1. Len(v) <= Len(b)
    BY <1>2, <1>11
  <2>2. Len(SubSeq(b, 1, Len(v))) = Len(v) /\ \A i \in 1 .. Len(v) : SubSeq(b, 1, Len(v))[i] = b[i]
    BY <1>2, <1>11, <2>1
  <2>3. SubSeq(b, 1, Len(v)) \in Seq(Words)
    BY <1>2, <1>11, <2>1
  <2> QED BY <1>2, <1>10, <2>2, <2>3, SeqEqual
<1>. QED
  BY <1>1, <1>4, <1>10, <1>11, <1>12 DEF Shaped, STATUS_RESP_SIZE, v, f

\* A damaged head is still one, and announces something else.
LEMMA DamageKeepsShape ==
  ASSUME NEW c \in Contents, NEW r, Shaped(c, r), NEW b \in Damaged(r)
  PROVE  Shaped(c, b)
<1>1. PICK i \in {k \in 1 .. Len(r) : r[k].hi = FFDC_MAGIC}, n \in DamagedLengths :
           b = [r EXCEPT ![i].lo = n]
  BY DEF Damaged
<1> DEFINE v == Len(c.value)
           f == Len(EncodeAll(c.ffdc))
<1>2. /\ v \in Nat /\ f \in Nat
      /\ r \in Seq(Words) /\ Headed(r) /\ Len(r) = v + 3 + f
      /\ r[v + 1] = Word(MAGIC_HEADER, 0)
      /\ r[v + 2] = Word(3, 4)
      /\ Last(r) = Word(0, 3 + f)
  BY ContentsAre, ListEncoded DEF Shaped, STATUS_RESP_SIZE
<1> HIDE DEF v, f
<1>3. i \in 1 .. Len(r) /\ r[i].hi = FFDC_MAGIC /\ r[i] \in Words
  BY <1>1, <1>2, ElementOfSeq
<1>4. b = [r EXCEPT ![i] = [r[i] EXCEPT !.lo = n]]
  BY <1>1
<1>5. [r[i] EXCEPT !.lo = n] \in Words /\ [r[i] EXCEPT !.lo = n].hi = FFDC_MAGIC
  <2>1. n \in 0 .. HalfModulus - 1
    BY SizesAssumption
  <2> QED BY <1>3, <2>1 DEF Words
<1>6. /\ b \in Seq(Words) /\ Len(b) = Len(r)
      /\ \A j \in 1 .. Len(r) : b[j].hi = r[j].hi /\ (r[j].hi # FFDC_MAGIC => b[j] = r[j])
  <2> DEFINE x == [r[i] EXCEPT !.lo = n]
  <2>1. x \in Words /\ x.hi = FFDC_MAGIC
    BY <1>5
  <2> HIDE DEF x
  <2>2. b = [r EXCEPT ![i] = x]
    BY <1>4 DEF x
  <2>3. b \in Seq(Words) /\ Len(b) = Len(r)
    BY <1>2, <1>3, <2>1, <2>2, ExceptSeq
  <2>4. b[i] = x /\ \A j \in 1 .. Len(r) : j # i => b[j] = r[j]
    BY <1>2, <1>3, <2>2
  <2> QED BY <1>3, <2>1, <2>3, <2>4
<1>7. /\ v + 1 \in 1 .. Len(r) /\ v + 2 \in 1 .. Len(r) /\ Len(r) \in 1 .. Len(r)
  BY <1>2
<1>8. b[v + 1] = r[v + 1] /\ b[v + 2] = r[v + 2] /\ b[Len(b)] = r[Len(r)]
  <2>1. r[Len(r)] = Word(0, 3 + f)
    BY <1>2 DEF Last
  <2>2. r[v + 1].hi # FFDC_MAGIC /\ r[v + 2].hi # FFDC_MAGIC /\ r[Len(r)].hi # FFDC_MAGIC
    BY <1>2, <2>1 DEF Word, FFDC_MAGIC, MAGIC_HEADER
  <2> QED BY <1>6, <1>7, <2>2
<1>9. Headed(b)
  <2>1. ASSUME NEW j \in 1 .. Len(b), b[j].hi = FFDC_MAGIC
        PROVE  j + 2 <= Len(b) /\ b[j + 2].hi \in Slids
    <3>1. j + 2 <= Len(r) /\ r[j + 2].hi \in Slids
      BY <1>2, <1>6, <2>1 DEF Headed
    <3>2. j + 2 \in 1 .. Len(r)
      BY <1>2, <1>6, <3>1
    <3> QED BY <1>6, <3>1, <3>2
  <2> QED BY <2>1 DEF Headed
<1>. QED
  BY <1>2, <1>6, <1>8, <1>9 DEF Shaped, STATUS_RESP_SIZE, Last, v, f

\* What arrives at first is a response, damaged or not.
LEMMA InitArrived == ResponseInit => Arrived
<1> SUFFICES ASSUME ResponseInit PROVE Arrived
  OBVIOUS
<1>1. sent \in Contents /\ intact \in BOOLEAN
  BY DEF ResponseInit
<1>2. Shaped(sent, Respond(sent))
  BY <1>1, RespondIs
<1>3. CASE intact
  <2>1. buf = Respond(sent)
    BY <1>3 DEF ResponseInit
  <2> QED BY <1>1, <1>2, <2>1 DEF Arrived
<1>4. CASE ~intact
  <2>1. buf \in Damaged(Respond(sent))
    BY <1>4 DEF ResponseInit
  <2>2. Shaped(sent, buf)
    BY <1>1, <1>2, <2>1, DamageKeepsShape
  <2> QED BY <1>1, <1>4, <2>2 DEF Arrived
<1>. QED
  BY <1>1, <1>3, <1>4

\* The distance word leads to the status block, so a response that is long enough is
\* a good one.
LEMMA HeaderFound ==
  ASSUME Arrived
  PROVE  /\ Len(sent.value) \in Nat /\ Len(EncodeAll(sent.ffdc)) \in Nat
         /\ buf \in Seq(Words) /\ Len(buf) \in Nat
         /\ Len(buf) = Len(sent.value) + 3 + Len(EncodeAll(sent.ffdc))
         /\ HeaderOffset = Len(sent.value)
         /\ GoodResponse <=> Len(buf) >= SBEFIFO_MIN_RESP_LEN
<1> DEFINE v == Len(sent.value)
           f == Len(EncodeAll(sent.ffdc))
<1>1. /\ v \in Nat /\ f \in Nat /\ v + 3 + f < HalfModulus
      /\ buf \in Seq(Words) /\ Len(buf) = v + 3 + f
      /\ buf[v + 1] = Word(MAGIC_HEADER, 0)
      /\ Last(buf) = Word(0, 3 + f)
  BY ContentsAre, ListEncoded DEF Arrived, Shaped, STATUS_RESP_SIZE
<1> HIDE DEF v, f
<1>2. Full(Last(buf)) = 3 + f
  BY <1>1, BoundsTyped DEF Full, Word
<1>3. v \in 0 .. SizeModulus - 1 /\ v + 2 \in 0 .. SizeModulus - 1 /\ SizeModulus \in Nat \ {0}
  BY <1>1, BoundsTyped
<1>4. HeaderOffset = v
  <2>1. Len(buf) - Full(Last(buf)) = v
    BY <1>1, <1>2
  <2>2. v % SizeModulus = v
    BY <1>3
  <2> QED BY <2>1, <2>2 DEF HeaderOffset
<1>5. (v + 2) % SizeModulus = v + 2
  BY <1>3
<1>6. At(buf, v).hi = MAGIC_HEADER
  BY <1>1 DEF At, Word
<1>7. GoodResponse <=> Len(buf) >= SBEFIFO_MIN_RESP_LEN
  BY <1>1, <1>4, <1>5, <1>6 DEF GoodResponse
<1>8. Len(buf) \in Nat
  BY <1>1
<1>. QED
  BY <1>1, <1>4, <1>7, <1>8, Zenon DEF v, f

-----------------------------------------------------------------------------
(* SbeResponse: the steps. *)

\* Where a package may start, its head can be read, and what has the magic names one of
\* the SLIDs.
LEMMA HeadTyped ==
  ASSUME Arrived, Running, Parsing, MorePackages
  PROVE  /\ At(src, offset) \in Words /\ At(src, offset + 2) \in Words
         /\ At(src, offset + 3) \in Words
         /\ Announced \in 0 .. HalfModulus - 1
         /\ PackageFits => At(src, offset + 2).hi \in Slids
<1>1. /\ src \in Seq(Words) /\ buf \in Seq(Words) /\ Headed(buf)
      /\ Len(src) <= Len(buf) /\ \A i \in 1 .. Len(src) : src[i] = buf[i]
      /\ offset \in Nat /\ endOffset \in Nat /\ offset + 4 <= endOffset /\ endOffset <= Len(src)
      /\ Len(src) \in Nat /\ Len(buf) \in Nat
  BY LenProperties DEF Arrived, Shaped, Running, MorePackages, HEADER_SIZE
<1>2. /\ offset + 1 \in 1 .. Len(src) /\ offset + 3 \in 1 .. Len(src)
      /\ offset + 4 \in 1 .. Len(src)
      /\ offset + 2 + 1 = offset + 3 /\ offset + 3 + 1 = offset + 4
      /\ offset + 1 + 2 = offset + 3 /\ offset + 1 \in 1 .. Len(buf)
  BY <1>1
<1>3. At(src, offset) = src[offset + 1] /\ At(src, offset + 2) = src[offset + 3]
      /\ At(src, offset + 3) = src[offset + 4]
  BY <1>2 DEF At
<1>4. /\ src[offset + 1] \in Words /\ src[offset + 3] \in Words /\ src[offset + 4] \in Words
  BY <1>1, <1>2, ElementOfSeq
<1>5. Announced \in 0 .. HalfModulus - 1
  BY <1>3, <1>4 DEF Announced, Words
<1>6. ASSUME PackageFits PROVE At(src, offset + 2).hi \in Slids
  <2>1. buf[offset + 1].hi = FFDC_MAGIC
    BY <1>1, <1>2, <1>3, <1>6 DEF PackageFits
  <2>2. buf[offset + 1 + 2].hi \in Slids
    BY <1>1, <1>2, <2>1 DEF Headed
  <2> QED BY <1>1, <1>2, <1>3, <2>2
<1>. QED
  BY <1>3, <1>4, <1>5, <1>6

\* The entry of a package that fits lies inside the parser's words.
LEMMA EntryTyped ==
  ASSUME Arrived, Running, Parsing, MorePackages, PackageFits
  PROVE  /\ Entry \in Entries
         /\ Entry.data = SubSeq(src, offset + 1, offset + Announced)
<1>1. /\ src \in Seq(Words) /\ offset \in Nat /\ Announced \in Nat
      /\ offset + Announced <= Len(src) /\ Len(src) \in Nat
  BY HeadTyped, BoundsTyped, LenProperties DEF Running, PackageFits
<1>2. SubSeq(src, offset + 1, offset + Announced) \in Seq(Words)
  BY <1>1
<1>3. At(src, offset + 2).lo \in Nat /\ Full(At(src, offset + 3)) \in Nat
  <2>1. At(src, offset + 2) \in Words /\ At(src, offset + 3) \in Words
    BY HeadTyped
  <2>2. \A w \in Words : w.lo \in Nat /\ w.hi \in Nat
    BY DEF Words
  <2>3. \A a, b, c \in Nat : a * b + c \in Nat
    OBVIOUS
  <2> QED BY <2>1, <2>2, <2>3, BoundsTyped DEF Full
<1>. QED
  BY <1>2, <1>3 DEF Entry, Entries

\* Of the SLIDs stored, those that are one of them.
Alike(o, k, s) == {j \in 1 .. k : o[j] = s}

\* They can be counted.
LEMMA AlikeFinite ==
  ASSUME NEW o, NEW k \in Nat, NEW s
  PROVE  IsFiniteSet(Alike(o, k, s)) /\ Cardinality(Alike(o, k, s)) \in Nat
<1>1. IsFiniteSet(1 .. k) /\ Alike(o, k, s) \in SUBSET (1 .. k)
  BY FS_Interval DEF Alike
<1>. QED
  BY <1>1, FS_Subset, FS_CardinalityType

\* The k-th SLID's place is among those stored under it.
LEMMA PlaceIsThere ==
  ASSUME NEW o, NEW n \in Nat, NEW k \in 1 .. n
  PROVE  Place(o, k) \in 1 .. Cardinality(Alike(o, n, o[k]))
<1>1. /\ IsFiniteSet(Alike(o, n, o[k])) /\ Cardinality(Alike(o, n, o[k])) \in Nat
      /\ IsFiniteSet(Alike(o, k, o[k])) /\ Cardinality(Alike(o, k, o[k])) \in Nat
  BY AlikeFinite
<1>2. Alike(o, k, o[k]) \in SUBSET Alike(o, n, o[k])
  BY DEF Alike
<1>3. k \in Alike(o, k, o[k])
  BY DEF Alike
<1>4. Cardinality(Alike(o, k, o[k])) # 0
  BY <1>1, <1>3, FS_EmptySet
<1>5. Cardinality(Alike(o, k, o[k])) <= Cardinality(Alike(o, n, o[k]))
  BY <1>1, <1>2, FS_Subset
<1>6. Place(o, k) = Cardinality(Alike(o, k, o[k]))
  BY DEF Place, Alike
<1>. QED
  BY <1>1, <1>4, <1>5, <1>6

\* An entry is appended under its SLID: it is the last one, and the others stay.
LEMMA Stored ==
  ASSUME Filed, NEW e \in Entries, NEW s \in Slids,
         ffdcMap' = [ffdcMap EXCEPT ![s] = Append(@, e)],
         order' = Append(order, s)
  PROVE  /\ Filed'
         /\ Len(order') = Len(order) + 1 /\ Len(order) \in Nat
         /\ \A k \in 1 .. Len(order) : order'[k] = order[k] /\ Nth(k)' = Nth(k)
         /\ \A m : m = Len(order) + 1 => order'[m] = s /\ Nth(m)' = e
<1> DEFINE n == Len(order)
<1>1. /\ n \in Nat /\ order \in Seq(Slids) /\ ffdcMap \in [Slids -> Seq(Entries)]
      /\ \A t \in Slids : Len(ffdcMap[t]) = Cardinality(Alike(order, n, t))
  BY LenProperties DEF Filed, Alike
<1>2. /\ order' \in Seq(Slids) /\ Len(order') = n + 1
      /\ \A k \in 1 .. n : order'[k] = order[k]
      /\ order'[n + 1] = s
  BY <1>1, AppendProperties
<1>3. /\ ffdcMap' \in [Slids -> Seq(Entries)]
      /\ ffdcMap'[s] = Append(ffdcMap[s], e)
      /\ \A t \in Slids \ {s} : ffdcMap'[t] = ffdcMap[t]
  <2>1. ffdcMap[s] \in Seq(Entries) /\ Append(ffdcMap[s], e) \in Seq(Entries)
    BY <1>1, AppendProperties
  <2> QED BY <1>1, <2>1
<1> HIDE DEF n
<1>4. /\ Len(ffdcMap'[s]) = Len(ffdcMap[s]) + 1 /\ Len(ffdcMap[s]) \in Nat
      /\ ffdcMap'[s][Len(ffdcMap[s]) + 1] = e
      /\ \A i \in 1 .. Len(ffdcMap[s]) : ffdcMap'[s][i] = ffdcMap[s][i]
  <2>1. ffdcMap[s] \in Seq(Entries)
    BY <1>1
  <2> DEFINE q == ffdcMap[s]
  <2> HIDE DEF q
  <2>2. /\ Len(Append(q, e)) = Len(q) + 1 /\ Len(q) \in Nat /\ Append(q, e)[Len(q) + 1] = e
        /\ \A i \in 1 .. Len(q) : Append(q, e)[i] = q[i]
    BY <2>1, AppendProperties, LenProperties DEF q
  <2> QED BY <1>3, <2>2 DEF q
<1>5. \A k \in 0 .. n : \A t : Alike(order', k, t) = Alike(order, k, t)
  BY <1>1, <1>2 DEF Alike
<1>6. /\ Alike(order', n + 1, s) = Alike(order, n, s) \cup {n + 1}
      /\ n + 1 \notin Alike(order, n, s)
      /\ \A t \in Slids \ {s} : Alike(order', n + 1, t) = Alike(order, n, t)
  BY <1>1, <1>2 DEF Alike
<1>7. Cardinality(Alike(order', n + 1, s)) = Len(ffdcMap[s]) + 1
  BY <1>1, <1>6, AlikeFinite, FS_AddElement
<1>8. Filed'
  <2>1. \A t \in Slids : Len(ffdcMap'[t]) = Cardinality(Alike(order', n + 1, t))
    BY <1>1, <1>3, <1>4, <1>6, <1>7
  <2> QED BY <1>2, <1>3, <2>1 DEF Filed, Alike
<1>9. \A m : m = n + 1 => Nth(m)' = e
  <2>1. Place(order', n + 1) = Cardinality(Alike(order', n + 1, s))
    BY <1>2 DEF Place, Alike
  <2>2. \A k \in Nat : Nth(k)' = ffdcMap'[order'[k]][Place(order', k)]
    BY DEF Nth, Place
  <2>3. n + 1 \in Nat
    BY <1>1
  <2>4. ASSUME NEW m, m = n + 1
        PROVE  Nth(m)' = ffdcMap'[order'[n + 1]][Place(order', n + 1)]
    <3>1. m \in Nat
      BY <2>3, <2>4, Zenon
    <3>2. Nth(m)' = ffdcMap'[order'[m]][Place(order', m)]
      BY <2>2, <3>1
    <3> QED BY <2>4, <3>2, Zenon
  <2> QED BY <1>2, <1>4, <1>7, <2>1, <2>4
<1>10. ASSUME NEW k \in 1 .. n PROVE Nth(k)' = Nth(k)
  <2>1. order'[k] = order[k] /\ order[k] \in Slids
    BY <1>1, <1>2, ElementOfSeq DEF n
  <2>2. Place(order', k) = Place(order, k)
    <3>1. Alike(order', k, order[k]) = Alike(order, k, order[k])
      BY <1>1, <1>5
    <3> QED BY <2>1, <3>1 DEF Place, Alike
  <2>3. Place(order, k) \in 1 .. Len(ffdcMap[order[k]])
    BY <1>1, <2>1, PlaceIsThere
  <2>4. ffdcMap'[order[k]][Place(order, k)] = ffdcMap[order[k]][Place(order, k)]
    BY <1>3, <1>4, <2>1, <2>3
  <2> QED BY <2>1, <2>2, <2>4 DEF Nth
<1>. QED
  BY <1>1, <1>2, <1>8, <1>9, <1>10 DEF n

\* Every stored entry is found again.
LEMMA NthTyped ==
  ASSUME Filed, NEW k \in 1 .. Len(order)
  PROVE  Nth(k) \in Entries
<1>1. order[k] \in Slids /\ Len(order) \in Nat
  BY ElementOfSeq, LenProperties DEF Filed
<1>2. /\ ffdcMap[order[k]] \in Seq(Entries)
      /\ Len(ffdcMap[order[k]]) = Cardinality(Alike(order, Len(order), order[k]))
  BY <1>1 DEF Filed, Alike
<1>3. Place(order, k) \in 1 .. Len(ffdcMap[order[k]])
  BY <1>1, <1>2, PlaceIsThere
<1>. QED
  BY <1>2, <1>3, ElementOfSeq DEF Nth

\* Words from a to c are those from a to b and those from b to c.
LEMMA SubSeqSplit ==
  ASSUME NEW T, NEW s \in Seq(T), NEW a \in Nat, NEW b \in Nat, NEW c \in Nat,
         a <= b, b <= c, c <= Len(s)
  PROVE  /\ SubSeq(s, a + 1, c) = SubSeq(s, a + 1, b) \o SubSeq(s, b + 1, c)
         /\ SubSeq(s, a + 1, b) \in Seq(T) /\ SubSeq(s, b + 1, c) \in Seq(T)
         /\ Len(SubSeq(s, a + 1, b)) = b - a /\ Len(SubSeq(s, b + 1, c)) = c - b
<1> DEFINE p == SubSeq(s, a + 1, b)
           q == SubSeq(s, b + 1, c)
           w == SubSeq(s, a + 1, c)
<1>1. Len(s) \in Nat
  BY LenProperties
<1>2. p \in Seq(T) /\ Len(p) = b - a /\ \A i \in 1 .. b - a : p[i] = s[a + i]
  <2>1. Len(p) = b - a
    OBVIOUS
  <2>2. \A i \in 1 .. b - a : p[i] = s[a + i]
    OBVIOUS
  <2> QED BY <1>1, <2>1, <2>2
<1>3. q \in Seq(T) /\ Len(q) = c - b /\ \A i \in 1 .. c - b : q[i] = s[b + i]
  <2>1. Len(q) = c - b
    OBVIOUS
  <2>2. \A i \in 1 .. c - b : q[i] = s[b + i]
    OBVIOUS
  <2> QED BY <1>1, <2>1, <2>2
<1>4. w \in Seq(T) /\ Len(w) = c - a /\ \A i \in 1 .. c - a : w[i] = s[a + i]
  <2>1. Len(w) = c - a
    OBVIOUS
  <2>2. \A i \in 1 .. c - a : w[i] = s[a + i]
    OBVIOUS
  <2> QED BY <1>1, <2>1, <2>2
<1> HIDE DEF p, q, w
<1>5. /\ p \o q \in Seq(T) /\ Len(p \o q) = Len(p) + Len(q)
      /\ \A i \in 1 .. Len(p) : (p \o q)[i] = p[i]
      /\ \A i \in Len(p) + 1 .. Len(p) + Len(q) : (p \o q)[i] = q[i - Len(p)]
  BY <1>2, <1>3, ConcatAt, Zenon
<1>6. ASSUME NEW i \in 1 .. c - a PROVE (p \o q)[i] = w[i]
  <2>1. CASE i <= b - a
    <3>1. i \in 1 .. Len(p) /\ i \in 1 .. b - a
      BY <1>2, <2>1
    <3> QED BY <1>2, <1>4, <1>5, <3>1
  <2>2. CASE ~(i <= b - a)
    <3>1. i \in Len(p) + 1 .. Len(p) + Len(q) /\ i - Len(p) \in 1 .. c - b
          /\ b + (i - Len(p)) = a + i
      BY <1>2, <1>3, <2>2
    <3>2. q[i - Len(p)] = s[b + (i - Len(p))]
      BY <1>3, <3>1
    <3> QED BY <1>4, <1>5, <3>1, <3>2
  <2> QED BY <2>1, <2>2
<1>7. Len(p \o q) = Len(w) /\ Len(w) = c - a
  BY <1>2, <1>3, <1>4, <1>5
<1>8. w = p \o q
  BY <1>4, <1>5, <1>6, <1>7, SeqEqual
<1>. QED
  BY <1>2, <1>3, <1>8 DEF p, q, w

\* No words are the end of any.
LEMMA NothingIsSuffix ==
  ASSUME NEW T, NEW t \in Seq(T)
  PROVE  IsSuffix(<<>>, t)
<1>1. <<>> \in Seq(T) /\ Len(<<>>) = 0 /\ Len(t) \in Nat
  BY LenProperties
<1>2. PICK s \in Seq(T) : s = <<>> /\ Len(s) = 0
  BY <1>1
<1>3. Len(s) <= Len(t) /\ \A i \in 1 .. Len(s) : s[i] = t[Len(t) - Len(s) + i]
  BY <1>1, <1>2
<1>4. IsSuffix(s, t)
  BY <1>3, SuffixIs, Zenon
<1>. QED
  BY <1>2, <1>4

\* The words of the entries, entry by entry.
Laid == [k \in 1 .. Len(order) |-> Nth(k).data]

\* They are words.
LEMMA LaidTyped ==
  ASSUME Filed
  PROVE  Laid \in Seq(Seq(Words)) /\ Len(Laid) = Len(order) /\ FlattenSeq(Laid) \in Seq(Words)
<1>1. Len(order) \in Nat
  BY LenProperties DEF Filed
<1>2. \A k \in 1 .. Len(order) : Nth(k).data \in Seq(Words)
  BY NthTyped DEF Entries
<1>3. Laid \in Seq(Seq(Words)) /\ Len(Laid) = Len(order)
  BY <1>1, <1>2, IsASeq DEF Laid
<1>. QED
  BY <1>3, FlattenTyped

\* What a turn of the loop stores.
LEMMA StoredWhat ==
  ASSUME ParsePackage, Arrived, Running
  PROVE  /\ Parsing /\ MorePackages /\ PackageFits
         /\ Entry \in Entries /\ Entry.data = SubSeq(src, offset + 1, offset + Announced)
         /\ Announced \in Nat /\ offset' = offset + Announced
         /\ At(src, offset + 2).hi \in Slids
         /\ ffdcMap' = [ffdcMap EXCEPT ![At(src, offset + 2).hi] = Append(@, Entry)]
         /\ order' = Append(order, At(src, offset + 2).hi)
<1>1. Parsing /\ MorePackages /\ PackageFits /\ offset' = offset + Announced
  BY DEF ParsePackage, NextOffset
<1>2. Announced \in 0 .. HalfModulus - 1 /\ At(src, offset + 2).hi \in Slids
  BY <1>1, HeadTyped
<1>3. Entry \in Entries /\ Entry.data = SubSeq(src, offset + 1, offset + Announced)
  BY <1>1, EntryTyped
<1>4. Announced \in Nat
  BY <1>2, BoundsTyped
<1>5. /\ ffdcMap' = [ffdcMap EXCEPT ![At(src, offset + 2).hi] = Append(@, Entry)]
      /\ order' = Append(order, At(src, offset + 2).hi)
  BY DEF ParsePackage
<1>. QED
  BY <1>1, <1>2, <1>3, <1>4, <1>5

\* A package adds its words to the entries', and to those passed.
LEMMA TileGrows ==
  ASSUME ParsePackage, Arrived, Running, Filed, EntriesTile
  PROVE  EntriesTile'
<1> DEFINE e == Entry
           n == Len(order)
           s == At(src, offset + 2).hi
<1>1. /\ e \in Entries /\ e.data = SubSeq(src, offset + 1, offset + Announced)
      /\ Announced \in Nat /\ offset' = offset + Announced /\ s \in Slids
      /\ offset + Announced <= endOffset
      /\ ffdcMap' = [ffdcMap EXCEPT ![s] = Append(@, e)] /\ order' = Append(order, s)
  BY StoredWhat DEF PackageFits
<1> HIDE DEF e, s
<1>2. /\ Filed' /\ Len(order') = n + 1 /\ n \in Nat
      /\ \A k \in 1 .. n : Nth(k)' = Nth(k)
      /\ \A m : m = n + 1 => Nth(m)' = e
  BY <1>1, Stored
<1>3. Laid \in Seq(Seq(Words)) /\ Len(Laid) = n /\ FlattenSeq(Laid) \in Seq(Words)
  BY LaidTyped
<1>4. e.data \in Seq(Words)
  BY <1>1 DEF Entries
<1>5. Laid' = Append(Laid, e.data)
  <2>1. Laid' = [k \in 1 .. n + 1 |-> Nth(k)'.data]
    BY <1>2 DEF Laid
  <2>2. /\ Append(Laid, e.data) \in Seq(Seq(Words)) /\ Len(Append(Laid, e.data)) = n + 1
        /\ \A k \in 1 .. n : Append(Laid, e.data)[k] = Laid[k]
        /\ Append(Laid, e.data)[n + 1] = e.data
    BY <1>3, <1>4, AppendProperties
  <2>3. \A k \in 1 .. n + 1 : Nth(k)'.data = Append(Laid, e.data)[k]
    <3>1. TAKE k \in 1 .. n + 1
    <3>2. CASE k = n + 1
      BY <1>2, <2>2, <3>2
    <3>3. CASE k # n + 1
      <4>1. k \in 1 .. n
        BY <1>2, <3>3
      <4>2. Laid[k] = Nth(k).data
        BY <4>1 DEF Laid
      <4> QED BY <1>2, <2>2, <4>1, <4>2
    <3> QED BY <3>2, <3>3
  <2>4. Laid' \in Seq(Seq(Words)) /\ Len(Laid') = n + 1
    <3>1. \A k \in 1 .. n + 1 : Nth(k)'.data \in Seq(Words)
      BY <2>2, <2>3, ElementOfSeq
    <3> QED BY <1>2, <2>1, <3>1, IsASeq
  <2>5. \A k \in 1 .. n + 1 : Laid'[k] = Append(Laid, e.data)[k]
    BY <2>1, <2>3
  <2> QED BY <2>2, <2>4, <2>5, SeqEqual
<1>6. FlattenSeq(Laid)' = FlattenSeq(Laid) \o e.data
  BY <1>3, <1>4, <1>5, FlattenAppend
<1>7. /\ src' = src /\ start' = start
  BY DEF ParsePackage
<1>8. /\ src \in Seq(Words) /\ start \in Nat /\ offset \in Nat /\ offset + Announced \in Nat
      /\ start <= offset /\ offset <= offset + Announced /\ offset + Announced <= Len(src)
  BY <1>1, LenProperties DEF Running
<1>9. /\ SubSeq(src, start + 1, offset + Announced) = SubSeq(src, start + 1, offset) \o e.data
      /\ SubSeq(src, start + 1, offset) \in Seq(Words)
  BY <1>1, <1>8, SubSeqSplit
<1>10. IsSuffix(SubSeq(src, start + 1, offset), FlattenSeq(Laid))
  BY DEF EntriesTile, Laid
<1>11. IsSuffix(SubSeq(src, start + 1, offset) \o e.data, FlattenSeq(Laid) \o e.data)
  BY <1>3, <1>4, <1>9, <1>10, SuffixGrows
<1>12. SubSeq(src, start + 1, offset)' = SubSeq(src, start + 1, offset) \o e.data
  BY <1>1, <1>7, <1>9
<1>. QED
  BY <1>6, <1>11, <1>12 DEF EntriesTile, Laid

\* A parser that has just begun has passed nothing.
LEMMA TileFromStart == Running /\ Filed /\ offset = start => EntriesTile
<1> SUFFICES ASSUME Running, Filed, offset = start PROVE EntriesTile
  OBVIOUS
<1>1. SubSeq(src, start + 1, offset) = <<>>
  <2>1. start \in Nat /\ offset \in Nat /\ src \in Seq(Words) /\ start + 1 > offset
    BY DEF Running
  <2> QED BY <2>1
<1>2. IsSuffix(<<>>, FlattenSeq(Laid))
  BY LaidTyped, NothingIsSuffix
<1>. QED
  BY <1>1, <1>2 DEF EntriesTile, Laid

\* In an undamaged response the parser's words are those of the packages it goes through.
LEMMA WordsAre ==
  ASSUME Arrived, Running, Filed, Found, intact, Len(buf) >= SBEFIFO_MIN_RESP_LEN, Parsing
  PROVE  /\ List \in PackageLists /\ Done \in 0 .. Len(List)
         /\ offset = start + Len(First(List, Done))
         /\ start \in Nat /\ endOffset = start + Len(EncodeAll(List)) /\ endOffset <= Len(src)
         /\ \A i \in 1 .. Len(EncodeAll(List)) : src[start + i] = EncodeAll(List)[i]
         /\ src \in Seq(Words) /\ value = sent.value
<1>1. /\ sent \in Contents /\ buf = Respond(sent)
      /\ parser = "ffdc" \/ parser = "value"
      /\ parser # "response"
  BY DEF Arrived, Parsing
<1>2. /\ Done \in 0 .. Len(List) /\ offset = start + Len(First(List, Done)) /\ value = sent.value
      /\ parser = "value" => sent.inValue # <<>>
  BY <1>1 DEF Found
<1>3. src \in Seq(Words) /\ start \in Nat /\ endOffset <= Len(src)
  BY DEF Running
<1>4. sent.ffdc \in PackageLists /\ sent.inValue \in PackageLists
  BY <1>1, ContentsAre
<1>5. CASE parser = "ffdc"
  <2>1. List = sent.ffdc /\ src = buf /\ start = Len(sent.value) + 2 /\ endOffset = Len(buf) - 1
    BY <1>5 DEF List, Running
  <2>2. \A i \in 1 .. Len(EncodeAll(sent.ffdc)) :
          Respond(sent)[Len(sent.value) + 2 + i] = EncodeAll(sent.ffdc)[i]
    BY <1>1, RespondIs
  <2>3. /\ Len(buf) = Len(sent.value) + 3 + Len(EncodeAll(sent.ffdc))
        /\ Len(sent.value) \in Nat /\ Len(EncodeAll(sent.ffdc)) \in Nat
    BY HeaderFound
  <2>4. endOffset = start + Len(EncodeAll(List))
    <3> DEFINE v == Len(sent.value)
               f == Len(EncodeAll(sent.ffdc))
    <3>1. /\ v \in Nat /\ f \in Nat /\ Len(buf) = v + 3 + f /\ start = v + 2
          /\ endOffset = Len(buf) - 1
      BY <2>1, <2>3
    <3> HIDE DEF v, f
    <3>2. endOffset = start + f
      BY <3>1
    <3> QED BY <2>1, <3>2 DEF f
  <2>5. \A i \in 1 .. Len(EncodeAll(List)) : src[start + i] = EncodeAll(List)[i]
    BY <1>1, <2>1, <2>2
  <2> QED BY <1>2, <1>3, <1>4, <2>1, <2>4, <2>5
<1>6. CASE parser = "value"
  <2>1. /\ List = sent.inValue /\ src = value /\ start = 0 /\ endOffset = Len(value)
    BY <1>6 DEF List, Running
  <2>2. sent.value = EncodeAll(sent.inValue)
    BY <1>1, <1>2, <1>6, ContentsAre
  <2>3. Len(EncodeAll(sent.inValue)) \in Nat
    BY <1>4, ListEncoded
  <2> QED BY <1>2, <1>3, <1>4, <2>1, <2>2, <2>3
<1>. QED
  BY <1>1, <1>5, <1>6

\* The parser is at the next of them, if there is one.
LEMMA NextPackage ==
  ASSUME Arrived, Running, Filed, Found, intact, Len(buf) >= SBEFIFO_MIN_RESP_LEN, Parsing,
         Done < Len(List)
  PROVE  /\ MorePackages /\ PackageFits
         /\ List[Done + 1] \in Packages
         /\ At(src, offset + 2).hi = List[Done + 1].slid
         /\ Entry = EntryFor(List[Done + 1])
         /\ offset + Announced = start + Len(First(List, Done + 1))
<1> DEFINE k == Done
           p == List[Done + 1]
           e == Encode(List[Done + 1])
           n == Len(First(List, Done))
<1>1. /\ List \in PackageLists /\ k \in 0 .. Len(List) /\ offset = start + n
      /\ start \in Nat /\ endOffset = start + Len(EncodeAll(List)) /\ endOffset <= Len(src)
      /\ \A i \in 1 .. Len(EncodeAll(List)) : src[start + i] = EncodeAll(List)[i]
      /\ src \in Seq(Words) /\ Len(src) \in Nat
  BY WordsAre, LenProperties
<1>2. List \in Seq(Packages) /\ Len(List) \in 0 .. MaxPackages /\ MaxPackages # 0 /\ p \in Packages
  <2>1. List \in Seq(Packages) /\ Len(List) \in 0 .. MaxPackages
    BY <1>1, ListTyped
  <2>2. MaxPackages # 0 /\ Done + 1 \in 1 .. Len(List)
    BY <1>1, <2>1, BoundsTyped
  <2> QED BY <2>1, <2>2, ElementOfSeq
<1>3. k \in 0 .. Len(List) - 1
  BY <1>1, <1>2
<1>4. /\ n \in Nat /\ Len(First(List, k + 1)) = n + Len(e)
      /\ n + Len(e) <= Len(EncodeAll(List))
      /\ \A i \in 1 .. Len(e) : EncodeAll(List)[n + i] = e[i]
  BY <1>2, <1>3, PackageAt
<1>5. /\ e \in Seq(Words) /\ p.data \in 1 .. MaxData /\ p.slid \in Slids
      /\ Len(e) = 4 + p.data
      /\ e[1] = Word(FFDC_MAGIC, HEADER_SIZE + p.data)
      /\ e[3] = Word(p.slid, p.data) /\ e[4] = Word(0, p.slid)
  BY <1>2, EncodeIs DEF HEADER_SIZE
<1>6. p.data \in Nat /\ p.data >= 1
  BY <1>5, BoundsTyped
<1>7. Len(EncodeAll(List)) \in Nat
  BY <1>1, ListEncoded
<1> DEFINE c == Len(e)
           w == Len(EncodeAll(List))
<1> HIDE DEF k, p, e, n
<1>8. /\ n \in Nat /\ start \in Nat /\ offset = start + n /\ c = 4 + p.data /\ w \in Nat
       /\ n + c <= w /\ endOffset = start + w
  BY <1>1, <1>4, <1>5, <1>7
<1> HIDE DEF c, w
<1>9. /\ c \in Nat /\ offset \in Nat /\ endOffset \in Nat /\ offset + c <= endOffset
       /\ 1 \in 1 .. c /\ 3 \in 1 .. c /\ 4 \in 1 .. c
       /\ start + (n + c) = offset + c
  BY <1>6, <1>8
<1>10. \A i \in 1 .. Len(e) : src[offset + i] = e[i]
  <2>1. TAKE i \in 1 .. Len(e)
  <2>2. n + i \in 1 .. Len(EncodeAll(List)) /\ start + (n + i) = offset + i
    BY <1>1, <1>4, <1>5, <1>6, <1>7
  <2>3. src[start + (n + i)] = EncodeAll(List)[n + i]
    BY <1>1, <2>2
  <2> QED BY <1>4, <2>2, <2>3
<1>11. 1 \in 1 .. Len(e) /\ 3 \in 1 .. Len(e) /\ 4 \in 1 .. Len(e) /\ offset \in Nat
  BY <1>9 DEF c
<1>12. /\ At(src, offset) = e[1] /\ At(src, offset + 2) = e[3] /\ At(src, offset + 3) = e[4]
  <2>1. offset + 2 + 1 = offset + 3 /\ offset + 3 + 1 = offset + 4
    BY <1>11
  <2> QED BY <1>10, <1>11, <2>1 DEF At
<1>13. Announced = Len(e) /\ At(src, offset).hi = FFDC_MAGIC
  BY <1>5, <1>12 DEF Announced, Word, HEADER_SIZE
<1>14. offset + Len(e) <= endOffset /\ endOffset \in Nat
  BY <1>9 DEF c
<1>15. MorePackages /\ PackageFits
  BY <1>5, <1>6, <1>11, <1>13, <1>14 DEF MorePackages, PackageFits, HEADER_SIZE
<1>16. SubSeq(src, offset + 1, offset + Announced) = e
  <2> DEFINE b == SubSeq(src, offset + 1, offset + Len(e))
  <2>1. Len(e) \in Nat
    BY <1>5, <1>6
  <2>2. b \in Seq(Words)
    BY <1>1, <1>11, <1>14, <2>1
  <2>3. Len(b) = Len(e)
    BY <1>11, <2>1
  <2>4. \A i \in 1 .. Len(e) : b[i] = src[offset + i]
    BY <1>11, <2>1
  <2> HIDE DEF b
  <2>5. b = e
    BY <1>5, <1>10, <2>2, <2>3, <2>4, SeqEqual
  <2> QED BY <1>13, <2>5 DEF b
<1>17. Full(At(src, offset + 3)) = p.slid /\ At(src, offset + 2).lo = p.data
       /\ At(src, offset + 2).hi = p.slid
  <2>1. p.slid \in Nat /\ HalfModulus \in Nat
    <3>1. Slids \subseteq 1 .. HalfModulus - 1
      BY SizesAssumption
    <3>2. p.slid \in 1 .. HalfModulus - 1
      BY <1>5, <3>1
    <3> QED BY <3>2, BoundsTyped
  <2> QED BY <1>5, <1>12, <2>1 DEF Full, Word
<1>18. Entry = EntryFor(p)
  BY <1>16, <1>17 DEF Entry, EntryFor, e, p
<1>19. offset + Announced = start + Len(First(List, k + 1))
  <2>1. Len(First(List, k + 1)) = n + c /\ Announced = c
    BY <1>4, <1>13 DEF c
  <2> QED BY <1>9, <2>1
<1>. QED
  BY <1>2, <1>15, <1>17, <1>18, <1>19 DEF k, p

\* The loop ends after the last of them, and not before.
LEMMA NoPackageLeft ==
  ASSUME Arrived, Running, Filed, Found, intact, Len(buf) >= SBEFIFO_MIN_RESP_LEN, Parsing
  PROVE  /\ MorePackages <=> Done < Len(List)
         /\ Done \in Nat /\ Len(List) \in Nat /\ Done <= Len(List)
<1>1. /\ List \in PackageLists /\ Done \in 0 .. Len(List) /\ start \in Nat
      /\ offset = start + Len(First(List, Done)) /\ endOffset = start + Len(EncodeAll(List))
  BY WordsAre
<1>2. List \in Seq(Packages) /\ Len(List) \in Nat
  BY <1>1, ListTyped, LenProperties
<1>3. ASSUME Done = Len(List) PROVE ~MorePackages
  <2>1. First(List, Done) = EncodeAll(List)
    BY <1>2, <1>3, FirstAll
  <2>2. Len(EncodeAll(List)) \in Nat
    BY <1>1, ListEncoded
  <2>3. offset = endOffset /\ offset \in Nat
    BY <1>1, <2>1, <2>2
  <2> QED BY <2>3 DEF MorePackages, HEADER_SIZE
<1>. QED
  BY <1>1, <1>2, <1>3, NextPackage

\* What a step that only ends the parser leaves as it was.
LEMMA NothingStored ==
  ASSUME UNCHANGED <<src, start, offset, ffdcMap, order>>
  PROVE  /\ Filed => Filed'
         /\ EntriesTile => EntriesTile'
         /\ \A k : Nth(k)' = Nth(k)
<1>1. \A k : Nth(k)' = Nth(k)
  BY DEF Nth, Place
<1>2. Filed => Filed'
  BY DEF Filed
<1>3. Laid' = Laid
  BY <1>1 DEF Laid
<1>4. EntriesTile => EntriesTile'
  BY <1>3 DEF EntriesTile, Laid
<1>. QED
  BY <1>1, <1>2, <1>4

\* The response is taken apart where it was put together.
LEMMA ParseResponseInv ==
  ASSUME ResponseInv, ParseResponse
  PROVE  Running' /\ Filed' /\ EntriesTile' /\ Found'
<1> DEFINE v == Len(sent.value)
           f == Len(EncodeAll(sent.ffdc))
<1>1. Arrived /\ Running /\ Filed /\ EntriesTile
  BY DEF ResponseInv
<1>2. /\ v \in Nat /\ f \in Nat /\ buf \in Seq(Words) /\ Len(buf) = v + 3 + f
      /\ HeaderOffset = v
      /\ GoodResponse <=> Len(buf) >= SBEFIFO_MIN_RESP_LEN
  BY <1>1, HeaderFound
<1>3. /\ sent \in Contents /\ buf[v + 2] = Word(3, 4)
      /\ intact => buf = Respond(sent)
  BY <1>1 DEF Arrived, Shaped
<1>4. /\ parser = "response" /\ sent' = sent /\ buf' = buf /\ intact' = intact
      /\ ffdcMap' = ffdcMap /\ order' = order
  BY DEF ParseResponse, inputs
<1>5. order = <<>> /\ offset = start /\ rc = 0
  BY <1>1, <1>4 DEF Running
<1>6. Filed'
  BY <1>1, <1>4 DEF Filed
<1>7. CASE GoodResponse
  <2>1. /\ sw' = [primary |-> At(buf, v + 1).hi, secondary |-> At(buf, v + 1).lo]
        /\ value' = SubSeq(buf, 1, v) /\ parser' = "ffdc" /\ src' = buf
        /\ offset' = IF Len(buf) > v + STATUS_RESP_SIZE THEN v + 2 ELSE FfdcEnd
        /\ start' = offset' /\ endOffset' = FfdcEnd /\ rc' = 0
    BY <1>2, <1>5, <1>7 DEF ParseResponse
  <2>2. At(buf, v + 1) = Word(3, 4)
    <3>1. v + 1 + 1 = v + 2
      BY <1>2
    <3> QED BY <1>3, <3>1 DEF At
  <2>3. sw' = [primary |-> 3, secondary |-> 4]
    BY <2>1, <2>2 DEF Word
  <2> HIDE DEF v, f
  <2>4. offset' = v + 2 /\ endOffset' = v + 2 + f
    BY <1>2, <2>1 DEF STATUS_RESP_SIZE, FfdcEnd
  <2>5. Running'
    <3>1. sw' \in [primary : 0 .. HalfModulus - 1, secondary : 0 .. HalfModulus - 1]
      BY <2>3, BoundsTyped
    <3>2. v + 2 \in Nat /\ v + 2 + f \in Nat /\ v + 2 <= v + 2 + f /\ v + 2 + f <= Len(buf)
          /\ v + 2 + f = Len(buf) - 1 /\ Len(buf) <= Len(buf)
      BY <1>2
    <3>3. {start', offset', endOffset'} \subseteq Nat
      BY <2>1, <2>4, <3>2
    <3>4. /\ start' <= offset' /\ offset' <= endOffset' /\ endOffset' <= Len(src')
          /\ endOffset' = Len(buf) - 1 /\ start' = v + 2
      BY <2>1, <2>4, <3>2
    <3> QED BY <1>2, <1>4, <2>1, <3>1, <3>2, <3>3, <3>4 DEF Running, v
  <2>6. EntriesTile'
    <3>1. (Running /\ Filed /\ offset = start)' => EntriesTile'
      BY TileFromStart, PTL
    <3> QED BY <1>6, <2>1, <2>5, <3>1
  <2>7. Found'
    <3>1. SUFFICES ASSUME intact PROVE Found'
      BY <1>4 DEF Found
    <3>2. value' = sent.value
      BY <1>3, <2>1, <3>1, RespondIs DEF v
    <3>3. sent.ffdc \in Seq(Packages) /\ sent.inValue \in Seq(Packages)
      BY <1>3, ContentsAre, ListTyped
    <3>4. Len(First(sent.ffdc, 0)) = 0 /\ Len(sent.ffdc) \in Nat
      BY <3>3, FirstAll, LenProperties
    <3>5. List' = sent.ffdc /\ Done' = 0
      BY <1>4, <1>5, <2>1 DEF List, Done
    <3>6. Len(order') = 0 /\ Len(Packs') \in Nat
      BY <1>4, <1>5, <3>3, ConcatAt, LenProperties DEF Packs
    <3>7. offset' = start' + Len(First(List', Done'))
      BY <1>2, <2>1, <2>4, <3>4, <3>5
    <3>8. (Done \in 0 .. Len(List) /\ offset = start + Len(First(List, Done)))'
      BY <3>4, <3>5, <3>7
    <3>9. (\A k \in 1 .. Len(order) : order[k] = Packs[k].slid /\ Nth(k) = EntryFor(Packs[k]))'
      BY <3>6
    <3>10. rc' = 0 /\ Len(order') <= Len(Packs') /\ parser' # "value" /\ parser' # "done"
      BY <2>1, <3>6
    <3> QED BY <1>4, <2>3, <3>2, <3>8, <3>9, <3>10 DEF Found
  <2> QED BY <1>6, <2>5, <2>6, <2>7
<1>8. CASE ~GoodResponse
  <2>1. /\ parser' = "done" /\ rc' = EPROTO
        /\ sw' = sw /\ value' = value /\ UNCHANGED <<src, start, offset, endOffset>>
    BY <1>8 DEF ParseResponse
  <2>2. Running'
    BY <1>1, <1>4, <2>1 DEF Running, Parsing
  <2>3. Found'
    BY <1>2, <1>4, <1>8 DEF Found
  <2>4. EntriesTile'
    BY <1>1, <1>4, <2>1, NothingStored
  <2> QED BY <1>6, <2>2, <2>3, <2>4
<1>. QED
  BY <1>7, <1>8

\* A turn of the loop stores the next package.
LEMMA ParsePackageInv ==
  ASSUME ResponseInv, ParsePackage
  PROVE  Running' /\ Filed' /\ EntriesTile' /\ Found'
<1> DEFINE s == At(src, offset + 2).hi
           n == Len(order)
<1>1. Arrived /\ Running /\ Filed /\ EntriesTile /\ Found
  BY DEF ResponseInv
<1>2. /\ Parsing /\ MorePackages /\ PackageFits
      /\ Entry \in Entries /\ Announced \in Nat /\ offset' = offset + Announced /\ s \in Slids
      /\ ffdcMap' = [ffdcMap EXCEPT ![s] = Append(@, Entry)] /\ order' = Append(order, s)
  BY <1>1, StoredWhat
<1>3. /\ parser' = parser /\ src' = src /\ start' = start /\ endOffset' = endOffset
      /\ value' = value /\ sw' = sw /\ rc' = rc
      /\ sent' = sent /\ buf' = buf /\ intact' = intact
  BY DEF ParsePackage, inputs
<1> DEFINE e == Entry
<1> HIDE DEF s, e
<1>4. /\ Filed' /\ Len(order') = n + 1 /\ n \in Nat
      /\ \A k \in 1 .. n : order'[k] = order[k] /\ Nth(k)' = Nth(k)
      /\ \A m : m = n + 1 => order'[m] = s /\ Nth(m)' = e
  BY <1>1, <1>2, Stored DEF e
<1>5. EntriesTile'
  BY <1>1, TileGrows
<1>6. parser = "ffdc" \/ parser = "value"
  BY <1>2 DEF Parsing
<1>7. Running'
  <2>1. /\ start \in Nat /\ offset \in Nat /\ offset + Announced \in Nat
        /\ start <= offset /\ offset <= offset + Announced /\ offset + Announced <= endOffset
    BY <1>1, <1>2 DEF Running, PackageFits
  <2>2. {start', offset', endOffset'} \subseteq Nat /\ start' <= offset' /\ offset' <= endOffset'
    BY <1>1, <1>2, <1>3, <2>1 DEF Running
  <2>3. parser' # "response"
    BY <1>3, <1>6
  <2> QED BY <1>1, <1>2, <1>3, <2>2, <2>3 DEF Running, Parsing
<1>8. Found'
  <2>1. SUFFICES ASSUME intact, Len(buf) >= SBEFIFO_MIN_RESP_LEN PROVE Found'
    BY <1>3 DEF Found
  <2> DEFINE p == List[Done + 1]
             L == List
             d == Done
  <2>2. d \in Nat /\ Len(L) \in Nat /\ d < Len(L)
    BY <1>1, <1>2, <2>1, NoPackageLeft
  <2>3. /\ p \in Packages /\ s = p.slid /\ e = EntryFor(p)
        /\ offset + Announced = start + Len(First(L, d + 1))
    BY <1>1, <1>2, <2>1, <2>2, NextPackage DEF s, e
  <2>4. /\ rc = 0 /\ value = sent.value /\ sw = [primary |-> 3, secondary |-> 4]
        /\ \A k \in 1 .. n : order[k] = Packs[k].slid /\ Nth(k) = EntryFor(Packs[k])
        /\ parser = "value" => sent.inValue # <<>>
    BY <1>1, <1>6, <2>1 DEF Found
  <2>5. List' = L /\ Done' = d + 1 /\ Packs' = Packs
    <3>1. List' = L /\ Packs' = Packs
      BY <1>3 DEF List, Packs
    <3>2. Done' = d + 1
      <4>1. sent.ffdc \in Seq(Packages) /\ Len(sent.ffdc) \in Nat
        BY <1>1, ContentsAre, ListTyped, LenProperties DEF Arrived
      <4>2. Done' = IF parser = "ffdc" THEN n + 1 ELSE n + 1 - Len(sent.ffdc)
        BY <1>3, <1>4 DEF Done
      <4>3. d = IF parser = "ffdc" THEN n ELSE n - Len(sent.ffdc)
        BY DEF Done
      <4>4. n \in Nat
        BY <1>4
      <4> HIDE DEF n, d
      <4>5. CASE parser = "ffdc"
        BY <4>2, <4>3, <4>5
      <4>6. CASE parser # "ffdc"
        <5>1. Done' = n + 1 - Len(sent.ffdc) /\ d = n - Len(sent.ffdc)
          BY <4>2, <4>3, <4>6
        <5>2. \A x, y \in Nat : x + 1 - y = x - y + 1
          OBVIOUS
        <5> QED BY <4>1, <4>4, <5>1, <5>2
      <4> QED BY <4>5, <4>6
    <3> QED BY <3>1, <3>2
  <2>6. Packs[n + 1] = p /\ n + 1 <= Len(Packs) /\ Len(Packs) \in Nat
    <3> DEFINE a == sent.ffdc
               b == sent.inValue
    <3>1. a \in Seq(Packages) /\ b \in Seq(Packages) /\ Len(a) \in Nat /\ Len(b) \in Nat
      BY <1>1, ContentsAre, ListTyped, LenProperties DEF Arrived
    <3>2. /\ Packs = a \o b
          /\ L = IF parser = "ffdc" THEN a ELSE b
          /\ d = IF parser = "ffdc" THEN n ELSE n - Len(a)
      BY DEF Packs, List, Done
    <3> HIDE DEF a, b, L, d, n
    <3>3. /\ Len(a \o b) = Len(a) + Len(b)
          /\ \A i \in 1 .. Len(a) : (a \o b)[i] = a[i]
          /\ \A i \in Len(a) + 1 .. Len(a) + Len(b) : (a \o b)[i] = b[i - Len(a)]
      BY <3>1, ConcatAt, Zenon
    <3>4. p = L[d + 1]
      BY DEF L, d
    <3> HIDE DEF p
    <3>5. CASE parser = "ffdc"
      <4>1. n + 1 \in 1 .. Len(a) /\ n + 1 <= Len(a) + Len(b) /\ L = a /\ d = n
        BY <1>4, <2>2, <3>1, <3>2, <3>5
      <4> QED BY <3>1, <3>2, <3>3, <3>4, <4>1
    <3>6. CASE parser = "value"
      <4>1. L = b /\ d = n - Len(a)
        BY <3>2, <3>6
      <4>2. n + 1 \in Len(a) + 1 .. Len(a) + Len(b) /\ n + 1 <= Len(a) + Len(b)
            /\ n + 1 - Len(a) = d + 1
        BY <1>4, <2>2, <3>1, <4>1
      <4> QED BY <3>1, <3>2, <3>3, <3>4, <4>1, <4>2
    <3> QED BY <1>6, <3>5, <3>6
  <2> HIDE DEF p, L, d
  <2>7. \A k \in 1 .. n + 1 :
          order'[k] = Packs[k].slid /\ Nth(k)' = EntryFor(Packs[k])
    <3>1. TAKE k \in 1 .. n + 1
    <3>2. CASE k = n + 1
      <4>1. Packs[k] = p
        BY <2>6, <3>2
      <4>2. order'[k] = s /\ Nth(k)' = e
        BY <1>4, <3>2
      <4> QED BY <2>3, <4>1, <4>2
    <3>3. CASE k # n + 1
      <4>1. k \in 1 .. n
        BY <1>4, <3>3
      <4> QED BY <1>4, <2>4, <4>1
    <3> QED BY <3>2, <3>3
  <2>8. (\A k \in 1 .. Len(order) : order[k] = Packs[k].slid /\ Nth(k) = EntryFor(Packs[k]))'
    BY <1>4, <2>5, <2>7
  <2>9. (Done \in 0 .. Len(List) /\ offset = start + Len(First(List, Done)))'
    <3>1. d + 1 \in 0 .. Len(L)
      BY <2>2
    <3>2. offset' = start' + Len(First(L, d + 1))
      BY <1>2, <1>3, <2>3
    <3> QED BY <2>5, <3>1, <3>2
  <2>10. Len(order') <= Len(Packs')
    BY <1>4, <2>5, <2>6
  <2>11. parser' # "done"
    BY <1>3, <1>6
  <2> QED BY <1>3, <2>4, <2>8, <2>9, <2>10, <2>11 DEF Found
<1>. QED
  BY <1>4, <1>5, <1>7, <1>8

\* Of an undamaged response every package fits.
LEMMA RejectPackageInv ==
  ASSUME ResponseInv, RejectPackage
  PROVE  Running' /\ Filed' /\ EntriesTile' /\ Found'
<1>1. Arrived /\ Running /\ Filed /\ EntriesTile /\ Found
  BY DEF ResponseInv
<1>2. /\ Parsing /\ MorePackages /\ ~PackageFits /\ rc' = EPROTO /\ parser' = "done"
      /\ sent' = sent /\ buf' = buf /\ intact' = intact /\ value' = value /\ sw' = sw
      /\ UNCHANGED <<src, start, offset, endOffset, ffdcMap, order>>
  BY DEF RejectPackage, inputs
<1>3. Filed' /\ EntriesTile'
  BY <1>1, <1>2, NothingStored
<1>4. Running'
  BY <1>1, <1>2 DEF Running, Parsing
<1>5. Found'
  <2>1. SUFFICES ASSUME intact, Len(buf) >= SBEFIFO_MIN_RESP_LEN PROVE FALSE
    BY <1>2 DEF Found
  <2>2. Done < Len(List)
    BY <1>1, <1>2, <2>1, NoPackageLeft
  <2> QED BY <1>1, <1>2, <2>1, <2>2, NextPackage
<1>. QED
  BY <1>3, <1>4, <1>5

\* A value is FFDC exactly when it starts like it.
LEMMA ValueIsFfdc ==
  ASSUME NEW c \in Contents
  PROVE  (c.value # <<>> /\ At(c.value, 0).hi = FFDC_MAGIC) <=> c.inValue # <<>>
<1>1. /\ c.inValue \in PackageLists /\ c.value \in Seq(Words)
      /\ c.inValue # <<>> => c.value = EncodeAll(c.inValue)
      /\ c.inValue = <<>> => \A i \in 1 .. Len(c.value) : c.value[i].hi = 0
      /\ Len(c.value) \in Nat
  BY ContentsAre
<1>2. At(c.value, 0) = c.value[1]
  BY DEF At
<1>3. CASE c.inValue = <<>>
  <2>1. ASSUME c.value # <<>> PROVE c.value[1].hi = 0
    <3>1. Len(c.value) # 0
      BY <1>1, <2>1, EmptySeq
    <3>2. 1 \in 1 .. Len(c.value)
      BY <1>1, <3>1
    <3> QED BY <1>1, <1>3, <3>2
  <2> QED BY <1>2, <1>3, <2>1 DEF FFDC_MAGIC
<1>4. CASE c.inValue # <<>>
  <2> DEFINE vs == c.inValue
             w == EncodeAll(vs)
  <2>1. vs \in Seq(Packages) /\ Len(vs) \in 0 .. MaxPackages /\ Len(vs) # 0
    BY <1>1, <1>4, ListTyped, EmptySeq
  <2>2. MaxPackages # 0 /\ 0 \in 0 .. Len(vs) - 1 /\ 1 \in 1 .. Len(vs) /\ 0 + 1 = 1
    BY <2>1, BoundsTyped
  <2>3. vs[1] \in Packages
    BY <2>1, <2>2, ElementOfSeq
  <2> DEFINE e == Encode(vs[1])
             k == Len(First(vs, 0))
  <2>4. k = 0
    BY <2>1, FirstAll
  <2>5. k + Len(e) <= Len(w) /\ \A i \in 1 .. Len(e) : w[k + i] = e[i]
    BY <2>1, <2>2, PackageAt
  <2>6. e[1].hi = FFDC_MAGIC /\ Len(e) = 4 + vs[1].data /\ vs[1].data \in 1 .. MaxData
    <3>1. /\ e[1] = Word(FFDC_MAGIC, HEADER_SIZE + vs[1].data)
          /\ Len(e) = HEADER_SIZE + vs[1].data /\ vs[1].data \in 1 .. MaxData
      BY <2>2, <2>3, EncodeIs
    <3> HIDE DEF e
    <3> QED BY <3>1 DEF Word, HEADER_SIZE
  <2>7. w \in Seq(Words) /\ Len(w) \in Nat /\ vs[1].data \in Nat
    BY <1>1, <2>6, ListEncoded, BoundsTyped
  <2> HIDE DEF e, k, w
  <2>8. 1 \in 1 .. Len(e) /\ k + 1 = 1 /\ Len(w) # 0
    BY <2>4, <2>5, <2>6, <2>7
  <2>9. w[1] = e[1] /\ w # <<>>
    BY <2>5, <2>7, <2>8, EmptySeq
  <2> QED BY <1>1, <1>2, <1>4, <2>6, <2>9 DEF w
<1>. QED
  BY <1>3, <1>4

\* The parser goes on to the value when that is FFDC.
LEMMA EndPackagesInv ==
  ASSUME ResponseInv, EndPackages
  PROVE  Running' /\ Filed' /\ EntriesTile' /\ Found'
<1> DEFINE turn == parser = "ffdc" /\ value # <<>> /\ At(value, 0).hi = FFDC_MAGIC
<1>1. Arrived /\ Running /\ Filed /\ EntriesTile /\ Found
  BY DEF ResponseInv
<1>2. /\ Parsing /\ ~MorePackages
      /\ sent' = sent /\ buf' = buf /\ intact' = intact
      /\ value' = value /\ sw' = sw /\ ffdcMap' = ffdcMap /\ order' = order /\ rc' = rc
      /\ IF turn
         THEN /\ parser' = "value" /\ src' = value /\ start' = 0 /\ offset' = 0
              /\ endOffset' = Len(value)
         ELSE /\ parser' = "done"
              /\ UNCHANGED <<src, start, offset, endOffset>>
  BY DEF EndPackages, inputs
<1>3. sent \in Contents
  BY <1>1 DEF Arrived
<1> DEFINE a == sent.ffdc
           b == sent.inValue
<1>4. /\ a \in Seq(Packages) /\ b \in Seq(Packages) /\ Len(a) \in Nat /\ Len(b) \in Nat
      /\ Packs = a \o b /\ Len(Packs) = Len(a) + Len(b)
  <2>1. a \in Seq(Packages) /\ b \in Seq(Packages)
    BY <1>3, ContentsAre, ListTyped
  <2> QED BY <2>1, ConcatAt, LenProperties DEF Packs
<1>5. /\ Packs' = Packs
      /\ parser = "ffdc" \/ parser = "value"
  BY <1>2 DEF Parsing, Packs
<1>6. \A k : Nth(k)' = Nth(k)
  BY <1>2 DEF Nth, Place
<1>7. /\ intact /\ Len(buf) >= SBEFIFO_MIN_RESP_LEN =>
           /\ rc = 0 /\ value = sent.value /\ sw = [primary |-> 3, secondary |-> 4]
           /\ Len(order) <= Len(Packs)
           /\ \A k \in 1 .. Len(order) :
                order[k] = Packs[k].slid /\ Nth(k) = EntryFor(Packs[k])
           /\ Done = Len(List)
           /\ turn => b # <<>>
           /\ parser = "ffdc" /\ ~turn => b = <<>>
  <2>1. SUFFICES ASSUME intact, Len(buf) >= SBEFIFO_MIN_RESP_LEN
        PROVE  /\ rc = 0 /\ value = sent.value /\ sw = [primary |-> 3, secondary |-> 4]
               /\ Len(order) <= Len(Packs)
               /\ \A k \in 1 .. Len(order) :
                    order[k] = Packs[k].slid /\ Nth(k) = EntryFor(Packs[k])
               /\ Done = Len(List)
               /\ turn => b # <<>>
               /\ parser = "ffdc" /\ ~turn => b = <<>>
    OBVIOUS
  <2>2. /\ rc = 0 /\ value = sent.value /\ sw = [primary |-> 3, secondary |-> 4]
        /\ Len(order) <= Len(Packs)
        /\ \A k \in 1 .. Len(order) :
             order[k] = Packs[k].slid /\ Nth(k) = EntryFor(Packs[k])
    BY <1>1, <1>5, <2>1 DEF Found
  <2>3. Done = Len(List)
    BY <1>1, <1>2, <2>1, NoPackageLeft
  <2>4. (value # <<>> /\ At(value, 0).hi = FFDC_MAGIC) <=> b # <<>>
    BY <1>3, <2>2, ValueIsFfdc
  <2> QED BY <2>2, <2>3, <2>4
<1> HIDE DEF a, b, turn
<1>8. Filed'
  BY <1>1, <1>2 DEF Filed
<1>9. (\A k \in 1 .. Len(order) : order[k] = Packs[k].slid /\ Nth(k) = EntryFor(Packs[k]))'
      <=> \A k \in 1 .. Len(order) : order[k] = Packs[k].slid /\ Nth(k) = EntryFor(Packs[k])
  BY <1>2, <1>5, <1>6
<1>10. CASE turn
  <2>1. parser' = "value" /\ src' = value /\ start' = 0 /\ offset' = 0 /\ endOffset' = Len(value)
    BY <1>2, <1>10
  <2>2. parser = "ffdc"
    BY <1>10 DEF turn
  <2>3. Running'
    <3> DEFINE v == Len(sent.value)
    <3>1. value = SubSeq(buf, 1, v)
      BY <1>1, <1>2 DEF Running
    <3>2. /\ v \in Nat /\ buf \in Seq(Words) /\ Len(buf) \in Nat /\ v <= Len(buf)
      <4>1. /\ Len(sent.value) \in Nat /\ Len(EncodeAll(sent.ffdc)) \in Nat
            /\ buf \in Seq(Words) /\ Len(buf) \in Nat
            /\ Len(buf) = Len(sent.value) + 3 + Len(EncodeAll(sent.ffdc))
        BY <1>1, HeaderFound
      <4> DEFINE f == Len(EncodeAll(sent.ffdc))
      <4> HIDE DEF v, f
      <4>2. v \in Nat /\ f \in Nat /\ buf \in Seq(Words) /\ Len(buf) \in Nat /\ Len(buf) = v + 3 + f
        BY <4>1 DEF v, f
      <4> QED BY <4>2
    <3> HIDE DEF v
    <3>3. /\ value \in Seq(Words) /\ Len(value) = v /\ \A i \in 1 .. v : value[i] = buf[i]
      <4> DEFINE w == SubSeq(buf, 1, v)
      <4>1. w \in Seq(Words)
        BY <3>2
      <4>2. Len(w) = v
        BY <3>2
      <4>3. \A i \in 1 .. v : w[i] = buf[i]
        BY <3>2
      <4> HIDE DEF w
      <4> QED BY <3>1, <4>1, <4>2, <4>3 DEF w
    <3>4. /\ {start', offset', endOffset'} \subseteq Nat
          /\ start' <= offset' /\ offset' <= endOffset'
          /\ endOffset' <= Len(src')
      BY <2>1, <3>2, <3>3
    <3>5. value' = SubSeq(buf', 1, Len(sent'.value))
      BY <1>2, <3>1 DEF v
    <3> QED BY <1>1, <1>2, <2>1, <3>2, <3>3, <3>4, <3>5 DEF Running
  <2>4. EntriesTile'
    <3>1. (Running /\ Filed /\ offset = start)' => EntriesTile'
      BY TileFromStart, PTL
    <3> QED BY <1>8, <2>1, <2>3, <3>1
  <2>5. Found'
    <3>1. SUFFICES ASSUME intact, Len(buf) >= SBEFIFO_MIN_RESP_LEN PROVE Found'
      BY <1>2 DEF Found
    <3>2. /\ rc = 0 /\ value = sent.value /\ sw = [primary |-> 3, secondary |-> 4]
          /\ Len(order) <= Len(Packs)
          /\ \A k \in 1 .. Len(order) :
               order[k] = Packs[k].slid /\ Nth(k) = EntryFor(Packs[k])
          /\ Done = Len(List) /\ b # <<>>
      BY <1>7, <1>10, <3>1
    <3>3. Len(order) = Len(a)
      BY <2>2, <3>2 DEF Done, List, a
    <3>4. List' = b /\ Done' = Len(order) - Len(a)
      BY <1>2, <2>1 DEF List, Done, a, b
    <3>5. List' = b /\ Done' = 0 /\ Len(First(b, 0)) = 0
      BY <1>4, <3>3, <3>4, FirstAll
    <3>6. (Done \in 0 .. Len(List) /\ offset = start + Len(First(List, Done)))'
      BY <1>4, <2>1, <3>5
    <3>7. parser' # "done" /\ sent'.inValue # <<>>
      BY <1>2, <2>1, <3>2 DEF b
    <3>8. (\A k \in 1 .. Len(order) : order[k] = Packs[k].slid /\ Nth(k) = EntryFor(Packs[k]))'
      BY <1>9, <3>2
    <3>9. rc' = 0 /\ value' = sent'.value /\ sw' = [primary |-> 3, secondary |-> 4]
          /\ Len(order') <= Len(Packs')
      BY <1>2, <1>5, <3>2
    <3> QED BY <3>6, <3>7, <3>8, <3>9 DEF Found
  <2> QED BY <1>8, <2>3, <2>4, <2>5
<1>11. CASE ~turn
  <2>1. parser' = "done" /\ UNCHANGED <<src, start, offset, endOffset>>
    BY <1>2, <1>11
  <2>2. EntriesTile'
    BY <1>1, <1>2, <2>1, NothingStored
  <2>3. Running'
    BY <1>1, <1>2, <2>1 DEF Running, Parsing
  <2>4. Found'
    <3>1. SUFFICES ASSUME intact, Len(buf) >= SBEFIFO_MIN_RESP_LEN PROVE Found'
      BY <1>2 DEF Found
    <3>2. /\ rc = 0 /\ value = sent.value /\ sw = [primary |-> 3, secondary |-> 4]
          /\ Len(order) <= Len(Packs)
          /\ \A k \in 1 .. Len(order) :
               order[k] = Packs[k].slid /\ Nth(k) = EntryFor(Packs[k])
          /\ Done = Len(List)
          /\ parser = "ffdc" => b = <<>>
      BY <1>7, <1>11, <3>1
    <3>3. Len(order) = Len(Packs)
      <4>1. order \in Seq(Slids) /\ Len(order) \in Nat
        BY <1>1, LenProperties DEF Filed
      <4>2. CASE parser = "ffdc"
        <5>1. Len(order) = Len(a) /\ b = <<>> /\ Len(b) = 0
          BY <3>2, <4>2 DEF Done, List, a
        <5> QED BY <1>4, <5>1
      <4>3. CASE parser = "value"
        <5>1. Len(order) - Len(a) = Len(b)
          BY <3>2, <4>3 DEF Done, List, a, b
        <5>2. \A x, y, z \in Nat : x - y = z => x = y + z
          OBVIOUS
        <5> QED BY <1>4, <4>1, <5>1, <5>2
      <4> QED BY <1>5, <4>2, <4>3
    <3>4. parser' = "done" /\ Len(order') = Len(Packs')
      BY <1>2, <1>5, <2>1, <3>3
    <3>5. ~Parsing'
      BY <3>4 DEF Parsing
    <3>8. (\A k \in 1 .. Len(order) : order[k] = Packs[k].slid /\ Nth(k) = EntryFor(Packs[k]))'
      BY <1>9, <3>2
    <3>9. rc' = 0 /\ value' = sent'.value /\ sw' = [primary |-> 3, secondary |-> 4]
          /\ Len(order') <= Len(Packs')
      BY <1>2, <1>5, <3>2
    <3> QED BY <3>4, <3>5, <3>8, <3>9 DEF Found
  <2> QED BY <1>8, <2>2, <2>3, <2>4
<1>. QED
  BY <1>10, <1>11

\* Nothing has been found at first.
LEMMA ResponseInitInv == ResponseInit => ResponseInv
<1> SUFFICES ASSUME ResponseInit PROVE ResponseInv
  OBVIOUS
<1>1. Arrived
  BY InitArrived
<1>2. /\ parser = "response" /\ src = <<>> /\ start = 0 /\ offset = 0 /\ endOffset = 0
      /\ sw = [primary |-> 0, secondary |-> 0] /\ order = <<>> /\ rc = 0
      /\ ffdcMap = [s \in Slids |-> <<>>]
  BY DEF ResponseInit
<1>3. Running
  <2>1. src \in Seq(Words) /\ Len(src) = 0 /\ Len(buf) \in Nat
    BY <1>1, <1>2, LenProperties DEF Arrived, Shaped
  <2>2. sw \in [primary : 0 .. HalfModulus - 1, secondary : 0 .. HalfModulus - 1]
    BY <1>2, BoundsTyped
  <2> QED BY <1>2, <2>1, <2>2 DEF Running, Parsing
<1>4. Filed
  <2>1. order \in Seq(Slids) /\ Len(order) = 0 /\ ffdcMap \in [Slids -> Seq(Entries)]
    BY <1>2
  <2>2. \A s \in Slids : {k \in 1 .. Len(order) : order[k] = s} = {}
    BY <2>1
  <2>3. \A s \in Slids : Len(ffdcMap[s]) = 0
    BY <1>2
  <2> QED BY <2>1, <2>2, <2>3, FS_EmptySet DEF Filed
<1>5. EntriesTile
  BY <1>2, <1>3, <1>4, TileFromStart
<1>6. Found
  BY <1>2 DEF Found
<1>. QED
  BY <1>1, <1>3, <1>4, <1>5, <1>6 DEF ResponseInv

\* No step breaks the invariant.
LEMMA ResponseStepInv == ResponseInv /\ [ResponseNext]_responseVars => ResponseInv'
<1> SUFFICES ASSUME ResponseInv, [ResponseNext]_responseVars PROVE ResponseInv'
  OBVIOUS
<1>1. Arrived /\ Running /\ Filed /\ EntriesTile /\ Found
  BY DEF ResponseInv
<1>2. ASSUME UNCHANGED inputs PROVE Arrived'
  BY <1>1, <1>2 DEF Arrived, inputs
<1>3. CASE ParseResponse
  <2>1. Arrived'
    BY <1>2, <1>3 DEF ParseResponse
  <2> QED BY <1>3, <2>1, ParseResponseInv DEF ResponseInv
<1>4. CASE ParsePackage
  <2>1. Arrived'
    BY <1>2, <1>4 DEF ParsePackage
  <2> QED BY <1>4, <2>1, ParsePackageInv DEF ResponseInv
<1>5. CASE RejectPackage
  <2>1. Arrived'
    BY <1>2, <1>5 DEF RejectPackage
  <2> QED BY <1>5, <2>1, RejectPackageInv DEF ResponseInv
<1>6. CASE EndPackages
  <2>1. Arrived'
    BY <1>2, <1>6 DEF EndPackages
  <2> QED BY <1>6, <2>1, EndPackagesInv DEF ResponseInv
<1>7. CASE UNCHANGED responseVars
  <2>1. Arrived'
    BY <1>2, <1>7 DEF responseVars, inputs
  <2>2. Running'
    BY <1>1, <1>7 DEF Running, Parsing, responseVars
  <2>3. Filed' /\ EntriesTile' /\ \A k : Nth(k)' = Nth(k)
    BY <1>1, <1>7, NothingStored DEF responseVars
  <2>4. Found'
    <3>1. Packs' = Packs /\ List' = List /\ Done' = Done
      BY <1>7 DEF responseVars, Packs, List, Done
    <3>2. (\A k \in 1 .. Len(order) : order[k] = Packs[k].slid /\ Nth(k) = EntryFor(Packs[k]))'
          <=> \A k \in 1 .. Len(order) : order[k] = Packs[k].slid /\ Nth(k) = EntryFor(Packs[k])
      BY <1>7, <2>3, <3>1 DEF responseVars
    <3>3. (Done \in 0 .. Len(List) /\ offset = start + Len(First(List, Done)))'
          <=> (Done \in 0 .. Len(List) /\ offset = start + Len(First(List, Done)))
      BY <1>7, <3>1 DEF responseVars
    <3>4. Parsing' = Parsing
      BY <1>7 DEF responseVars, Parsing
    <3> HIDE DEF First, Parsing
    <3> QED BY <1>1, <1>7, <3>1, <3>2, <3>3, <3>4 DEF Found, responseVars
  <2> QED BY <2>1, <2>2, <2>3, <2>4 DEF ResponseInv
<1>. QED
  BY <1>3, <1>4, <1>5, <1>6, <1>7 DEF ResponseNext, Finished

\* The invariant of the response parser holds for every number of packages, size of a
\* package and damage, as long as a response's length fits its distance word.
THEOREM ResponseInvHolds == ResponseSpec => []ResponseInv
  BY ResponseInitInv, ResponseStepInv, PTL DEF ResponseSpec

\* parseSBEFFDC's offset stays between where it began and endOffset, and that inside
\* its words; every entry stored has the fields of main's map (L472-523).
THEOREM ResponseTypeCorrect == ResponseSpec => []ResponseTypeOK
<1>1. ResponseInv => ResponseTypeOK
  <2> SUFFICES ASSUME ResponseInv PROVE ResponseTypeOK
    OBVIOUS
  <2>1. Running /\ Filed
    BY DEF ResponseInv
  <2>2. /\ parser \in {"response", "ffdc", "value", "done"} /\ rc \in {0, EPROTO}
        /\ start \in Nat /\ offset \in Nat /\ endOffset \in Nat /\ offset <= endOffset
        /\ src \in Seq(Words) /\ Len(src) \in Nat /\ endOffset <= Len(src)
        /\ sw \in [primary : 0 .. HalfModulus - 1, secondary : 0 .. HalfModulus - 1]
    BY <2>1, LenProperties DEF Running
  <2>3. ffdcMap \in [Slids -> Seq(Entries)]
    BY <2>1 DEF Filed
  <2>4. ASSUME NEW s \in Slids, NEW i \in 1 .. Len(ffdcMap[s])
        PROVE  DOMAIN ffdcMap[s][i] = {"data", "fapiRc", "severity"}
    <3>1. ffdcMap[s] \in Seq(Entries)
      BY <2>3
    <3>2. ffdcMap[s][i] \in Entries
      BY <3>1, ElementOfSeq
    <3> QED BY <3>2 DEF Entries
  <2> QED BY <2>2, <2>3, <2>4 DEF ResponseTypeOK
<1>. QED
  BY <1>1, ResponseInvHolds, PTL

\* Whatever the damage, the entries the running parser stored are, end to end, the
\* words it has passed: none is skipped, stored twice or cut (L481-523).
THEOREM EntriesStayTiled == ResponseSpec => []EntriesTile
<1>1. ResponseInv => EntriesTile
  BY DEF ResponseInv
<1>. QED
  BY <1>1, ResponseInvHolds, PTL

\* parseSBEResponse and the two runs of parseSBEFFDC take an undamaged response apart
\* into what it was made of: its value, its status, and every package of the response,
\* then of the value, under its SLID in the order they were sent (L422-623).
THEOREM ResponseComesApart == ResponseSpec => []RoundTrip
<1>1. ResponseInv => RoundTrip
  <2> SUFFICES ASSUME ResponseInv, parser = "done", intact, Len(buf) >= SBEFIFO_MIN_RESP_LEN
      PROVE  LET packages == sent.ffdc \o sent.inValue
                 slids    == [k \in 1 .. Len(packages) |-> packages[k].slid]
             IN  /\ rc = 0
                 /\ value = sent.value
                 /\ sw = [primary |-> 3, secondary |-> 4]
                 /\ \A k \in 1 .. Len(packages) :
                      ffdcMap[slids[k]][Place(slids, k)] = EntryFor(packages[k])
                 /\ \A s \in Slids :
                      Len(ffdcMap[s]) = Cardinality({k \in 1 .. Len(packages) : slids[k] = s})
    BY DEF RoundTrip
  <2> DEFINE slids == [k \in 1 .. Len(Packs) |-> Packs[k].slid]
  <2>1. Arrived /\ Filed /\ Found
    BY DEF ResponseInv
  <2>2. /\ rc = 0 /\ value = sent.value /\ sw = [primary |-> 3, secondary |-> 4]
        /\ Len(order) = Len(Packs)
        /\ \A k \in 1 .. Len(order) :
             order[k] = Packs[k].slid /\ Nth(k) = EntryFor(Packs[k])
    BY <2>1 DEF Found
  <2>3. /\ order \in Seq(Slids) /\ Len(order) \in Nat
        /\ \A s \in Slids : Len(ffdcMap[s]) = Cardinality({k \in 1 .. Len(order) : order[k] = s})
    BY <2>1, LenProperties DEF Filed
  <2>4. \A k \in 1 .. Len(order) : slids[k] = order[k]
    BY <2>2
  <2> HIDE DEF slids
  <2>5. ASSUME NEW k \in 1 .. Len(order)
        PROVE  ffdcMap[slids[k]][Place(slids, k)] = EntryFor(Packs[k])
    <3>1. {j \in 1 .. k : slids[j] = slids[k]} = {j \in 1 .. k : order[j] = order[k]}
      BY <2>3, <2>4
    <3>2. Place(slids, k) = Place(order, k)
      BY <3>1 DEF Place
    <3> QED BY <2>2, <2>4, <3>2 DEF Nth
  <2>6. ASSUME NEW s \in Slids
        PROVE  Len(ffdcMap[s]) = Cardinality({k \in 1 .. Len(order) : slids[k] = s})
    <3>1. {k \in 1 .. Len(order) : slids[k] = s} = {k \in 1 .. Len(order) : order[k] = s}
      BY <2>4
    <3> QED BY <2>3, <3>1
  <2> QED BY <2>2, <2>5, <2>6 DEF slids, Packs
<1>. QED
  BY <1>1, ResponseInvHolds, PTL

\* Every turn of parseSBEFFDC's loop gets it ahead, unless the package it is at
\* announces length 0 (L496, L522).
THEOREM ParserGetsAhead == ResponseSpec => ParserAdvances
<1>1. ResponseInv /\ [ResponseNext]_responseVars =>
        [\/ parser' # parser
         \/ offset' > offset
         \/ Parsing /\ MorePackages /\ PackageFits /\ Announced = 0]_responseVars
  <2> SUFFICES ASSUME ResponseInv, [ResponseNext]_responseVars
               PROVE  [\/ parser' # parser
                       \/ offset' > offset
                       \/ Parsing /\ MorePackages /\ PackageFits /\ Announced = 0]_responseVars
    OBVIOUS
  <2>1. Arrived /\ Running
    BY DEF ResponseInv
  <2>2. CASE ParseResponse
    BY <2>2 DEF ParseResponse
  <2>3. CASE ParsePackage
    <3>1. /\ Parsing /\ MorePackages /\ PackageFits
          /\ Announced \in Nat /\ offset' = offset + Announced
      BY <2>1, <2>3, StoredWhat
    <3>2. offset \in Nat
      BY <2>1 DEF Running
    <3> QED BY <3>1, <3>2
  <2>4. CASE RejectPackage
    BY <2>4 DEF RejectPackage, Parsing
  <2>5. CASE EndPackages
    BY <2>5 DEF EndPackages, Parsing
  <2>6. CASE UNCHANGED responseVars
    BY <2>6
  <2> QED BY <2>2, <2>3, <2>4, <2>5, <2>6 DEF ResponseNext, Finished
<1>. QED
  BY <1>1, ResponseInvHolds, PTL DEF ResponseSpec, ParserAdvances

=============================================================================
