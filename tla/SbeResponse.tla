---------------------------- MODULE SbeResponse ----------------------------
(***************************************************************************)
(* ffdcparse/ffdc.C: main takes the buffer an SBE answered a chip-op with,  *)
(* splits it (parseSBEResponse) into value, status and FFDC, and sorts the  *)
(* FFDC packages by SLID (parseSBEFFDC); a value that is itself FFDC is     *)
(* sorted in as well.                                                       *)
(*                                                                         *)
(*    value ... | 0xC0DE.... | status | FFDC packages ... | distance        *)
(*                                                                         *)
(* The unit is the 4-byte word the code calls WORD_SIZE: the buffer is made *)
(* of words (convertToBytes), and every offset of the parsers is a multiple *)
(* of 4.  A word is its two halves.                                         *)
(***************************************************************************)
EXTENDS Integers, Sequences, FiniteSets, SequencesExt

CONSTANTS
  Slids,            \* the SLIDs of the packages
  MaxPackages,      \* bound: packages in the FFDC, and in the value
  MaxData,          \* bound: data words of a package
  MaxValue,         \* bound: words of a value that is no FFDC
  DamagedLengths,   \* lengths a damaged package header may announce
  MaxEntries,       \* bound: a package of length 0 is stored this often
  HalfModulus,      \* 2^16 in the code
  SizeModulus       \* size_t, in words: 2^30 or more in the code

\* The halves that identify a package and the status block: 0xFBAD, 0xC0DE.
FFDC_MAGIC   == 1
MAGIC_HEADER == 2

ASSUME SizesAssumption ==
  /\ Slids \subseteq 1 .. HalfModulus - 1
  /\ Slids \cap {FFDC_MAGIC, MAGIC_HEADER} = {}
  /\ {MaxPackages, MaxData, MaxValue, MaxEntries, HalfModulus, SizeModulus} \subseteq Nat
  /\ DamagedLengths \subseteq 0 .. HalfModulus - 1
  /\ 2 * (4 + MaxData) * MaxPackages + MaxValue + 3 < HalfModulus
  /\ 4 < HalfModulus
  /\ HalfModulus <= SizeModulus

Word(h, l) == [hi |-> h, lo |-> l]
Full(w)    == w.hi * HalfModulus + w.lo

HEADER_SIZE          == 4   \* sizeof(pozFfdcHeader)
STATUS_RESP_SIZE     == 3
SBEFIFO_MIN_RESP_LEN == 4
FFDC_HEADER_LEN      == 5

EPROTO == 71

-----------------------------------------------------------------------------
(* What an SBE sends: the format of L461-472. *)

Packages == [slid : Slids, data : 1 .. MaxData]
PackageLists == BoundedSeq(Packages, MaxPackages)

\* Length, sequence id and command, SLID and severity, return code, data.
Encode(p) ==
  <<Word(FFDC_MAGIC, HEADER_SIZE + p.data), Word(0, 0), Word(p.slid, p.data), Word(0, p.slid)>>
    \o [i \in 1 .. p.data |-> Word(0, i)]

EncodeAll(ps) == FlattenSeq([i \in 1 .. Len(ps) |-> Encode(ps[i])])

\* A value is data words or, from some chip-ops, FFDC.
Contents ==
  {[value |-> v, inValue |-> <<>>, ffdc |-> ps] :
     v \in {[i \in 1 .. n |-> Word(0, i)] : n \in 0 .. MaxValue}, ps \in PackageLists}
  \cup
  {[value |-> EncodeAll(vs), inValue |-> vs, ffdc |-> ps] :
     vs \in PackageLists \ {<<>>}, ps \in PackageLists}

Respond(c) ==
  LET ffdc == EncodeAll(c.ffdc) IN
  c.value \o <<Word(MAGIC_HEADER, 0), Word(3, 4)>> \o ffdc
    \o <<Word(0, STATUS_RESP_SIZE + Len(ffdc))>>

\* The response with one package header announcing another length.
Damaged(b) ==
  {[b EXCEPT ![i].lo = n] :
     i \in {k \in 1 .. Len(b) : b[k].hi = FFDC_MAGIC}, n \in DamagedLengths}

-----------------------------------------------------------------------------

VARIABLES
  sent,           \* history: what the SBE answered
  intact,         \* history: the response arrived undamaged
  buf,            \* the input buffer
  parser,         \* the parser that runs
  src,            \* the words parseSBEFFDC works on
  start,          \* history: where it began
  offset,         \* its offset
  endOffset,      \* its endOffset
  value,          \* the value that was found
  sw,             \* primary and secondary status
  ffdcMap,        \* SLID -> entries
  order,          \* history: the SLIDs in the order the entries were stored
  rc              \* main's result: 0 or EPROTO

responseVars == <<sent, intact, buf, parser, src, start, offset, endOffset, value, sw,
                  ffdcMap, order, rc>>
inputs == <<sent, intact, buf>>

ResponseTypeOK ==
  /\ parser \in {"response", "ffdc", "value", "done"}
  /\ offset \in 0 .. endOffset
  /\ endOffset \in 0 .. Len(src)
  /\ sw \in [primary : 0 .. HalfModulus - 1, secondary : 0 .. HalfModulus - 1]
  /\ DOMAIN ffdcMap = Slids
  /\ \A s \in Slids : \A i \in 1 .. Len(ffdcMap[s]) :
       DOMAIN ffdcMap[s][i] = {"data", "fapiRc", "severity"}
  /\ rc \in {0, EPROTO}

ResponseInit ==
  /\ sent \in Contents
  /\ intact \in BOOLEAN
  /\ buf \in IF intact THEN {Respond(sent)} ELSE Damaged(Respond(sent))
  /\ parser = "response"
  /\ src = <<>>
  /\ start = 0
  /\ offset = 0
  /\ endOffset = 0
  /\ value = <<>>
  /\ sw = [primary |-> 0, secondary |-> 0]
  /\ ffdcMap = [s \in Slids |-> <<>>]
  /\ order = <<>>
  /\ rc = 0

-----------------------------------------------------------------------------
(* parseSBEResponse. *)

\* The word at a C offset.
At(words, i) == words[i + 1]

\* The last word says how far before the end of the buffer the header is.
HeaderOffset == (Len(buf) - Full(Last(buf))) % SizeModulus

GoodResponse ==
  /\ Len(buf) >= SBEFIFO_MIN_RESP_LEN
  /\ (HeaderOffset + 2) % SizeModulus <= Len(buf)
  /\ At(buf, HeaderOffset).hi = MAGIC_HEADER

\* The distance word is no FFDC.
FfdcEnd == Len(buf) - 1

ParseResponse ==
  /\ parser = "response"
  /\ IF GoodResponse
     THEN /\ sw' = [primary |-> At(buf, HeaderOffset + 1).hi,
                        secondary |-> At(buf, HeaderOffset + 1).lo]
          /\ value' = SubSeq(buf, 1, HeaderOffset)
          /\ parser' = "ffdc"
          /\ src' = buf
          /\ offset' = IF Len(buf) > HeaderOffset + STATUS_RESP_SIZE
                       THEN HeaderOffset + 2 ELSE FfdcEnd
          /\ start' = offset'
          /\ endOffset' = FfdcEnd
          /\ UNCHANGED rc
     ELSE /\ parser' = "done"
          /\ rc' = EPROTO
          /\ UNCHANGED <<sw, value, src, start, offset, endOffset>>
  /\ UNCHANGED inputs
  /\ UNCHANGED <<ffdcMap, order>>

-----------------------------------------------------------------------------
(* parseSBEFFDC, on the FFDC of the response (parser = "ffdc") or on the value. *)

Parsing == parser \in {"ffdc", "value"}

MorePackages == offset + HEADER_SIZE <= endOffset

Announced == At(src, offset).lo

PackageFits ==
  /\ At(src, offset).hi = FFDC_MAGIC
  /\ offset + Announced <= endOffset

\* A fault: the header is left out.
EntryPayload ==
  [data     |-> SubSeq(src, offset + HEADER_SIZE + 1, offset + Announced),
   fapiRc   |-> Full(At(src, offset + 3)),
   severity |-> At(src, offset + 2).lo]

Entry ==
  [data     |-> SubSeq(src, offset + 1, offset + Announced),
   fapiRc   |-> Full(At(src, offset + 3)),
   severity |-> At(src, offset + 2).lo]

\* Faults: the next package is looked for behind the header, or where the last
\* one was.
NextOffsetHeader == offset + HEADER_SIZE
NextOffsetSame   == offset

NextOffset == offset + Announced

\* One turn of the loop stores a package.  The turns at a package of length 0
\* never end: the model makes them until MaxEntries entries are stored.
ParsePackage ==
  /\ Parsing
  /\ MorePackages
  /\ PackageFits
  /\ Announced > 0 \/ Len(order) < MaxEntries
  /\ LET slid == At(src, offset + 2).hi IN
       /\ ffdcMap' = [ffdcMap EXCEPT ![slid] = Append(@, Entry)]
       /\ order' = Append(order, slid)
  /\ offset' = NextOffset
  /\ UNCHANGED inputs
  /\ UNCHANGED <<parser, src, start, endOffset, value, sw, rc>>

\* A package without the magic, or that overruns the buffer: what was stored
\* before it stays in the map.
RejectPackage ==
  /\ Parsing
  /\ MorePackages
  /\ ~PackageFits
  /\ rc' = EPROTO
  /\ parser' = "done"
  /\ UNCHANGED inputs
  /\ UNCHANGED <<src, start, offset, endOffset, value, sw, ffdcMap, order>>

\* The loop is over.  After the response main parses a value that starts with
\* the FFDC magic.
EndPackages ==
  /\ Parsing
  /\ ~MorePackages
  /\ IF parser = "ffdc" /\ value # <<>> /\ At(value, 0).hi = FFDC_MAGIC
     THEN /\ parser' = "value"
          /\ src' = value
          /\ start' = 0
          /\ offset' = 0
          /\ endOffset' = Len(value)
     ELSE /\ parser' = "done"
          /\ UNCHANGED <<src, start, offset, endOffset>>
  /\ UNCHANGED inputs
  /\ UNCHANGED <<value, sw, ffdcMap, order, rc>>

\* The parser is done, or turns for ever.
Finished ==
  /\ \/ parser = "done"
     \/ Parsing /\ MorePackages /\ Announced = 0 /\ Len(order) >= MaxEntries
  /\ UNCHANGED responseVars

ResponseNext ==
  \/ ParseResponse
  \/ ParsePackage
  \/ RejectPackage
  \/ EndPackages
  \/ Finished

ResponseSpec == ResponseInit /\ [][ResponseNext]_responseVars

-----------------------------------------------------------------------------
(* Properties. *)

\* Which of the first k SLIDs that are one SLID the k-th is.
Place(slids, k) == Cardinality({j \in 1 .. k : slids[j] = slids[k]})

\* The entry that was stored as the k-th of all.
Nth(k) == ffdcMap[order[k]][Place(order, k)]

EntryFor(p) == [data |-> Encode(p), fapiRc |-> p.slid, severity |-> p.data]

\* What was sent is what is found: an undamaged response with at least one word
\* besides its status block is taken apart into the value, status and packages it
\* was made of.  Each package, first the response's, then those in the value, is the
\* next entry under its SLID, and there are no other entries (L422-623).
RoundTrip ==
  parser = "done" /\ intact /\ Len(buf) >= SBEFIFO_MIN_RESP_LEN =>
    LET packages == sent.ffdc \o sent.inValue
        slids    == [k \in 1 .. Len(packages) |-> packages[k].slid]
    IN  /\ rc = 0
        /\ value = sent.value
        /\ sw = [primary |-> 3, secondary |-> 4]
        /\ \A k \in 1 .. Len(packages) :
             ffdcMap[slids[k]][Place(slids, k)] = EntryFor(packages[k])
        /\ \A s \in Slids :
             Len(ffdcMap[s]) = Cardinality({k \in 1 .. Len(packages) : slids[k] = s})

\* The entries stored by the running parser, laid end to end, are the words it
\* has passed: none is skipped, stored twice or cut, damaged response or not,
\* and also when a later package is rejected (L481-523).
EntriesTile ==
  IsSuffix(SubSeq(src, start + 1, offset),
           FlattenSeq([k \in 1 .. Len(order) |-> Nth(k).data]))

\* Every turn of the loop gets the parser ahead, so it ends, unless the package
\* it is at announces length 0: that one is stored for ever (L496, L522).
ParserAdvances ==
  [][\/ parser' # parser
     \/ offset' > offset
     \/ Parsing /\ MorePackages /\ PackageFits /\ Announced = 0]_responseVars

=============================================================================
