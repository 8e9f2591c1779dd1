---------------------------- MODULE MC_Libraries ----------------------------
(***************************************************************************)
(* The code that is called and works in memory, without a process or a     *)
(* message of its own: entity paths, the target service, the parser of SBE  *)
(* responses and the FFDC context.  They know nothing of each other: in a   *)
(* behaviour one of them runs, and the others stay in their first state.    *)
(***************************************************************************)
EXTENDS EntityPath, TargetService, SbeResponse, FfdcContext

Hdr(n) == [magic |-> TRUE, len |-> n]
Other   == [magic |-> FALSE, len |-> 0]
Buffer(words, rest) == [words |-> words, rest |-> rest]

\* Nothing; two packages; one and the head of another; one that is cut, and one
\* that is cut within a word; one that announces nothing, before another; one
\* behind a word that is no head.
MCBuffers == {
  Buffer(<<>>, 0),
  Buffer(<<Hdr(4), Other, Other, Other, Hdr(3), Other, Other>>, 0),
  Buffer(<<Hdr(3), Other, Other, Hdr(3)>>, 2),
  Buffer(<<Hdr(5), Other, Other, Other>>, 0),
  Buffer(<<Hdr(3), Other>>, 3),
  Buffer(<<Hdr(0), Other, Other, Hdr(3), Other, Other>>, 1),
  Buffer(<<Other, Hdr(3), Other, Other>>, 0)}

\* Its magic is that of a POZ SBE, not the one the dump looks for.
MCTestData == Buffer([n \in 1 .. 12 |-> Other], 0)

VARIABLE library   \* the one that runs

\* What the three others are given.
NoContents == [value |-> <<>>, inValue |-> <<>>, ffdc |-> <<>>]
OneNode    == CHOOSE b \in Blobs : Len(b) = 1

LibrariesInit ==
  /\ library \in {"paths", "service", "response", "context"}
  /\ library = "paths" \/ path = [o \in Objects |-> Empty(NA)]
  /\ library = "service" \/ depths = OneNode
  /\ library = "response" \/ (sent = NoContents /\ intact = TRUE)
  /\ PathInit /\ Init /\ ResponseInit /\ ContextInit

RunPaths    == library = "paths" /\ PathNext /\ UNCHANGED <<vars, responseVars, contextVars>>
RunService  == library = "service" /\ Next /\ UNCHANGED <<pathVars, responseVars, contextVars>>
RunResponse == library = "response" /\ ResponseNext /\ UNCHANGED <<pathVars, vars, contextVars>>
RunContext  == library = "context" /\ ContextNext /\ UNCHANGED <<pathVars, vars, responseVars>>

LibrariesNext ==
  /\ RunPaths \/ RunService \/ RunResponse \/ RunContext
  /\ UNCHANGED library

LibrariesSpec ==
  LibrariesInit /\ [][LibrariesNext]_<<library, pathVars, vars, responseVars, contextVars>>

=============================================================================
