--------------------------- MODULE TargetService ---------------------------
(***************************************************************************)
(* pdbg_targeting: TargetService::init maps a device-tree blob              *)
(* (DeviceTreeLoader) and parses it into a tree of targets; getAllTargets   *)
(* walks the tree lazily, as a generator that its client resumes.  Every    *)
(* step of init may fail, and a client whose call failed may call again.    *)
(*                                                                         *)
(* A blob is given by the depths of its nodes in the order of their         *)
(* offsets, as far as it can be read: libfdt's functions (external) go by   *)
(* the nodes' tags, and one that meets damage ends the loop that called it  *)
(* as if the blob ended there.  A target is its node's number in the blob.  *)
(***************************************************************************)
EXTENDS Naturals, Sequences, FiniteSetsExt, SequencesExt

CONSTANT MaxNodes     \* bound: nodes of a blob

ASSUME MaxNodesAssumption == MaxNodes \in Nat \ {0}

\* No node, no target, no loader.
None == 0

\* The first node is the root; a node lies at most one below the node before.
Blobs ==
  {d \in UNION {[1 .. n -> 0 .. MaxNodes - 1] : n \in 1 .. MaxNodes} :
     d[1] = 0 /\ \A i \in 2 .. Len(d) : d[i] \in 1 .. d[i - 1] + 1}

VARIABLES
  depths,       \* the blob
  op,           \* where init is, "idle" when it is not called
  fds,          \* the loaders whose file is open
  maps,         \* the loaders whose mapping exists
  loader,       \* _loader
  children,     \* target -> its _children
  parent,       \* target -> its _parent
  stack,        \* the calls of parseNode: their target and the loop's child
  root,         \* _root
  rootFdt,      \* the loader whose blob the targets point into
  initialized,  \* _initialized
  walk,         \* the generators of a walk: their target and its next child
  seen          \* what the walk has yielded

service == <<loader, root, rootFdt, initialized>>
tree    == <<children, parent>>
vars    == <<depths, op, fds, maps, service, tree, stack, walk, seen>>

Targets == 1 .. MaxNodes
Nodes   == 1 .. Len(depths)
Loaders == {1, 2}

Ops == {"idle", "open", "fstat", "mmap", "check_header", "assign", "path_offset", "parse"}

TypeOK ==
  /\ depths \in Blobs
  /\ op \in Ops
  /\ fds \subseteq Loaders
  /\ maps \subseteq Loaders
  /\ loader \in Loaders \cup {None}
  /\ children \in [Targets -> Seq(Targets)]
  /\ parent \in [Targets -> Targets \cup {None}]
  /\ stack \in Seq([target : Targets, child : Targets \cup {None}])
  /\ root \in Targets \cup {None}
  /\ rootFdt \in Loaders \cup {None}
  /\ initialized \in BOOLEAN
  /\ walk \in Seq([target : Targets, next : 1 .. MaxNodes])
  /\ seen \in Seq(Targets)

NoTree ==
  /\ children = [t \in Targets |-> <<>>]
  /\ parent = [t \in Targets |-> None]

Init ==
  /\ depths \in Blobs
  /\ op = "idle"
  /\ fds = {} /\ maps = {}
  /\ loader = None /\ root = None /\ rootFdt = None /\ initialized = FALSE
  /\ NoTree
  /\ stack = <<>> /\ walk = <<>> /\ seen = <<>>

-----------------------------------------------------------------------------
(* The loader. *)

\* The loader under construction, beside the one in _loader.
New == IF loader = 1 THEN 2 ELSE 1

\* A fault: a second init loads the blob again.
InitAgain == TRUE

InitNeeded == ~initialized

CallInit ==
  /\ op = "idle"
  /\ InitNeeded
  /\ op' = "open"
  /\ UNCHANGED <<depths, fds, maps, service, tree, stack, walk, seen>>

\* The exception leaves init; what the constructor has not released stays.
Throws == op' = "idle" /\ UNCHANGED <<depths, service, tree, stack, walk, seen>>
Goes(to) == op' = to /\ UNCHANGED <<depths, service, tree, stack, walk, seen>>

Open ==
  /\ op = "open"
  /\ \/ Throws /\ UNCHANGED <<fds, maps>>
     \/ Goes("fstat") /\ fds' = fds \cup {New} /\ UNCHANGED maps

Fstat ==
  /\ op = "fstat"
  /\ \/ Throws /\ fds' = fds \ {New} /\ UNCHANGED maps
     \/ Goes("mmap") /\ UNCHANGED <<fds, maps>>

Mmap ==
  /\ op = "mmap"
  /\ \/ Throws /\ fds' = fds \ {New} /\ UNCHANGED maps
     \/ Goes("check_header") /\ maps' = maps \cup {New} /\ UNCHANGED fds

\* A fault: the file stays open.
OnlyUnmap == maps' = maps \ {New} /\ UNCHANGED fds

ReleaseBoth == maps' = maps \ {New} /\ fds' = fds \ {New}

CheckHeader ==
  /\ op = "check_header"
  /\ \/ Throws /\ ReleaseBoth
     \/ Goes("assign") /\ UNCHANGED <<fds, maps>>

\* The new loader takes the place of the old one, whose destructor runs.
Assign ==
  /\ op = "assign"
  /\ op' = "path_offset"
  /\ loader' = New
  /\ maps' = maps \ {loader}
  /\ fds' = fds \ {loader}
  /\ UNCHANGED <<depths, root, rootFdt, initialized, tree, stack, walk, seen>>

-----------------------------------------------------------------------------
(* The parser. *)

\* libfdt: the first node below node i, and the next one beside it.
first_subnode(i) ==
  IF i < Len(depths) /\ depths[i + 1] = depths[i] + 1 THEN i + 1 ELSE None

next_subnode(i) ==
  LET after == {j \in i + 1 .. Len(depths) : depths[j] <= depths[i]}
  IN  IF after # {} /\ depths[Min(after)] = depths[i] THEN Min(after) ELSE None

Call(t) == [target |-> t, child |-> first_subnode(t)]

\* The root's target is created; the loop over its subnodes begins.
FindRoot ==
  /\ op = "path_offset"
  /\ \/ Throws
     \/ /\ op' = "parse"
        /\ children' = [t \in Targets |-> <<>>]
        /\ parent' = [t \in Targets |-> None]
        /\ stack' = <<Call(1)>>
        /\ UNCHANGED <<depths, service, walk, seen>>
  /\ UNCHANGED <<fds, maps>>

addChild(t, c) ==
  /\ children' = [children EXCEPT ![t] = Append(@, c)]
  /\ parent' = [parent EXCEPT ![c] = t]

ParseChild ==
  /\ op = "parse"
  /\ Last(stack).child # None
  /\ addChild(Last(stack).target, Last(stack).child)
  /\ stack' = Append(stack, Call(Last(stack).child))
  /\ UNCHANGED <<depths, op, fds, maps, service, walk, seen>>

\* A call of parseNode returns to the loop that made it.
Returned(s) ==
  LET n == Len(s)
  IN  [SubSeq(s, 1, n - 1) EXCEPT ![n - 1].child = next_subnode(s[n].target)]

NodeParsed ==
  /\ op = "parse"
  /\ Last(stack).child = None
  /\ Len(stack) > 1
  /\ stack' = Returned(stack)
  /\ UNCHANGED <<depths, op, fds, maps, service, tree, walk, seen>>

RootOf == 1

TreeParsed ==
  /\ op = "parse"
  /\ Last(stack).child = None
  /\ Len(stack) = 1
  /\ root' = RootOf
  /\ rootFdt' = loader
  /\ initialized' = TRUE
  /\ stack' = <<>>
  /\ op' = "idle"
  /\ UNCHANGED <<depths, fds, maps, loader, tree, walk, seen>>

\* A target cannot be created; the part of the tree that was is out of reach.
ParseThrows ==
  /\ op = "parse"
  /\ op' = "idle"
  /\ stack' = <<>>
  /\ children' = [t \in Targets |-> <<>>]
  /\ parent' = [t \in Targets |-> None]
  /\ UNCHANGED <<depths, fds, maps, service, walk, seen>>

-----------------------------------------------------------------------------
(* Walks. *)

\* The client may call init between two targets.
Begin ==
  /\ op = "idle"
  /\ initialized
  /\ walk = <<>>
  /\ walk' = <<[target |-> root, next |-> 1]>>
  /\ seen' = <<root>>
  /\ UNCHANGED <<depths, op, fds, maps, service, tree, stack>>

HasNext == Last(walk).next <= Len(children[Last(walk).target])

\* A fault: a generator stays at its child.
SameChild(s) == s

Advanced(s) == [s EXCEPT ![Len(s)].next = @ + 1]

\* The generator of the next child yields the child.
Descend ==
  /\ op = "idle"
  /\ walk # <<>>
  /\ HasNext
  /\ LET c == children[Last(walk).target][Last(walk).next]
     IN  /\ walk' = Append(Advanced(walk), [target |-> c, next |-> 1])
         /\ seen' = Append(seen, c)
  /\ UNCHANGED <<depths, op, fds, maps, service, tree, stack>>

Return ==
  /\ op = "idle"
  /\ walk # <<>>
  /\ ~HasNext
  /\ walk' = Front(walk)
  /\ UNCHANGED <<depths, op, fds, maps, service, tree, stack, seen>>

\* The client leaves its loop, and the generators are destroyed.
Leave ==
  /\ op = "idle"
  /\ walk # <<>>
  /\ walk' = <<>>
  /\ seen' = <<>>
  /\ UNCHANGED <<depths, op, fds, maps, service, tree, stack>>

Next ==
  \/ CallInit
  \/ Open \/ Fstat \/ Mmap \/ CheckHeader \/ Assign
  \/ FindRoot \/ ParseChild \/ NodeParsed \/ TreeParsed \/ ParseThrows
  \/ Begin \/ Descend \/ Return \/ Leave

Spec == Init /\ [][Next]_vars

-----------------------------------------------------------------------------
(* Traversals that are functions of the tree. *)

\* preOrderTraversal(t); a child has a greater number than its parent.
preOrder[t \in Targets] ==
  <<t>> \o FlattenSeq([k \in 1 .. Len(children[t]) |-> preOrder[children[t][k]]])

\* A fault: the target itself is not skipped.
NotSkipped(t) == preOrder[t][1]

\* getNextTarget(t): what the traversal of t yields after t.
getNextTarget(t) == IF Len(preOrder[t]) > 1 THEN preOrder[t][2] ELSE None

\* Target::ancestors().
ancestors[t \in Targets] ==
  IF parent[t] = None THEN <<>> ELSE <<parent[t]>> \o ancestors[parent[t]]

-----------------------------------------------------------------------------
(* Properties. *)

Held == IF loader = None THEN {} ELSE {loader}

\* Whichever step of init failed, when it is over the files open and the
\* mappings that exist are those of _loader, no more and no fewer
\* (dtree_loader.C L17-56, target_service.C L25).
NothingLeaked == op = "idle" => fds = Held /\ maps = Held

\* The targets that the service or a client's walk can reach point into a blob
\* that is still mapped, however often init is called (target_service.C L22-34).
TargetsMapped ==
  /\ root # None => rootFdt \in maps
  /\ walk # <<>> => rootFdt \in maps

\* The nodes that enclose node j.
Enclosing(j) == {i \in 1 .. j - 1 : \A k \in i + 1 .. j : depths[k] > depths[i]}

\* The finished tree is the blob: each target's ancestors are the nodes that
\* enclose its node, each once and from the inside out, and the traversal from the
\* top is the order of the offsets.
\* getNextTarget agrees with it as far as it goes: from a target with children it
\* gives the one that comes next, from a leaf nothing (target_service.C L37-82,
\* target.C L5-19).
TreeIsBlob ==
  initialized =>
    /\ \A j \in Nodes :
         /\ ToSet(ancestors[j]) = Enclosing(j)
         /\ \A k \in 1 .. Len(ancestors[j]) - 1 : ancestors[j][k] > ancestors[j][k + 1]
    /\ preOrder[root] = [j \in Nodes |-> j]
    /\ \A t \in Nodes :
         getNextTarget(t) = IF children[t] = <<>> THEN None ELSE t + 1

\* A walk yields the targets in the order of the offsets, each once, and it has
\* yielded all of them when it ends, whatever its client does between two
\* targets (target_service.C L84-100, main.C L142).
WalkInOrder ==
  /\ seen = [j \in 1 .. Len(seen) |-> j]
  /\ walk = <<>> => Len(seen) \in {0, Len(depths)}

=============================================================================
