----------------------------- MODULE EntityPath -----------------------------
(***************************************************************************)
(* pdbg_targeting/targeting/common/entitypath.C: an entity path is a path   *)
(* type, a size and a fixed array of elements; two of them are built,       *)
(* changed and compared here in any order of calls.  A call outside its     *)
(* precondition asserts, and the program is over.                           *)
(***************************************************************************)
EXTENDS Integers, Sequences

CONSTANTS
  MaxPathElements,   \* MAX_PATH_ELEMENTS: 10 in the code
  Types,             \* element types, as the byte they are stored in
  Instances,         \* instance ids, a byte
  PathTypes          \* path types, four bits

NA == 0              \* TYPE_NA, and PATH_NA

ASSUME SizeAssumption ==
  /\ MaxPathElements \in Nat \ {0}
  /\ MaxPathElements < 16                    \* iv_size has four bits
ASSUME ElementAssumption ==
  /\ Types \subseteq Nat
  /\ Instances \subseteq Nat
  /\ PathTypes \subseteq Nat
  /\ NA \in Types \cap Instances \cap PathTypes

Slots    == 0 .. MaxPathElements - 1
Elements == [type : Types, instance : Instances]
Paths    == [type : PathTypes, size : 0 .. MaxPathElements, element : [Slots -> Elements]]

NoElement == [type |-> NA, instance |-> NA]

-----------------------------------------------------------------------------
(* The operations, as functions of the object they are called on. *)

Empty(t) == [type |-> t, size |-> 0, element |-> [i \in Slots |-> NoElement]]

\* A fault: the slot is not cleared.
RemoveLastKeeps(p) == [p EXCEPT !.size = @ - 1]

RemoveLast(p) ==
  [p EXCEPT !.element[p.size - 1] = NoElement, !.size = @ - 1]

AddLast(p, e) ==
  [p EXCEPT !.element[p.size] = e, !.size = @ + 1]

Replace(p, i, e) == [p EXCEPT !.element[i] = e]

SetType(p, t) == [p EXCEPT !.type = t]

\* memcmp over the first n elements: their bytes are type and instance in turn.
SameElements(p, q, n) == \A i \in 0 .. n - 1 : p.element[i] = q.element[i]

ElementLess(d, e) ==
  d.type < e.type \/ (d.type = e.type /\ d.instance < e.instance)

LessElements(p, q, n) ==
  \E i \in 0 .. n - 1 :
    /\ SameElements(p, q, i)
    /\ ElementLess(p.element[i], q.element[i])

MinSize(p, q) == IF p.size < q.size THEN p.size ELSE q.size

\* operator==
Equal(p, q) ==
  /\ p.type = q.type
  /\ p.size = q.size
  /\ SameElements(p, q, p.size)

\* A fault: the sizes are compared before the elements are.
LessBySize(p, q) ==
  IF p.type # q.type THEN p.type < q.type
  ELSE p.size < q.size \/ LessElements(p, q, MinSize(p, q))

\* operator<
Less(p, q) ==
  IF p.type # q.type THEN p.type < q.type
  ELSE \/ LessElements(p, q, MinSize(p, q))
       \/ SameElements(p, q, MinSize(p, q)) /\ p.size < q.size

\* A fault: only the other path's size is looked at.
EqualsUnchecked(p, q, n) ==
  /\ p.type = q.type
  /\ n <= q.size
  /\ SameElements(p, q, n)

\* equals, for n <= MAX_PATH_ELEMENTS: what it returns.
Equals(p, q, n) ==
  /\ p.type = q.type
  /\ n <= q.size
  /\ n <= p.size
  /\ SameElements(p, q, n)

\* What equals asserts: that the number of elements is one a path can have (not
\* that this path has so many, as entitypath.H L252-253 says).
EqualsAsserts(n) == n > MaxPathElements

-----------------------------------------------------------------------------
(* Two objects, and the calls made on them. *)

VARIABLES
  path,           \* the two objects, 1 and 2
  asserted        \* the call that asserted, if any

pathVars == <<path, asserted>>

Objects == {1, 2}

PathTypeOK ==
  /\ path \in [Objects -> Paths]
  /\ asserted \in {"none", "addLast", "removeLast", "replace", "equals", "index"}

PathInit ==
  /\ path \in [Objects -> {Empty(t) : t \in PathTypes}]
  /\ asserted = "none"

\* A call on object o: it asserts, or the object becomes p.
Becomes(o, ok, call, p) ==
  /\ asserted = "none"
  /\ IF ok
     THEN path' = [path EXCEPT ![o] = p] /\ UNCHANGED asserted
     ELSE asserted' = call /\ UNCHANGED path

HasRoom(p) == p.size < MaxPathElements

CallAddLast(o, e) ==
  Becomes(o, HasRoom(path[o]), "addLast", AddLast(path[o], e))

CallRemoveLast(o) ==
  Becomes(o, path[o].size >= 1, "removeLast", RemoveLast(path[o]))

CallReplace(o, i, e) ==
  Becomes(o, i < path[o].size, "replace", Replace(path[o], i, e))

CallSetType(o, t) == Becomes(o, TRUE, "none", SetType(path[o], t))

\* The copying calls leave their object alone and make another of the result.
CallCopyAddLast(o, e) ==
  Becomes(3 - o, HasRoom(path[o]), "addLast", AddLast(path[o], e))

CallCopyRemoveLast(o) ==
  Becomes(3 - o, path[o].size >= 1, "removeLast", RemoveLast(path[o]))

\* Reading calls: they change nothing unless they assert.
CallEquals(o, n) == Becomes(o, ~EqualsAsserts(n), "equals", path[o])
CallIndex(o, i)  == Becomes(o, i < path[o].size, "index", path[o])

PathNext ==
  \/ \E o \in Objects, e \in Elements : CallAddLast(o, e) \/ CallCopyAddLast(o, e)
  \/ \E o \in Objects : CallRemoveLast(o) \/ CallCopyRemoveLast(o)
  \/ \E o \in Objects, i \in Slots, e \in Elements : CallReplace(o, i, e)
  \/ \E o \in Objects, t \in PathTypes : CallSetType(o, t)
  \/ \E o \in Objects, n \in 0 .. MaxPathElements + 1 : CallEquals(o, n)
  \/ \E o \in Objects, i \in Slots : CallIndex(o, i)
  \/ asserted # "none" /\ UNCHANGED pathVars

PathSpec == PathInit /\ [][PathNext]_pathVars

-----------------------------------------------------------------------------
(* Properties. *)

\* The slots behind the last element are clear, after whatever calls (L50-85).
TailIsClear ==
  \A o \in Objects : \A i \in Slots :
    i >= path[o].size => path[o].element[i] = NoElement

\* The elements of a path, without the array behind it.
Content(p) == [i \in 1 .. p.size |-> p.element[i - 1]]

\* operator== says whether the two are the same path, and as nothing is left
\* behind in the array, whether they are the same object bytes (L104-112).
EqualMeansSame ==
  LET p == path[1]
      q == path[2]
  IN  /\ Equal(p, q) <=> (p.type = q.type /\ Content(p) = Content(q))
      /\ Equal(p, q) <=> p = q

\* operator< orders any two paths one way, and agrees with operator== on those
\* it does not order: as the key of a map or set needs it (L118-137).
LessIsTotal ==
  LET p == path[1]
      q == path[2]
      holds == {s \in {"less", "greater", "equal"} :
                  \/ s = "less" /\ Less(p, q)
                  \/ s = "greater" /\ Less(q, p)
                  \/ s = "equal" /\ Equal(p, q)}
  IN  \E s \in holds : holds = {s}

\* For any number of elements, equals says yes to two paths of one type that both
\* have so many and have the same ones, and no to all others: what one path has in
\* its array behind its last element does not count (L144-156).
EqualsIsPrefix ==
  LET p == path[1]
      q == path[2]
  IN  \A n \in 0 .. MaxPathElements :
        Equals(p, q, n) <=>
          /\ p.type = q.type
          /\ n <= Len(Content(p)) /\ n <= Len(Content(q))
          /\ SubSeq(Content(p), 1, n) = SubSeq(Content(q), 1, n)

\* Both comparisons say what they are asked, after whatever calls (L104-156).
EqualityIsExact == EqualMeansSame /\ EqualsIsPrefix

\* entitypath.H L252-253 says that equals asserts when it is asked for more elements
\* than its own path has; it answers no (L152).  Here the other path has them.
ShorterPathAsserts ==
  \A n \in 0 .. MaxPathElements :
    n > path[1].size /\ n <= path[2].size => EqualsAsserts(n)

=============================================================================
