--------------------------- MODULE TargetingProofs ---------------------------
(***************************************************************************)
(* The targeting library, pdbg_targeting.                                   *)
(*                                                                         *)
(* Entity paths, for every capacity and every set of element types: the     *)
(* operations keep the slots behind the last element clear, so that         *)
(* equality of paths is equality of objects; removing undoes adding;        *)
(* operator< orders any two paths one way.                                  *)
(*                                                                         *)
(* The target service, whatever the blob is and whichever steps of init     *)
(* fail: init leaks no file and no mapping; no target that can be reached   *)
(* points into a blob that is no longer mapped; the finished tree has every *)
(* node of the blob under its parent, in order, and going up or down it one *)
(* finds the blob's nodes as they enclose and follow each other; a walk     *)
(* yields the targets in the order of their nodes.                          *)
(***************************************************************************)
EXTENDS EntityPath, TargetService, TLAPS, WellFoundedInduction, SequenceTheorems

-----------------------------------------------------------------------------
(* Numbers. *)

\* A set of naturals that is not empty has a least element.
LEMMA LeastNatural ==
  ASSUME NEW S, S \subseteq Nat, S # {}
  PROVE  \E n \in S : \A m \in S : n <= m
<1>1. PICK n \in S : \A m \in S : <<m, n>> \notin OpToRel(<, Nat)
  BY WFMin, NatLessThanWellFounded
<1>2. \A m \in S : ~(m < n)
  BY <1>1 DEF OpToRel
<1>. QED
  BY <1>2

-----------------------------------------------------------------------------
(* Entity paths. *)

\* A path whose slots behind the last element are clear.
Clear(p) == \A i \in Slots : i >= p.size => p.element[i] = NoElement

\* What each operation does to a path within its precondition.
LEMMA EmptyIsClear ==
  ASSUME NEW t \in PathTypes
  PROVE  Empty(t) \in Paths /\ Clear(Empty(t))
  BY SizeAssumption, ElementAssumption DEF Empty, Paths, Elements, NoElement, Clear, Slots

LEMMA AddKeepsClear ==
  ASSUME NEW p \in Paths, NEW e \in Elements, Clear(p), HasRoom(p)
  PROVE  AddLast(p, e) \in Paths /\ Clear(AddLast(p, e))
<1>1. p.size \in Slots /\ p.size + 1 \in 0 .. MaxPathElements
  BY SizeAssumption DEF Paths, HasRoom, Slots
<1>2. /\ AddLast(p, e).type = p.type
      /\ AddLast(p, e).size = p.size + 1
      /\ AddLast(p, e).element = [p.element EXCEPT ![p.size] = e]
  BY DEF AddLast, Paths
<1>3. AddLast(p, e) \in Paths
  BY <1>1 DEF AddLast, Paths
<1>4. Clear(AddLast(p, e))
  BY <1>1, <1>2 DEF Clear, Slots, Paths
<1>. QED
  BY <1>3, <1>4

LEMMA RemoveKeepsClear ==
  ASSUME NEW p \in Paths, Clear(p), p.size >= 1
  PROVE  RemoveLast(p) \in Paths /\ Clear(RemoveLast(p))
<1>1. p.size - 1 \in Slots /\ p.size - 1 \in 0 .. MaxPathElements
  BY SizeAssumption DEF Paths, Slots
<1>2. NoElement \in Elements
  BY ElementAssumption DEF NoElement, Elements
<1>3. /\ RemoveLast(p).size = p.size - 1
      /\ RemoveLast(p).element = [p.element EXCEPT ![p.size - 1] = NoElement]
  BY DEF RemoveLast, Paths
<1>4. RemoveLast(p) \in Paths
  BY <1>1, <1>2 DEF RemoveLast, Paths
<1>5. Clear(RemoveLast(p))
  <2>. SUFFICES ASSUME NEW i \in Slots, i >= p.size - 1
                PROVE  RemoveLast(p).element[i] = NoElement
    BY <1>3 DEF Clear
  <2>1. CASE i = p.size - 1
    BY <1>1, <1>3, <2>1 DEF Paths
  <2>2. CASE i # p.size - 1
    <3>1. i >= p.size
      BY <2>2 DEF Slots, Paths
    <3>. QED
      BY <1>1, <1>3, <2>2, <3>1 DEF Clear, Paths
  <2>. QED
    BY <2>1, <2>2
<1>. QED
  BY <1>4, <1>5

LEMMA ReplaceKeepsClear ==
  ASSUME NEW p \in Paths, NEW i \in Slots, NEW e \in Elements, Clear(p), i < p.size
  PROVE  Replace(p, i, e) \in Paths /\ Clear(Replace(p, i, e))
<1>1. Replace(p, i, e).size = p.size /\ Replace(p, i, e).element = [p.element EXCEPT ![i] = e]
  BY DEF Replace, Paths
<1>2. Replace(p, i, e) \in Paths
  BY DEF Replace, Paths
<1>3. Clear(Replace(p, i, e))
  BY <1>1 DEF Clear, Slots, Paths
<1>. QED
  BY <1>2, <1>3

LEMMA SetTypeKeepsClear ==
  ASSUME NEW p \in Paths, NEW t \in PathTypes, Clear(p)
  PROVE  SetType(p, t) \in Paths /\ Clear(SetType(p, t))
  BY DEF SetType, Paths, Clear

\* addLast followed by removeLast gives the object back as it was, byte for
\* byte: removeLast clears the slot that addLast has filled (L50-85).
THEOREM RemoveUndoesAdd ==
  ASSUME NEW p \in Paths, NEW e \in Elements, Clear(p), HasRoom(p)
  PROVE  RemoveLast(AddLast(p, e)) = p
<1>. DEFINE a == AddLast(p, e)
            r == RemoveLast(a)
<1>1. p.size \in Slots /\ (p.size + 1) - 1 = p.size
  BY SizeAssumption DEF Paths, HasRoom, Slots
<1>2. a \in Paths /\ a.size = p.size + 1 /\ a.type = p.type
      /\ a.element = [p.element EXCEPT ![p.size] = e]
  BY AddKeepsClear DEF AddLast, Paths
<1>3. p.element[p.size] = NoElement
  BY <1>1 DEF Clear, Paths, Slots
<1>4. r.size = p.size /\ r.type = p.type
      /\ r.element = [a.element EXCEPT ![p.size] = NoElement]
  BY <1>1, <1>2 DEF RemoveLast, Paths
<1>5. r.element = p.element
  BY <1>1, <1>2, <1>3, <1>4 DEF Paths
<1>6. r \in Paths
  BY <1>1, <1>2, RemoveKeepsClear, AddKeepsClear DEF Slots
<1>. QED
  BY <1>4, <1>5, <1>6 DEF Paths

-----------------------------------------------------------------------------

PathInv == PathTypeOK /\ TailIsClear

\* A call keeps the invariant if what it makes of its object is a clear path.
LEMMA BecomesKeeps ==
  ASSUME PathInv, NEW o \in Objects, NEW ok \in BOOLEAN,
         NEW call \in {"none", "addLast", "removeLast", "replace", "equals", "index"},
         NEW p, ok => p \in Paths /\ Clear(p),
         Becomes(o, ok, call, p)
  PROVE  PathInv'
<1>1. CASE ok
  <2>1. path' = [path EXCEPT ![o] = p] /\ asserted' = asserted
    BY <1>1 DEF Becomes
  <2>2. path' \in [Objects -> Paths]
    BY <1>1, <2>1 DEF PathInv, PathTypeOK
  <2>3. \A q \in Objects : path'[q] = IF q = o THEN p ELSE path[q]
    BY <2>1 DEF PathInv, PathTypeOK
  <2>4. \A q \in Objects : Clear(path'[q])
    BY <1>1, <2>3 DEF PathInv, TailIsClear, Clear
  <2>. QED
    BY <2>1, <2>2, <2>4 DEF PathInv, PathTypeOK, TailIsClear, Clear
<1>2. CASE ~ok
  BY <1>2 DEF Becomes, PathInv, PathTypeOK, TailIsClear
<1>. QED
  BY <1>1, <1>2

LEMMA PathInvStep == PathInv /\ [PathNext]_pathVars => PathInv'
<1>. SUFFICES ASSUME PathInv, [PathNext]_pathVars PROVE PathInv'
  OBVIOUS
<1>1. \A o \in Objects : /\ path[o] \in Paths /\ Clear(path[o])
                         /\ 3 - o \in Objects
  BY DEF PathInv, PathTypeOK, TailIsClear, Clear, Objects
<1>2. ASSUME NEW o \in Objects, NEW e \in Elements, CallAddLast(o, e) \/ CallCopyAddLast(o, e)
      PROVE  PathInv'
  <2>1. HasRoom(path[o]) => AddLast(path[o], e) \in Paths /\ Clear(AddLast(path[o], e))
    BY <1>1, AddKeepsClear
  <2>2. HasRoom(path[o]) \in BOOLEAN
    BY DEF HasRoom
  <2>3. CASE CallAddLast(o, e)
    BY <2>1, <2>2, <2>3, BecomesKeeps DEF CallAddLast
  <2>4. CASE CallCopyAddLast(o, e)
    BY <1>1, <2>1, <2>2, <2>4, BecomesKeeps DEF CallCopyAddLast
  <2>. QED
    BY <1>2, <2>3, <2>4
<1>3. ASSUME NEW o \in Objects, CallRemoveLast(o) \/ CallCopyRemoveLast(o)
      PROVE  PathInv'
  <2>1. path[o].size >= 1 => RemoveLast(path[o]) \in Paths /\ Clear(RemoveLast(path[o]))
    BY <1>1, RemoveKeepsClear
  <2>2. (path[o].size >= 1) \in BOOLEAN
    OBVIOUS
  <2>3. CASE CallRemoveLast(o)
    BY <2>1, <2>2, <2>3, BecomesKeeps DEF CallRemoveLast
  <2>4. CASE CallCopyRemoveLast(o)
    BY <1>1, <2>1, <2>2, <2>4, BecomesKeeps DEF CallCopyRemoveLast
  <2>. QED
    BY <1>3, <2>3, <2>4
<1>4. ASSUME NEW o \in Objects, NEW i \in Slots, NEW e \in Elements, CallReplace(o, i, e)
      PROVE  PathInv'
  <2>1. i < path[o].size => Replace(path[o], i, e) \in Paths /\ Clear(Replace(path[o], i, e))
    BY <1>1, ReplaceKeepsClear
  <2>2. (i < path[o].size) \in BOOLEAN
    OBVIOUS
  <2>. QED
    BY <1>4, <2>1, <2>2, BecomesKeeps DEF CallReplace
<1>5. ASSUME NEW o \in Objects, NEW t \in PathTypes, CallSetType(o, t)
      PROVE  PathInv'
  <2>1. SetType(path[o], t) \in Paths /\ Clear(SetType(path[o], t))
    BY <1>1, SetTypeKeepsClear
  <2>. QED
    BY <1>5, <2>1, BecomesKeeps DEF CallSetType
<1>6. ASSUME NEW o \in Objects, NEW n \in 0 .. MaxPathElements + 1, CallEquals(o, n)
      PROVE  PathInv'
  <2>1. (~EqualsAsserts(n)) \in BOOLEAN
    BY DEF EqualsAsserts
  <2>. QED
    BY <1>1, <1>6, <2>1, BecomesKeeps DEF CallEquals
<1>7. ASSUME NEW o \in Objects, NEW i \in Slots, CallIndex(o, i)
      PROVE  PathInv'
  <2>1. (i < path[o].size) \in BOOLEAN
    OBVIOUS
  <2>. QED
    BY <1>1, <1>7, <2>1, BecomesKeeps DEF CallIndex
<1>8. CASE UNCHANGED pathVars
  BY <1>8 DEF pathVars, PathInv, PathTypeOK, TailIsClear
<1>. QED
  BY <1>2, <1>3, <1>4, <1>5, <1>6, <1>7, <1>8 DEF PathNext

LEMMA PathInvHolds == PathSpec => []PathInv
<1>1. PathInit => PathInv
  <2>. SUFFICES ASSUME PathInit PROVE PathInv
    OBVIOUS
  <2>1. \A o \in Objects : path[o] \in Paths /\ Clear(path[o])
    BY EmptyIsClear DEF PathInit
  <2>2. path \in [Objects -> Paths]
    BY <2>1 DEF PathInit
  <2>. QED
    BY <2>1, <2>2 DEF PathInit, PathInv, PathTypeOK, TailIsClear, Clear
<1>. QED
  BY <1>1, PathInvStep, PTL DEF PathSpec

\* Both objects are always paths.
THEOREM PathTypeCorrect == PathSpec => []PathTypeOK
  BY PathInvHolds, PTL DEF PathInv

\* No call leaves anything behind the last element.
THEOREM TailStaysClear == PathSpec => []TailIsClear
  BY PathInvHolds, PTL DEF PathInv

-----------------------------------------------------------------------------

\* Of clear paths, those that are equal are the same object.
LEMMA EqualIsIdentity ==
  ASSUME NEW p \in Paths, NEW q \in Paths, Clear(p), Clear(q)
  PROVE  Equal(p, q) <=> p = q
<1>1. ASSUME Equal(p, q) PROVE p = q
  <2>1. \A i \in Slots : p.element[i] = q.element[i]
    BY <1>1 DEF Equal, SameElements, Clear, Slots, Paths
  <2>2. p.element = q.element
    BY <2>1 DEF Paths
  <2>. QED
    BY <1>1, <2>2 DEF Equal, Paths
<1>. QED
  BY <1>1 DEF Equal, SameElements

LEMMA EqualIsContent ==
  ASSUME NEW p \in Paths, NEW q \in Paths
  PROVE  Equal(p, q) <=> (p.type = q.type /\ Content(p) = Content(q))
<1>. p.size \in Nat /\ q.size \in Nat
  BY SizeAssumption DEF Paths
<1>1. ASSUME Equal(p, q) PROVE Content(p) = Content(q)
  BY <1>1 DEF Equal, SameElements, Content
<1>2. ASSUME p.type = q.type, Content(p) = Content(q) PROVE Equal(p, q)
  <2>1. DOMAIN Content(p) = 1 .. p.size /\ DOMAIN Content(q) = 1 .. q.size
    BY DEF Content
  <2>2. p.size = q.size
    <3>1. 1 .. p.size = 1 .. q.size
      BY <1>2, <2>1
    <3>. QED
      BY <3>1
  <2>3. ASSUME NEW i \in 0 .. p.size - 1 PROVE p.element[i] = q.element[i]
    <3>1. i + 1 \in 1 .. p.size /\ (i + 1) - 1 = i
      OBVIOUS
    <3>2. Content(p)[i + 1] = p.element[i] /\ Content(q)[i + 1] = q.element[i]
      BY <2>2, <3>1 DEF Content
    <3>. QED
      BY <1>2, <3>2
  <2>. QED
    BY <1>2, <2>2, <2>3 DEF Equal, SameElements
<1>. QED
  BY <1>1, <1>2 DEF Equal

\* operator== is equality of what the paths hold, and of the objects.
THEOREM EqualityIsRight == PathSpec => []EqualMeansSame
<1>1. PathInv => EqualMeansSame
  <2>. SUFFICES ASSUME PathInv PROVE EqualMeansSame
    OBVIOUS
  <2>1. \A o \in Objects : path[o] \in Paths /\ Clear(path[o])
    BY DEF PathInv, PathTypeOK, TailIsClear, Clear
  <2>2. 1 \in Objects /\ 2 \in Objects
    BY DEF Objects
  <2>. QED
    BY <2>1, <2>2, EqualIsIdentity, EqualIsContent DEF EqualMeansSame
<1>. QED
  BY <1>1, PathInvHolds, PTL

\* equals says yes to two paths of one type with the same first n elements, and to no
\* others.
THEOREM EqualsComparesPrefixes == PathSpec => []EqualsIsPrefix
<1>1. ASSUME NEW p \in Paths, NEW q \in Paths, NEW n \in 0 .. MaxPathElements
      PROVE  Equals(p, q, n) <=>
               /\ p.type = q.type
               /\ n <= Len(Content(p)) /\ n <= Len(Content(q))
               /\ SubSeq(Content(p), 1, n) = SubSeq(Content(q), 1, n)
  <2>. p.size \in Nat /\ q.size \in Nat /\ n \in Nat
    BY SizeAssumption DEF Paths
  <2>1. Len(Content(p)) = p.size /\ Len(Content(q)) = q.size
    BY DEF Content
  <2>2. ASSUME n <= p.size, n <= q.size
        PROVE  SameElements(p, q, n) <=> SubSeq(Content(p), 1, n) = SubSeq(Content(q), 1, n)
    <3>1. \A i \in 1 .. n : Content(p)[i] = p.element[i - 1] /\ Content(q)[i] = q.element[i - 1]
      BY <2>2 DEF Content
    <3>2. SameElements(p, q, n) <=> \A i \in 1 .. n : Content(p)[i] = Content(q)[i]
      <4>1. ASSUME SameElements(p, q, n), NEW i \in 1 .. n
            PROVE  Content(p)[i] = Content(q)[i]
        BY <3>1, <4>1 DEF SameElements
      <4>2. ASSUME \A i \in 1 .. n : Content(p)[i] = Content(q)[i], NEW k \in 0 .. n - 1
            PROVE  p.element[k] = q.element[k]
        <5>1. k + 1 \in 1 .. n /\ (k + 1) - 1 = k
          OBVIOUS
        <5>. QED
          BY <3>1, <4>2, <5>1
      <4>. QED
        BY <4>1, <4>2 DEF SameElements
    <3>3. /\ SubSeq(Content(p), 1, n) = [i \in 1 .. n |-> Content(p)[i]]
          /\ SubSeq(Content(q), 1, n) = [i \in 1 .. n |-> Content(q)[i]]
      BY <2>1, <2>2 DEF Content
    <3>. QED
      BY <3>2, <3>3
  <2>. QED
    BY <2>1, <2>2 DEF Equals
<1>2. PathTypeOK => EqualsIsPrefix
  <2>. SUFFICES ASSUME PathTypeOK PROVE EqualsIsPrefix
    OBVIOUS
  <2>1. path[1] \in Paths /\ path[2] \in Paths
    BY DEF PathTypeOK, Objects
  <2>. QED
    BY <1>1, <2>1 DEF EqualsIsPrefix
<1>. QED
  BY <1>2, PathTypeCorrect, PTL

\* Both comparisons are exact, whatever calls were made on the two objects.
THEOREM EqualityStaysExact == PathSpec => []EqualityIsExact
<1>1. EqualMeansSame /\ EqualsIsPrefix => EqualityIsExact
  BY DEF EqualityIsExact
<1>. QED
  BY <1>1, EqualityIsRight, EqualsComparesPrefixes, PTL

-----------------------------------------------------------------------------

\* No path is less than one that is less than it, or than itself.
THEOREM LessIsAsymmetric ==
  ASSUME NEW p \in Paths, NEW q \in Paths, Less(p, q)
  PROVE  ~Less(q, p) /\ ~Equal(p, q)
<1>. p.type \in PathTypes /\ q.type \in PathTypes /\ PathTypes \subseteq Nat
  BY ElementAssumption DEF Paths
<1>. p.type \in Nat /\ q.type \in Nat
  OBVIOUS
<1>. p.size \in Nat /\ q.size \in Nat
  BY SizeAssumption DEF Paths
<1>. MinSize(p, q) = MinSize(q, p) /\ MinSize(p, q) \in Nat
     /\ MinSize(p, q) <= p.size /\ MinSize(p, q) <= MaxPathElements
  BY SizeAssumption DEF MinSize, Paths
<1>1. CASE p.type # q.type
  BY <1>1 DEF Less, Equal
<1>2. CASE p.type = q.type
  <2>1. \A i \in 0 .. MinSize(p, q) - 1 :
           /\ p.element[i].type \in Nat /\ p.element[i].instance \in Nat
           /\ q.element[i].type \in Nat /\ q.element[i].instance \in Nat
    <3>1. \A i \in 0 .. MinSize(p, q) - 1 : i \in Slots
      BY SizeAssumption DEF Slots
    <3>2. \A i \in Slots : p.element[i] \in Elements /\ q.element[i] \in Elements
      BY DEF Paths
    <3>3. \A e \in Elements : e.type \in Nat /\ e.instance \in Nat
      BY ElementAssumption DEF Elements
    <3>. QED
      BY <3>1, <3>2, <3>3
  <2>2. CASE LessElements(p, q, MinSize(p, q))
    <3>1. PICK i \in 0 .. MinSize(p, q) - 1 :
            SameElements(p, q, i) /\ ElementLess(p.element[i], q.element[i])
      BY <2>2 DEF LessElements
    <3>2. p.element[i] # q.element[i]
      BY <2>1, <3>1 DEF ElementLess
    <3>3. ~SameElements(q, p, MinSize(p, q)) /\ ~SameElements(p, q, p.size)
      BY <3>2 DEF SameElements
    <3>4. ASSUME NEW k \in 0 .. MinSize(p, q) - 1, SameElements(q, p, k),
                 ElementLess(q.element[k], p.element[k])
          PROVE  FALSE
      <4>1. ~(i < k) /\ ~(k < i)
        BY <2>1, <3>1, <3>2, <3>4 DEF SameElements, ElementLess
      <4>2. i = k
        BY <4>1
      <4>. QED
        BY <2>1, <3>1, <3>4, <4>2 DEF ElementLess
    <3>. QED
      BY <1>2, <3>3, <3>4 DEF Less, LessElements, Equal
  <2>3. CASE SameElements(p, q, MinSize(p, q)) /\ p.size < q.size
    <3>1. ~LessElements(q, p, MinSize(q, p))
      BY <2>1, <2>3 DEF LessElements, SameElements, ElementLess
    <3>. QED
      BY <1>2, <2>3, <3>1 DEF Less, Equal
  <2>. QED
    BY <1>2, <2>2, <2>3 DEF Less
<1>. QED
  BY <1>1, <1>2

\* Two arrays that are not the same over the first n elements are ordered by
\* the first element in which they differ.
LEMMA FirstDifferenceOrders ==
  ASSUME NEW p \in Paths, NEW q \in Paths, NEW n \in 0 .. MaxPathElements
  PROVE  SameElements(p, q, n) \/ LessElements(p, q, n) \/ LessElements(q, p, n)
<1>. DEFINE D == {i \in 0 .. n - 1 : p.element[i] # q.element[i]}
<1>. SUFFICES ASSUME ~SameElements(p, q, n)
              PROVE  LessElements(p, q, n) \/ LessElements(q, p, n)
  OBVIOUS
<1>. n \in Nat
  BY SizeAssumption
<1>1. D # {} /\ D \subseteq Nat
  BY DEF SameElements
<1>2. PICK i \in D : \A j \in D : i <= j
  BY <1>1, LeastNatural
<1>3. i \in 0 .. n - 1 /\ i \in Slots /\ p.element[i] # q.element[i]
  BY <1>2, SizeAssumption DEF Slots
<1>4. SameElements(p, q, i) /\ SameElements(q, p, i)
  BY <1>2, <1>3 DEF SameElements
<1>5. ElementLess(p.element[i], q.element[i]) \/ ElementLess(q.element[i], p.element[i])
  <2>1. p.element[i] \in Elements /\ q.element[i] \in Elements
    BY <1>3 DEF Paths
  <2>2. \A d, e \in Elements : d # e => ElementLess(d, e) \/ ElementLess(e, d)
    <3>. SUFFICES ASSUME NEW d \in Elements, NEW e \in Elements, d # e
                  PROVE  ElementLess(d, e) \/ ElementLess(e, d)
      OBVIOUS
    <3>1. d.type # e.type \/ d.instance # e.instance
      BY DEF Elements
    <3>2. d.type \in Nat /\ e.type \in Nat /\ d.instance \in Nat /\ e.instance \in Nat
      BY ElementAssumption DEF Elements
    <3>. QED
      BY <3>1, <3>2 DEF ElementLess
  <2>. QED
    BY <1>3, <2>1, <2>2
<1>. QED
  BY <1>3, <1>4, <1>5 DEF LessElements

\* Of any two paths, one is less or they are equal.
LEMMA LessOrEqual ==
  ASSUME NEW p \in Paths, NEW q \in Paths
  PROVE  Less(p, q) \/ Less(q, p) \/ Equal(p, q)
<1>. p.type \in Nat /\ q.type \in Nat
  BY ElementAssumption DEF Paths
<1>. p.size \in Nat /\ q.size \in Nat
  BY SizeAssumption DEF Paths
<1>. DEFINE n == MinSize(p, q)
<1>1. n = MinSize(q, p) /\ n \in 0 .. MaxPathElements /\ (p.size = q.size => n = p.size)
  BY SizeAssumption DEF MinSize, Paths
<1>2. CASE p.type # q.type
  BY <1>2 DEF Less
<1>3. CASE p.type = q.type
  <2>1. SameElements(p, q, n) \/ LessElements(p, q, n) \/ LessElements(q, p, n)
    BY <1>1, FirstDifferenceOrders
  <2>2. SameElements(p, q, n) <=> SameElements(q, p, n)
    BY DEF SameElements
  <2>. QED
    BY <1>1, <1>3, <2>1, <2>2 DEF Less, Equal
<1>. QED
  BY <1>2, <1>3

\* operator< orders any two paths that calls have made, one way and not the
\* other, and leaves unordered those that operator== takes for the same.
THEOREM LessStaysTotal == PathSpec => []LessIsTotal
<1>1. PathTypeOK => LessIsTotal
  <2>. SUFFICES ASSUME PathTypeOK PROVE LessIsTotal
    OBVIOUS
  <2>. DEFINE p == path[1]
              q == path[2]
  <2>1. p \in Paths /\ q \in Paths
    BY DEF PathTypeOK, Objects
  <2>2. Less(p, q) \/ Less(q, p) \/ Equal(p, q)
    BY <2>1, LessOrEqual
  <2>3. Less(p, q) => ~Less(q, p) /\ ~Equal(p, q)
    BY <2>1, LessIsAsymmetric
  <2>4. Less(q, p) => ~Less(p, q) /\ ~Equal(p, q)
    <3>1. Equal(p, q) => Equal(q, p)
      BY DEF Equal, SameElements
    <3>. QED
      BY <2>1, <3>1, LessIsAsymmetric
  <2>. QED
    BY <2>2, <2>3, <2>4 DEF LessIsTotal
<1>. QED
  BY <1>1, PathTypeCorrect, PTL

-----------------------------------------------------------------------------
(* The target service. *)

\* The files and mappings that exist while init is at a step.
Opened == IF op \in {"fstat", "mmap", "check_header", "assign"} THEN {New} ELSE {}
Mapped == IF op \in {"check_header", "assign"} THEN {New} ELSE {}

\* The inductive invariant: what exists is what _loader holds and what the step
\* of the constructor has made so far; the root, a walk and initialized go
\* together, and init is not at work behind them.
Accounted ==
  /\ op \in Ops
  /\ loader \in Loaders \cup {None}
  /\ fds = Held \cup Opened
  /\ maps = Held \cup Mapped
  /\ op \in {"path_offset", "parse"} => loader # None
  /\ root # None => initialized
  /\ walk # <<>> => initialized
  /\ initialized => op = "idle" /\ loader # None /\ rootFdt = loader

LEMMA InitAccounted == Init => Accounted
BY DEF Init, Accounted, Ops, Held, Opened, Mapped, None, Loaders

\* The constructor's steps.
LEMMA LoaderSteps ==
  ASSUME Accounted, CallInit \/ Open \/ Fstat \/ Mmap \/ CheckHeader \/ Assign
  PROVE  Accounted'
<1> USE DEF Accounted, Ops, Held, Opened, Mapped, New, None, Loaders, Throws, Goes, service, tree
<1>1. CASE CallInit
  BY <1>1 DEF CallInit, InitNeeded
<1>2. CASE Open
  BY <1>2 DEF Open
<1>3. CASE Fstat
  BY <1>3 DEF Fstat
<1>4. CASE Mmap
  BY <1>4 DEF Mmap
<1>5. CASE CheckHeader
  BY <1>5 DEF CheckHeader, ReleaseBoth
<1>6. CASE Assign
  BY <1>6 DEF Assign
<1>7. QED
  BY <1>1, <1>2, <1>3, <1>4, <1>5, <1>6

\* The parser's steps; the last one makes the tree reachable.
LEMMA ParserSteps ==
  ASSUME Accounted, FindRoot \/ ParseChild \/ NodeParsed \/ TreeParsed \/ ParseThrows
  PROVE  Accounted'
<1> USE DEF Accounted, Ops, Held, Opened, Mapped, New, None, Loaders, service, tree
<1>1. CASE FindRoot
  <2>1. CASE Throws
    BY <1>1, <2>1 DEF FindRoot, Throws
  <2>2. CASE ~Throws
    BY <1>1, <2>2 DEF FindRoot
  <2>3. QED
    BY <2>1, <2>2
<1>2. CASE ParseChild
  BY <1>2 DEF ParseChild
<1>3. CASE NodeParsed
  BY <1>3 DEF NodeParsed
<1>4. CASE TreeParsed
  BY <1>4 DEF TreeParsed
<1>5. CASE ParseThrows
  BY <1>5 DEF ParseThrows
<1>6. QED
  BY <1>1, <1>2, <1>3, <1>4, <1>5

\* A walk changes nothing of the service.
LEMMA WalkSteps ==
  ASSUME Accounted, Begin \/ Descend \/ Return \/ Leave
  PROVE  Accounted'
<1> USE DEF Accounted, Ops, Held, Opened, Mapped, New, service
<1>1. CASE Begin
  BY <1>1 DEF Begin
<1>2. CASE Descend
  BY <1>2 DEF Descend
<1>3. CASE Return
  BY <1>3 DEF Return
<1>4. CASE Leave
  BY <1>4 DEF Leave
<1>5. QED
  BY <1>1, <1>2, <1>3, <1>4

LEMMA Stutters ==
  ASSUME Accounted, UNCHANGED vars
  PROVE  Accounted'
BY DEF Accounted, Held, Opened, Mapped, New, vars, service

\* The account of files, mappings and reachable targets is kept by every step.
THEOREM AccountKept == Spec => []Accounted
<1>1. ASSUME Accounted, [Next]_vars
      PROVE  Accounted'
  BY <1>1, LoaderSteps, ParserSteps, WalkSteps, Stutters DEF Next
<1>2. QED
  BY <1>1, InitAccounted, PTL DEF Spec

\* Files and mappings: a call of init that is over, failed or not, has left
\* exactly those of _loader (dtree_loader.C L17-56).
THEOREM NothingIsLeaked == Spec => []NothingLeaked
<1>1. Accounted => NothingLeaked
  BY DEF Accounted, NothingLeaked, Opened, Mapped
<1>2. QED
  BY <1>1, AccountKept, PTL

\* Reachable targets point into a mapped blob (target_service.C L22-34).
THEOREM TargetsStayMapped == Spec => []TargetsMapped
<1>1. Accounted => TargetsMapped
  BY DEF Accounted, TargetsMapped, Held, Mapped
<1>2. QED
  BY <1>1, AccountKept, PTL

-----------------------------------------------------------------------------
(* The tree, as it grows. *)

\* The node behind the nodes that node i encloses.
Outside(i) == {j \in i + 1 .. Len(depths) : depths[j] <= depths[i]}
After(i)   == IF Outside(i) = {} THEN Len(depths) + 1 ELSE Min(Outside(i))

\* The node behind the part of a target's tree that is there.
Upto(t) == IF children[t] = <<>> THEN t + 1 ELSE After(Last(children[t]))

\* The children a target has so far are the nodes right below its own, from the first one
\* on, each behind the nodes of the one before.
Chain(t) ==
  /\ \A k \in 1 .. Len(children[t]) :
       /\ children[t][k] \in Nodes
       /\ children[t][k] >= t + k
       /\ depths[children[t][k]] = depths[t] + 1
       /\ children[t][k] = IF k = 1 THEN t + 1 ELSE After(children[t][k - 1])

\* The tree of a target is all there.
Whole(t) == Upto(t) = After(t)

\* parseNode's calls lie one inside the other, a target on level k of the stack k - 1 below
\* the root; the loop of each is at the last child it has made, that of the innermost at
\* the node behind all that is made; no node beyond that one has children yet, and of the
\* nodes before it those that are no longer on the stack have all of theirs.
Reached == Upto(Last(stack).target)

OnStack(t) == \E k \in 1 .. Len(stack) : stack[k].target = t

ParseInv ==
  op = "parse" =>
    /\ stack # <<>>
    /\ stack[1].target = 1
    /\ \A k \in 1 .. Len(stack) :
         /\ stack[k].target \in Nodes
         /\ depths[stack[k].target] = k - 1
         /\ \A j \in stack[k].target + 1 .. Reached - 1 : depths[j] >= k
    /\ \A k \in 1 .. Len(stack) - 1 :
         /\ children[stack[k].target] # <<>>
         /\ Last(children[stack[k].target]) = stack[k + 1].target
    /\ LET t == Last(stack).target
       IN  Last(stack).child = IF children[t] = <<>> THEN first_subnode(t)
                               ELSE next_subnode(Last(children[t]))
    /\ \A t \in Targets : t >= Reached => children[t] = <<>>
    /\ \A t \in Nodes : t < Reached => OnStack(t) \/ Whole(t)

TreeInv ==
  /\ \A t \in Nodes : Chain(t)
  /\ initialized => root = 1 /\ \A t \in Nodes : Whole(t)

\* The generators of a walk lie one inside the other too; all targets before the one that
\* the innermost goes on with have been yielded.
GoesOnWith(w) == IF w.next = 1 THEN w.target + 1 ELSE After(children[w.target][w.next - 1])

WalkInv ==
  /\ seen = [j \in 1 .. Len(seen) |-> j]
  /\ walk = <<>> => Len(seen) \in {0, Len(depths)}
  /\ walk # <<>> =>
       /\ walk[1].target = 1
       /\ Len(seen) + 1 = GoesOnWith(Last(walk))
       /\ \A k \in 1 .. Len(walk) :
            walk[k].target \in Nodes /\ walk[k].next \in 1 .. Len(children[walk[k].target]) + 1
       /\ \A k \in 1 .. Len(walk) - 1 :
            /\ walk[k].next > 1
            /\ children[walk[k].target][walk[k].next - 1] = walk[k + 1].target

-----------------------------------------------------------------------------
(* The blob. *)

LEMMA MinIsLeast ==
  ASSUME NEW S \in SUBSET Nat, S # {}
  PROVE  Min(S) \in S /\ \A x \in S : Min(S) <= x
BY LeastNatural, Zenon DEF Min

\* What the depths of a blob's nodes are.
LEMMA BlobFacts ==
  ASSUME depths \in Blobs
  PROVE  /\ Len(depths) \in 1 .. MaxNodes /\ Nodes \subseteq Targets /\ Nodes \subseteq Nat
         /\ \A j \in Nodes : depths[j] \in Nat
         /\ depths[1] = 0
         /\ \A j \in Nodes : j > 1 => depths[j] >= 1 /\ depths[j] <= depths[j - 1] + 1
<1>1. PICK n \in 1 .. MaxNodes : depths \in [1 .. n -> 0 .. MaxNodes - 1]
  BY DEF Blobs
<1>2. n \in Nat /\ MaxNodes \in Nat
  BY MaxNodesAssumption
<1>3. Len(depths) = n
  BY <1>1, <1>2
<1>4. depths[1] = 0 /\ \A j \in 2 .. n : depths[j] \in 1 .. depths[j - 1] + 1
  BY <1>3 DEF Blobs
<1>5. \A j \in 1 .. n : depths[j] \in Nat
  BY <1>1, <1>2
<1>6. \A j \in 1 .. n : j > 1 => depths[j] >= 1 /\ depths[j] <= depths[j - 1] + 1
  <2>1. TAKE j \in 1 .. n
  <2>2. HAVE j > 1
  <2>3. j \in 2 .. n /\ j - 1 \in 1 .. n
    BY <1>2, <2>2
  <2>. QED
    BY <1>4, <1>5, <2>3
<1>. QED
  BY <1>2, <1>3, <1>4, <1>5, <1>6 DEF Nodes, Targets

\* The node behind those that a node encloses: all between are deeper, and it is not.
LEMMA AfterIs ==
  ASSUME depths \in Blobs, NEW i \in Nodes
  PROVE  /\ After(i) \in i + 1 .. Len(depths) + 1
         /\ \A j \in i + 1 .. After(i) - 1 : depths[j] > depths[i]
         /\ After(i) <= Len(depths) => After(i) \in Nodes /\ depths[After(i)] <= depths[i]
<1>1. Len(depths) \in Nat /\ i \in Nat /\ \A j \in Nodes : depths[j] \in Nat
  BY BlobFacts
<1>2. Outside(i) \subseteq Nat /\ Outside(i) \subseteq Nodes
  BY <1>1 DEF Outside, Nodes
<1>3. CASE Outside(i) = {}
  <2>1. After(i) = Len(depths) + 1
    BY <1>3 DEF After
  <2>2. \A j \in i + 1 .. Len(depths) : j \in Nodes
    BY <1>1 DEF Nodes
  <2>. QED
    BY <1>1, <1>3, <2>1, <2>2 DEF Outside, Nodes
<1>4. CASE Outside(i) # {}
  <2>1. /\ After(i) \in Outside(i) /\ \A x \in Outside(i) : After(i) <= x
    BY <1>2, <1>4, MinIsLeast DEF After
  <2>2. /\ After(i) \in i + 1 .. Len(depths) /\ depths[After(i)] <= depths[i]
        /\ After(i) \in Nat /\ After(i) \in Nodes
    BY <1>2, <2>1 DEF Outside
  <2>3. ASSUME NEW j \in i + 1 .. After(i) - 1
        PROVE  depths[j] > depths[i]
    <3>1. j \notin Outside(i) /\ j \in i + 1 .. Len(depths)
      BY <1>1, <2>1, <2>2
    <3>2. j \in Nodes
      BY <1>1, <3>1 DEF Nodes
    <3>. QED
      BY <1>1, <3>1, <3>2 DEF Outside
  <2>. QED
    BY <1>1, <2>2, <2>3
<1>. QED
  BY <1>3, <1>4

\* No other node is that.
LEMMA AfterIsOnly ==
  ASSUME depths \in Blobs, NEW i \in Nodes, NEW u \in i + 1 .. Len(depths) + 1,
         \A j \in i + 1 .. u - 1 : depths[j] > depths[i],
         u <= Len(depths) => depths[u] <= depths[i]
  PROVE  After(i) = u
<1>1. Len(depths) \in Nat /\ i \in Nat /\ \A j \in Nodes : depths[j] \in Nat
  BY BlobFacts
<1>2. u \in Nat /\ After(i) \in Nat
  BY <1>1, AfterIs
<1>3. ~(After(i) < u)
  <2>. SUFFICES ASSUME After(i) < u PROVE FALSE
    OBVIOUS
  <2>1. After(i) \in i + 1 .. u - 1 /\ After(i) <= Len(depths)
    BY <1>1, <1>2, AfterIs
  <2>. QED
    BY <1>1, <2>1, AfterIs
<1>4. ~(u < After(i))
  <2>. SUFFICES ASSUME u < After(i) PROVE FALSE
    OBVIOUS
  <2>1. u \in i + 1 .. After(i) - 1 /\ u <= Len(depths)
    BY <1>1, <1>2, AfterIs
  <2>2. u \in Nodes
    BY <1>1, <2>1 DEF Nodes
  <2>. QED
    BY <1>1, <2>1, <2>2, AfterIs
<1>. QED
  BY <1>2, <1>3, <1>4

\* The root encloses all other nodes.
LEMMA AfterRoot ==
  ASSUME depths \in Blobs
  PROVE  1 \in Nodes /\ After(1) = Len(depths) + 1
<1>1. Len(depths) \in Nat /\ 1 \in Nodes /\ 1 \in Nat
  BY BlobFacts DEF Nodes
<1>2. After(1) \in 2 .. Len(depths) + 1
  BY <1>1, AfterIs
<1>3. ~(After(1) <= Len(depths))
  <2>. SUFFICES ASSUME After(1) <= Len(depths) PROVE FALSE
    OBVIOUS
  <2>1. After(1) \in Nodes /\ depths[After(1)] <= depths[1]
    BY <1>1, AfterIs
  <2>2. depths[After(1)] >= 1 /\ depths[1] = 0 /\ depths[After(1)] \in Nat
    BY <1>1, <1>2, <2>1, BlobFacts
  <2>. QED
    BY <2>1, <2>2
<1>. QED
  BY <1>1, <1>2, <1>3

\* libfdt's next subnode is that node, if it is as deep.
LEMMA NextSubnodeIs ==
  ASSUME depths \in Blobs, NEW i \in Nodes
  PROVE  next_subnode(i) =
           IF After(i) <= Len(depths) /\ depths[After(i)] = depths[i] THEN After(i) ELSE None
<1>1. Len(depths) \in Nat
  BY BlobFacts
<1>2. next_subnode(i) =
        IF Outside(i) # {} /\ depths[Min(Outside(i))] = depths[i] THEN Min(Outside(i)) ELSE None
  BY DEF next_subnode, Outside
<1>3. CASE Outside(i) = {}
  BY <1>1, <1>2, <1>3 DEF After
<1>4. CASE Outside(i) # {}
  <2>1. After(i) = Min(Outside(i))
    BY <1>4 DEF After
  <2>2. Outside(i) \in SUBSET Nat
    BY <1>1, BlobFacts DEF Outside
  <2>3. Min(Outside(i)) <= Len(depths)
    <3>1. Min(Outside(i)) \in Outside(i)
      BY <1>4, <2>2, MinIsLeast
    <3>. QED
      BY <1>1, <3>1, BlobFacts DEF Outside
  <2>. QED
    BY <1>2, <1>4, <2>1, <2>3
<1>. QED
  BY <1>3, <1>4

\* A target without another child has its tree all there.
LEMMA NoMoreChildren ==
  ASSUME depths \in Blobs, NEW t \in Nodes, NEW u, u = Upto(t), u \in Nat,
         children[t] # <<>> =>
           /\ Last(children[t]) \in Nodes
           /\ Last(children[t]) > t
           /\ depths[Last(children[t])] = depths[t] + 1,
         \A j \in t + 1 .. u - 1 : depths[j] > depths[t],
         None = IF children[t] = <<>> THEN first_subnode(t) ELSE next_subnode(Last(children[t]))
  PROVE  Whole(t)
<1>1. /\ Len(depths) \in Nat /\ Nodes \subseteq Nat /\ t <= Len(depths)
      /\ \A j \in Nodes : depths[j] \in Nat
  BY BlobFacts DEF Nodes
<1>2. CASE children[t] = <<>>
  <2>1. u = t + 1
    BY <1>2 DEF Upto
  <2>2. t < Len(depths) => t + 1 \in Nodes /\ depths[t + 1] <= depths[t] + 1
                           /\ depths[t + 1] # depths[t] + 1
    <3>. SUFFICES ASSUME t < Len(depths)
                  PROVE  t + 1 \in Nodes /\ depths[t + 1] <= depths[t] + 1
                         /\ depths[t + 1] # depths[t] + 1
      OBVIOUS
    <3>1. t + 1 \in Nodes /\ t + 1 > 1 /\ (t + 1) - 1 = t
      BY <1>1 DEF Nodes
    <3>2. depths[t + 1] <= depths[t] + 1
      BY <3>1, BlobFacts
    <3>. QED
      BY <1>1, <1>2, <3>1, <3>2 DEF first_subnode, None
  <2>3. u <= Len(depths) => depths[u] <= depths[t]
    BY <1>1, <2>1, <2>2
  <2>. QED
    BY <1>1, <2>1, <2>3, AfterIsOnly DEF Whole
<1>3. CASE children[t] # <<>>
  <2>. DEFINE l == Last(children[t])
  <2>1. u = After(l) /\ l \in Nodes /\ l > t /\ depths[l] = depths[t] + 1
    BY <1>3 DEF Upto
  <2>2. u \in l + 1 .. Len(depths) + 1 /\ (u <= Len(depths) => u \in Nodes /\ depths[u] <= depths[l])
    BY <2>1, AfterIs
  <2>3. next_subnode(l) = None
    BY <1>3
  <2>4. u <= Len(depths) => depths[u] # depths[l]
    BY <1>1, <2>1, <2>2, <2>3, NextSubnodeIs DEF None
  <2>5. u <= Len(depths) => depths[u] <= depths[t]
    BY <1>1, <2>1, <2>2, <2>4
  <2>6. u \in t + 1 .. Len(depths) + 1
    <3>1. l \in Nat /\ t \in Nat
      BY <1>1, <2>1
    <3>. HIDE DEF l
    <3>. QED
      BY <1>1, <2>1, <2>2, <3>1
  <2>. QED
    BY <2>5, <2>6, AfterIsOnly DEF Whole
<1>. QED
  BY <1>2, <1>3

-----------------------------------------------------------------------------
(* The steps of the parser. *)

Inv == TypeOK /\ Accounted /\ ParseInv /\ TreeInv /\ WalkInv

\* While there is no finished tree there is no walk of one.
LEMMA NoWalkYet ==
  ASSUME Inv, ~initialized
  PROVE  walk = <<>>
BY DEF Inv, Accounted

\* A step elsewhere keeps what holds of the tree and of a walk.
LEMMA TreeUntouched ==
  ASSUME Inv, UNCHANGED <<depths, children, stack, walk, seen, root, initialized>>,
         op' # "parse" \/ op' = op
  PROVE  ParseInv' /\ TreeInv' /\ WalkInv'
<1>1. /\ \A t : Chain(t)' = Chain(t) /\ Whole(t)' = Whole(t) /\ Upto(t)' = Upto(t)
      /\ \A w : GoesOnWith(w)' = GoesOnWith(w)
      /\ \A i : first_subnode(i)' = first_subnode(i) /\ next_subnode(i)' = next_subnode(i)
      /\ \A t : OnStack(t)' = OnStack(t)
      /\ Nodes' = Nodes /\ Reached' = Reached
  BY DEF Chain, Whole, Upto, After, Outside, GoesOnWith, first_subnode, next_subnode, OnStack,
         Nodes, Reached
<1>2. ParseInv'
  BY <1>1 DEF Inv, ParseInv
<1>3. TreeInv'
  BY <1>1 DEF Inv, TreeInv
<1>4. WalkInv'
  BY <1>1 DEF Inv, WalkInv
<1>. QED
  BY <1>2, <1>3, <1>4

\* Without any children, and without a finished tree, there is nothing to keep.
LEMMA NoTreeYet ==
  ASSUME Inv, UNCHANGED <<depths, walk, seen, initialized>>, ~initialized,
         children' = [t \in Targets |-> <<>>]
  PROVE  TreeInv' /\ WalkInv'
<1>1. Nodes' = Nodes /\ Nodes \subseteq Targets
  BY BlobFacts DEF Inv, TypeOK, Nodes
<1>2. \A t \in Nodes : Chain(t)'
  <2>1. \A t \in Nodes : children'[t] = <<>>
    BY <1>1
  <2>. QED
    BY <2>1 DEF Chain
<1>3. TreeInv'
  BY <1>1, <1>2 DEF TreeInv
<1>4. walk = <<>>
  BY NoWalkYet
<1>. QED
  BY <1>3, <1>4 DEF Inv, WalkInv

\* A target of the stack and the frame of a call.
LEMMA CallTyped ==
  ASSUME depths \in Blobs, NEW t \in Nodes
  PROVE  Call(t) \in [target : Targets, child : Targets \cup {None}]
<1>1. Len(depths) \in 1 .. MaxNodes /\ t \in Targets /\ t \in Nat
  BY BlobFacts
<1>2. first_subnode(t) \in Targets \cup {None}
  BY <1>1, MaxNodesAssumption DEF first_subnode, Targets
<1>. QED
  BY <1>1, <1>2 DEF Call

LEMMA FindRootKeeps ==
  ASSUME Inv, FindRoot, Accounted'
  PROVE  Inv'
<1>1. CASE Throws
  <2>1. TypeOK'
    BY <1>1 DEF FindRoot, Throws, Inv, TypeOK, Ops, service, tree
  <2>2. /\ UNCHANGED <<depths, children, stack, walk, seen, root, initialized>>
        /\ op' = "idle"
    BY <1>1 DEF Throws, service, tree
  <2>. QED
    BY <2>1, <2>2, TreeUntouched DEF Inv
<1>2. CASE ~Throws
  <2>1. /\ op = "path_offset" /\ op' = "parse"
        /\ children' = [t \in Targets |-> <<>>]
        /\ parent' = [t \in Targets |-> None]
        /\ stack' = <<Call(1)>>
        /\ UNCHANGED <<depths, service, walk, seen, fds, maps>>
    BY <1>2 DEF FindRoot
  <2>2. ~initialized
    BY <2>1 DEF Inv, Accounted
  <2>3. /\ 1 \in Nodes /\ 1 \in Targets /\ depths[1] = 0 /\ Nodes' = Nodes
        /\ Nodes \subseteq Targets /\ Targets \subseteq Nat
    BY <2>1, BlobFacts DEF Inv, TypeOK, Nodes, Targets
  <2>4. TypeOK'
    <3>1. children' \in [Targets -> Seq(Targets)] /\ parent' \in [Targets -> Targets \cup {None}]
      BY <2>1
    <3>2. stack' \in Seq([target : Targets, child : Targets \cup {None}])
      BY <2>1, <2>3, CallTyped DEF Inv, TypeOK
    <3>. QED
      BY <2>1, <3>1, <3>2 DEF Inv, TypeOK, Ops, service
  <2>5. TreeInv' /\ WalkInv'
    BY <2>1, <2>2, NoTreeYet DEF service
  <2>6. ParseInv'
    <3>1. Len(stack') = 1 /\ stack'[1] = Call(1) /\ Last(stack') = Call(1)
      BY <2>1 DEF Last
    <3>2. Call(1).target = 1 /\ Call(1).child = first_subnode(1)
      BY DEF Call
    <3>3. \A t \in Targets : children'[t] = <<>>
      BY <2>1
    <3>4. Reached' = 2
      BY <2>3, <3>1, <3>2, <3>3 DEF Reached, Upto
    <3>5. first_subnode(1)' = first_subnode(1)
      BY <2>1 DEF first_subnode
    <3>6. \A t \in Nodes : t < 2 => OnStack(t)'
      <4>1. \A t \in Nodes : t < 2 => t = 1
        BY <2>3 DEF Targets
      <4>2. 1 \in 1 .. Len(stack') /\ stack'[1].target = 1
        BY <3>1, <3>2
      <4>3. OnStack(1)'
        BY <4>2 DEF OnStack
      <4>. QED
        BY <4>1, <4>3
    <3>. QED
      BY <2>1, <2>3, <3>1, <3>2, <3>3, <3>4, <3>5, <3>6 DEF ParseInv
  <2>. QED
    BY <2>4, <2>5, <2>6 DEF Inv
<1>. QED
  BY <1>1, <1>2

LEMMA ParseThrowsKeeps ==
  ASSUME Inv, ParseThrows, Accounted'
  PROVE  Inv'
<1>1. /\ op = "parse" /\ op' = "idle" /\ stack' = <<>>
      /\ children' = [t \in Targets |-> <<>>]
      /\ parent' = [t \in Targets |-> None]
      /\ UNCHANGED <<depths, fds, maps, service, walk, seen>>
  BY DEF ParseThrows
<1>2. TypeOK'
  <2>1. children' \in [Targets -> Seq(Targets)] /\ parent' \in [Targets -> Targets \cup {None}]
    BY <1>1
  <2>. QED
    BY <1>1, <2>1 DEF Inv, TypeOK, Ops, service
<1>3. ~initialized
  BY <1>1 DEF Inv, Accounted
<1>4. TreeInv' /\ WalkInv'
  BY <1>1, <1>3, NoTreeYet DEF service
<1>. QED
  BY <1>1, <1>2, <1>4 DEF Inv, ParseInv

\* What is known while the parser is at work: its innermost target t, on level m, the
\* last child of t if there is one, and the node reached.
LEMMA AtWork ==
  ASSUME Inv, op = "parse",
         NEW t, t = Last(stack).target,
         NEW m, m = Len(stack)
  PROVE  /\ m \in Nat \ {0} /\ stack[m].target = t /\ Last(stack) = stack[m]
         /\ t \in Nodes /\ t \in Targets /\ t \in Nat
         /\ depths[t] = m - 1
         /\ \A j \in t + 1 .. Reached - 1 : depths[j] > depths[t]
         /\ Reached = Upto(t) /\ Reached \in t + 1 .. Len(depths) + 1
         /\ children[t] # <<>> =>
               /\ Last(children[t]) \in Nodes /\ Last(children[t]) > t
               /\ Last(children[t]) >= t + Len(children[t])
               /\ depths[Last(children[t])] = depths[t] + 1
               /\ Reached = After(Last(children[t]))
         /\ ~initialized /\ walk = <<>>
<1>1. ParseInv /\ TreeInv /\ TypeOK /\ Accounted /\ depths \in Blobs
  BY DEF Inv, TypeOK
<1>2. /\ stack \in Seq([target : Targets, child : Targets \cup {None}])
      /\ stack # <<>>
  BY <1>1 DEF TypeOK, ParseInv
<1>3. m \in Nat \ {0} /\ Last(stack) = stack[m]
  BY <1>2 DEF Last
<1>4. /\ t \in Nodes /\ depths[t] = m - 1
      /\ \A j \in t + 1 .. Reached - 1 : depths[j] >= m
  BY <1>1, <1>3 DEF ParseInv
<1>5. t \in Targets /\ t \in Nat /\ Len(depths) \in Nat /\ t <= Len(depths)
  BY <1>1, <1>4, BlobFacts DEF Nodes
<1>6. children[t] \in Seq(Targets)
  BY <1>1, <1>5 DEF TypeOK
<1>7. ASSUME children[t] # <<>>
      PROVE  /\ Last(children[t]) \in Nodes /\ Last(children[t]) > t
             /\ Last(children[t]) >= t + Len(children[t])
             /\ depths[Last(children[t])] = depths[t] + 1
  <2>1. Len(children[t]) \in 1 .. Len(children[t]) /\ Len(children[t]) \in Nat \ {0}
    BY <1>6, <1>7
  <2>2. Chain(t)
    BY <1>1, <1>4 DEF TreeInv
  <2>3. /\ Last(children[t]) \in Nodes /\ Last(children[t]) >= t + Len(children[t])
        /\ depths[Last(children[t])] = depths[t] + 1
    BY <2>1, <2>2 DEF Chain, Last
  <2>4. Last(children[t]) \in Nat
    BY <1>1, <2>3, BlobFacts
  <2>. QED
    BY <1>5, <2>1, <2>3, <2>4
<1>8. Reached = Upto(t) /\ Reached \in t + 1 .. Len(depths) + 1
  <2>1. Reached = Upto(t)
    BY DEF Reached
  <2>2. CASE children[t] = <<>>
    BY <1>5, <2>1, <2>2 DEF Upto
  <2>3. CASE children[t] # <<>>
    <3>1. Reached = After(Last(children[t]))
      BY <2>1, <2>3 DEF Upto
    <3>2. Last(children[t]) \in Nat
      BY <1>1, <1>7, <2>3, BlobFacts
    <3>3. After(Last(children[t])) \in Last(children[t]) + 1 .. Len(depths) + 1
      BY <1>1, <1>7, <2>3, AfterIs
    <3>. QED
      BY <1>5, <1>7, <2>1, <2>3, <3>1, <3>2, <3>3
  <2>. QED
    BY <2>2, <2>3
<1>9. \A j \in t + 1 .. Reached - 1 : depths[j] > depths[t]
  <2>1. TAKE j \in t + 1 .. Reached - 1
  <2>2. j \in Nodes
    BY <1>5, <1>8 DEF Nodes
  <2>. QED
    BY <1>1, <1>3, <1>4, <2>2, BlobFacts
<1>10. ~initialized /\ walk = <<>>
  BY <1>1 DEF Accounted
<1>. QED
  BY <1>3, <1>4, <1>5, <1>7, <1>8, <1>9, <1>10 DEF Upto

\* A new child: it is the node reached, and its own call begins.
LEMMA ParseChildKeeps ==
  ASSUME Inv, ParseChild, Accounted'
  PROVE  Inv'
<1>. DEFINE t == Last(stack).target
            m == Len(stack)
            c == Last(stack).child
            u == Reached
<1>1. /\ op = "parse" /\ op' = "parse" /\ c # None
      /\ children' = [children EXCEPT ![t] = Append(@, c)]
      /\ parent' = [parent EXCEPT ![c] = t]
      /\ stack' = Append(stack, Call(c))
      /\ UNCHANGED <<depths, fds, maps, service, walk, seen>>
  BY DEF ParseChild, addChild
<1>2. /\ TypeOK /\ ParseInv /\ TreeInv /\ WalkInv /\ depths \in Blobs
      /\ Len(depths) \in Nat /\ Nodes \subseteq Targets /\ Nodes \subseteq Nat
      /\ \A j \in Nodes : depths[j] \in Nat
  BY BlobFacts DEF Inv, TypeOK
<1>3. /\ m \in Nat \ {0} /\ stack[m].target = t /\ Last(stack) = stack[m]
      /\ t \in Nodes /\ t \in Targets /\ t \in Nat
      /\ depths[t] = m - 1
      /\ \A j \in t + 1 .. u - 1 : depths[j] > depths[t]
      /\ u = Upto(t) /\ u \in t + 1 .. Len(depths) + 1 /\ u \in Nat
      /\ ~initialized /\ walk = <<>>
  BY <1>1, <1>2, AtWork
<1>4. children[t] # <<>> =>
        /\ Last(children[t]) \in Nodes /\ Last(children[t]) > t
        /\ Last(children[t]) >= t + Len(children[t])
        /\ depths[Last(children[t])] = depths[t] + 1
        /\ u = After(Last(children[t]))
  BY <1>1, AtWork
<1>5. c = u /\ u \in Nodes /\ depths[u] = m
  <2>1. c = IF children[t] = <<>> THEN first_subnode(t) ELSE next_subnode(Last(children[t]))
    BY <1>1, <1>2 DEF ParseInv
  <2>2. CASE children[t] = <<>>
    <3>1. c = first_subnode(t) /\ u = t + 1
      BY <1>3, <2>1, <2>2 DEF Upto
    <3>2. t < Len(depths) /\ depths[t + 1] = depths[t] + 1 /\ c = t + 1
      BY <1>1, <3>1 DEF first_subnode
    <3>. QED
      BY <1>2, <1>3, <3>1, <3>2 DEF Nodes
  <2>3. CASE children[t] # <<>>
    <3>1. c = next_subnode(Last(children[t])) /\ u = After(Last(children[t]))
      BY <1>4, <2>1, <2>3
    <3>2. ASSUME NEW l \in Nodes, c = next_subnode(l), u = After(l)
          PROVE  u <= Len(depths) /\ depths[u] = depths[l] /\ c = u
      BY <1>1, <1>2, <3>2, NextSubnodeIs
    <3>3. u <= Len(depths) /\ depths[u] = depths[Last(children[t])] /\ c = u
      BY <1>4, <2>3, <3>1, <3>2
    <3>. QED
      BY <1>2, <1>3, <1>4, <2>3, <3>3 DEF Nodes
  <2>. QED
    BY <2>2, <2>3
<1>. HIDE DEF t, m, c, u
<1>6. /\ children'[t] = Append(children[t], u) /\ children[t] \in Seq(Targets)
      /\ \A i \in Targets : i # t => children'[i] = children[i]
      /\ u \in Targets /\ u # t
  BY <1>1, <1>2, <1>3, <1>5 DEF TypeOK
<1>7. /\ Len(stack') = m + 1 /\ Last(stack') = Call(u) /\ stack'[m + 1] = Call(u)
      /\ \A k \in 1 .. m : stack'[k] = stack[k]
      /\ stack' \in Seq([target : Targets, child : Targets \cup {None}])
  <2>1. Call(u) \in [target : Targets, child : Targets \cup {None}]
    BY <1>2, <1>5, CallTyped
  <2>2. stack \in Seq([target : Targets, child : Targets \cup {None}])
    BY <1>2 DEF TypeOK
  <2>. QED
    BY <1>1, <1>5, <2>1, <2>2 DEF Last, m
<1>8. Call(u).target = u /\ Call(u).child = first_subnode(u)
  BY DEF Call
<1>9. /\ Nodes' = Nodes /\ \A i : After(i)' = After(i)
      /\ \A i : first_subnode(i)' = first_subnode(i)
  BY <1>1 DEF Nodes, After, Outside, first_subnode
<1>10. children[u] = <<>> /\ children'[u] = <<>>
  BY <1>1, <1>2, <1>3, <1>6 DEF ParseInv, u
<1>11. Reached' = u + 1
  BY <1>7, <1>8, <1>10 DEF Reached, Upto
<1>12. TypeOK'
  <2>1. children' \in [Targets -> Seq(Targets)]
    BY <1>1, <1>2, <1>5, <1>6 DEF TypeOK
  <2>2. parent' \in [Targets -> Targets \cup {None}]
    BY <1>1, <1>2, <1>3 DEF TypeOK
  <2>. QED
    BY <1>1, <1>2, <1>7, <2>1, <2>2 DEF TypeOK, service
<1>13. \A i \in Nodes : Chain(i)'
  <2>1. TAKE i \in Nodes
  <2>2. Chain(i) /\ i \in Targets
    BY <1>2 DEF TreeInv
  <2>3. CASE i # t
    <3>1. children'[i] = children[i] /\ depths' = depths
      BY <1>1, <1>6, <2>2, <2>3
    <3>. SUFFICES ASSUME NEW k \in 1 .. Len(children[i])
                  PROVE  /\ children[i][k] \in Nodes
                         /\ children[i][k] >= i + k
                         /\ depths[children[i][k]] = depths[i] + 1
                         /\ children[i][k] = IF k = 1 THEN i + 1 ELSE After(children[i][k - 1])
      BY <1>9, <3>1 DEF Chain
    <3>. QED
      BY <2>2 DEF Chain
  <2>4. CASE i = t
    <3>. DEFINE n == Len(children[t])
    <3>1. /\ n \in Nat /\ Len(children'[t]) = n + 1 /\ children'[t][n + 1] = u
          /\ \A k \in 1 .. n : children'[t][k] = children[t][k]
      BY <1>6
    <3>2. u >= t + (n + 1) /\ u = IF n + 1 = 1 THEN t + 1 ELSE After(children'[t][n])
      <4>1. CASE n = 0
        <5>1. children[t] = <<>>
          BY <1>6, <4>1
        <5>. QED
          BY <1>3, <4>1, <5>1 DEF Upto
      <4>2. CASE n # 0
        <5>1. children[t] # <<>> /\ Last(children[t]) = children'[t][n]
          BY <1>6, <3>1, <4>2 DEF Last
        <5>2. \A l \in Nodes : l \in Nat /\ After(l) \in Nat /\ After(l) >= l + 1
          BY <1>2, AfterIs
        <5>3. Last(children[t]) \in Nat /\ After(Last(children[t])) >= Last(children[t]) + 1
          BY <1>4, <5>1, <5>2
        <5>. QED
          BY <1>3, <1>4, <3>1, <4>2, <5>1, <5>3
      <4>. QED
        BY <4>1, <4>2
    <3>3. depths[u] = depths[t] + 1
      BY <1>3, <1>5
    <3>4. ASSUME NEW k \in 1 .. n + 1
          PROVE  /\ children'[t][k] \in Nodes
                 /\ children'[t][k] >= t + k
                 /\ depths[children'[t][k]] = depths[t] + 1
                 /\ children'[t][k] = IF k = 1 THEN t + 1 ELSE After(children'[t][k - 1])
      <4>1. CASE k = n + 1
        BY <1>5, <3>1, <3>2, <3>3, <4>1
      <4>2. CASE k # n + 1
        <5>1. k \in 1 .. n /\ (k # 1 => k - 1 \in 1 .. n)
          BY <3>1, <4>2
        <5>2. children'[t][k] = children[t][k] /\ (k # 1 => children'[t][k - 1] = children[t][k - 1])
          BY <3>1, <5>1
        <5>. QED
          BY <2>2, <2>4, <5>1, <5>2 DEF Chain
      <4>. QED
        BY <4>1, <4>2
    <3>. QED
      BY <1>1, <1>9, <2>4, <3>1, <3>4 DEF Chain
  <2>. QED
    BY <2>3, <2>4
<1>14. TreeInv' /\ WalkInv'
  <2>1. ~initialized'
    BY <1>1, <1>3 DEF service
  <2>. QED
    BY <1>1, <1>2, <1>3, <1>9, <1>13, <2>1 DEF TreeInv, WalkInv
<1>15. \A k \in 1 .. m : stack[k].target \in Nodes /\ depths[stack[k].target] = k - 1
  BY <1>1, <1>2 DEF ParseInv, m
<1>16. \A k \in 1 .. Len(stack') :
         /\ stack'[k].target \in Nodes
         /\ depths[stack'[k].target] = k - 1
         /\ \A j \in stack'[k].target + 1 .. Reached' - 1 : depths[j] >= k
  <2>1. TAKE k \in 1 .. Len(stack')
  <2>2. CASE k = m + 1
    <3>1. (m + 1) - 1 = m /\ u + 1 .. (u + 1) - 1 = {}
      BY <1>3
    <3>. QED
      BY <1>5, <1>7, <1>8, <1>11, <2>2, <3>1
  <2>3. CASE k # m + 1
    <3>1. k \in 1 .. m /\ stack'[k] = stack[k]
      BY <1>3, <1>7, <2>3
    <3>2. \A j \in stack[k].target + 1 .. u - 1 : depths[j] >= k
      BY <1>1, <1>2, <3>1 DEF ParseInv, m, u
    <3>3. stack[k].target \in Nat
      BY <1>2, <1>15, <3>1
    <3>4. \A j \in stack[k].target + 1 .. (u + 1) - 1 : j = u \/ j \in stack[k].target + 1 .. u - 1
      BY <1>3, <3>3
    <3>5. depths[u] >= k
      BY <1>3, <1>5, <3>1
    <3>. QED
      BY <1>11, <1>15, <3>1, <3>2, <3>4, <3>5
  <2>. QED
    BY <2>2, <2>3
<1>17. \A k \in 1 .. Len(stack') - 1 :
         /\ children'[stack'[k].target] # <<>>
         /\ Last(children'[stack'[k].target]) = stack'[k + 1].target
  <2>1. TAKE k \in 1 .. Len(stack') - 1
  <2>2. k \in 1 .. m /\ stack'[k] = stack[k]
    BY <1>3, <1>7
  <2>3. CASE k = m
    <3>1. children'[t] # <<>> /\ Last(children'[t]) = u
      BY <1>6 DEF Last
    <3>. QED
      BY <1>3, <1>7, <1>8, <2>2, <2>3, <3>1
  <2>4. CASE k # m
    <3>1. k \in 1 .. m - 1 /\ k + 1 \in 1 .. m /\ stack'[k + 1] = stack[k + 1]
      BY <1>3, <1>7, <2>2, <2>4
    <3>2. stack[k].target # t
      BY <1>3, <1>15, <2>2, <2>4
    <3>3. children'[stack[k].target] = children[stack[k].target]
      BY <1>2, <1>6, <1>15, <2>2, <3>2
    <3>. QED
      BY <1>1, <1>2, <2>2, <3>1, <3>3 DEF ParseInv, m
  <2>. QED
    BY <2>3, <2>4
<1>18. \A i \in Targets : i >= u + 1 => children'[i] = <<>>
  <2>1. TAKE i \in Targets
  <2>2. HAVE i >= u + 1
  <2>3. i \in Nat
    BY MaxNodesAssumption DEF Targets
  <2>4. i >= u /\ i # t
    BY <1>3, <2>2, <2>3
  <2>. QED
    BY <1>1, <1>2, <1>6, <2>4 DEF ParseInv, u
<1>19. \A i \in Nodes : i < u + 1 => OnStack(i)' \/ Whole(i)'
  <2>1. TAKE i \in Nodes
  <2>2. HAVE i < u + 1
  <2>3. CASE i = u
    <3>1. m + 1 \in 1 .. Len(stack') /\ stack'[m + 1].target = u
      BY <1>3, <1>7, <1>8
    <3>. QED
      BY <2>3, <3>1 DEF OnStack
  <2>4. ASSUME OnStack(i)
        PROVE  OnStack(i)'
    <3>1. PICK k \in 1 .. m : stack[k].target = i
      BY <2>4 DEF OnStack, m
    <3>2. k \in 1 .. Len(stack') /\ stack'[k].target = i
      BY <1>3, <1>7, <3>1
    <3>. QED
      BY <3>2 DEF OnStack
  <2>5. CASE i # u
    <3>1. i < u
      BY <1>2, <1>3, <2>2, <2>5
    <3>2. OnStack(i) \/ Whole(i)
      BY <1>1, <1>2, <3>1 DEF ParseInv, u
    <3>3. CASE i = t
      <4>1. m \in 1 .. m
        BY <1>3
      <4>2. OnStack(i)
        BY <1>3, <3>3, <4>1 DEF OnStack, m
      <4>. QED
        BY <2>4, <4>2
    <3>4. CASE i # t
      <4>1. children'[i] = children[i]
        BY <1>2, <1>6, <3>4
      <4>2. Whole(i)' = Whole(i)
        BY <1>9, <4>1 DEF Whole, Upto
      <4>. QED
        BY <2>4, <3>2, <4>2
    <3>. QED
      BY <3>3, <3>4
  <2>. QED
    BY <2>3, <2>5
<1>20. ParseInv'
  <2>1. stack' # <<>> /\ stack'[1].target = 1
    <3>1. stack[1].target = 1 /\ 1 \in 1 .. m
      BY <1>1, <1>2, <1>3 DEF ParseInv
    <3>2. stack'[1] = stack[1]
      BY <1>7, <3>1
    <3>3. stack' # <<>>
      BY <1>3, <1>7
    <3>. QED
      BY <3>1, <3>2, <3>3
  <2>2. LET i == Last(stack').target
        IN  /\ children'[i] = <<>>
            /\ Last(stack').child = IF i < Len(depths') /\ depths'[i + 1] = depths'[i] + 1
                                    THEN i + 1 ELSE None
    BY <1>1, <1>7, <1>8, <1>10 DEF first_subnode
  <2>3. (LET i == Last(stack).target
         IN  Last(stack).child = IF children[i] = <<>> THEN first_subnode(i)
                                 ELSE next_subnode(Last(children[i])))'
    BY <2>2 DEF first_subnode
  <2>. QED
    BY <1>1, <1>9, <1>11, <1>16, <1>17, <1>18, <1>19, <2>1, <2>3 DEF ParseInv
<1>. QED
  BY <1>12, <1>14, <1>20 DEF Inv

\* A call that finds no other child has made its target's tree.
LEMMA InnermostIsWhole ==
  ASSUME Inv, op = "parse", Last(stack).child = None
  PROVE  Whole(Last(stack).target)
<1>. DEFINE t == Last(stack).target
<1>1. ParseInv /\ depths \in Blobs
  BY DEF Inv, TypeOK
<1>2. /\ t \in Nodes /\ t \in Nat /\ Reached = Upto(t) /\ Reached \in t + 1 .. Len(depths) + 1
      /\ \A j \in t + 1 .. Reached - 1 : depths[j] > depths[t]
      /\ children[t] # <<>> =>
            /\ Last(children[t]) \in Nodes /\ Last(children[t]) > t
            /\ depths[Last(children[t])] = depths[t] + 1
  BY AtWork
<1>3. Reached \in Nat
  BY <1>1, <1>2, BlobFacts
<1>4. None = IF children[t] = <<>> THEN first_subnode(t) ELSE next_subnode(Last(children[t]))
  BY <1>1 DEF ParseInv
<1>. HIDE DEF t
<1>5. Whole(t)
  BY <1>1, <1>2, <1>3, <1>4, NoMoreChildren
<1>. QED
  BY <1>5 DEF t

\* A call returns: the one it was made by goes on behind the finished child.
LEMMA NodeParsedKeeps ==
  ASSUME Inv, NodeParsed, Accounted'
  PROVE  Inv'
<1>. DEFINE t == Last(stack).target
            m == Len(stack)
<1>1. /\ op = "parse" /\ op' = "parse" /\ Last(stack).child = None /\ m > 1
      /\ stack' = [SubSeq(stack, 1, m - 1) EXCEPT ![m - 1].child = next_subnode(t)]
      /\ UNCHANGED <<depths, fds, maps, service, children, parent, walk, seen>>
  BY DEF NodeParsed, Returned, tree, Last
<1>2. /\ TypeOK /\ ParseInv /\ TreeInv /\ WalkInv /\ depths \in Blobs
      /\ Len(depths) \in Nat /\ Nodes \subseteq Targets /\ Nodes \subseteq Nat
  BY BlobFacts DEF Inv, TypeOK
<1>3. /\ m \in Nat \ {0} /\ stack[m].target = t /\ t \in Nodes /\ Reached = Upto(t)
      /\ ~initialized /\ walk = <<>>
  BY <1>1, <1>2, AtWork
<1>4. Whole(t)
  BY <1>1, InnermostIsWhole
<1>5. next_subnode(t) \in Targets \cup {None}
  BY <1>2, <1>3, NextSubnodeIs, AfterIs
<1>. HIDE DEF t, m
<1>6. /\ Len(stack') = m - 1 /\ m - 1 \in Nat \ {0}
      /\ \A k \in 1 .. m - 1 : stack'[k].target = stack[k].target
      /\ Last(stack').target = stack[m - 1].target /\ Last(stack').child = next_subnode(t)
      /\ stack' \in Seq([target : Targets, child : Targets \cup {None}])
  <2>. DEFINE Frames == [target : Targets, child : Targets \cup {None}]
              s == SubSeq(stack, 1, m - 1)
  <2>0. m \in Nat /\ m > 1
    BY <1>1, <1>3
  <2>1. stack \in Seq(Frames) /\ m - 1 \in Nat /\ m - 1 # 0
    BY <1>2, <2>0 DEF TypeOK
  <2>2. s \in Seq(Frames) /\ Len(s) = m - 1 /\ \A k \in 1 .. m - 1 : s[k] = stack[k] /\ s[k] \in Frames
    <3>. HIDE DEF Frames
    <3>1. 1 \in 1 .. Len(stack) + 1 /\ m - 1 \in 0 .. Len(stack)
      BY <2>0 DEF m
    <3>2. s \in Seq(Frames) /\ Len(s) = m - 1 /\ \A k \in 1 .. m - 1 : s[k] = stack[k]
      BY <2>0, <2>1, <3>1
    <3>3. \A k \in 1 .. m - 1 : s[k] \in Frames
      BY <3>2, ElementOfSeq
    <3>. QED
      BY <3>2, <3>3
  <2>. HIDE DEF s
  <2>3. stack' = [s EXCEPT ![m - 1] = [s[m - 1] EXCEPT !.child = next_subnode(t)]]
    BY <1>1, <2>2 DEF s
  <2>4. m - 1 \in 1 .. m - 1
    BY <2>0
  <2>5. /\ [s[m - 1] EXCEPT !.child = next_subnode(t)] \in Frames
        /\ [s[m - 1] EXCEPT !.child = next_subnode(t)].target = stack[m - 1].target
        /\ [s[m - 1] EXCEPT !.child = next_subnode(t)].child = next_subnode(t)
    BY <1>5, <2>2, <2>4
  <2>. HIDE DEF Frames
  <2>6. stack' \in Seq(Frames) /\ Len(stack') = m - 1
    BY <2>2, <2>3, <2>4, <2>5, ExceptSeq
  <2>7. \A k \in 1 .. m - 1 :
          stack'[k] = IF k = m - 1 THEN [s[m - 1] EXCEPT !.child = next_subnode(t)] ELSE s[k]
    BY <2>2, <2>3, <2>4, <2>5, ExceptSeq
  <2>. QED
    BY <2>0, <2>1, <2>2, <2>4, <2>5, <2>6, <2>7 DEF Last, Frames
<1>7. /\ Nodes' = Nodes /\ \A i : After(i)' = After(i)
      /\ \A i : first_subnode(i)' = first_subnode(i) /\ next_subnode(i)' = next_subnode(i)
      /\ \A i : Chain(i)' = Chain(i) /\ Whole(i)' = Whole(i) /\ Upto(i)' = Upto(i)
  BY <1>1 DEF Nodes, After, Outside, first_subnode, next_subnode, Chain, Whole, Upto
<1>8. TypeOK'
  BY <1>1, <1>2, <1>6 DEF TypeOK, service
<1>9. TreeInv' /\ WalkInv'
  BY <1>1, <1>2, <1>3, <1>7 DEF TreeInv, WalkInv, service
<1>10. /\ m - 1 \in 1 .. m - 1 /\ m - 1 \in 1 .. m /\ (m - 1) + 1 = m
       /\ children[stack[m - 1].target] # <<>>
       /\ Last(children[stack[m - 1].target]) = t
  <2>0. m \in Nat /\ m > 1
    BY <1>1, <1>3
  <2>1. m - 1 \in 1 .. m - 1 /\ m - 1 \in 1 .. m /\ (m - 1) + 1 = m
    BY <2>0
  <2>. QED
    BY <1>1, <1>2, <1>3, <2>1 DEF ParseInv, m
<1>11. Reached' = Reached
  <2>1. Reached' = After(t)
    BY <1>1, <1>6, <1>7, <1>10 DEF Reached, Upto, After, Outside
  <2>. QED
    BY <1>3, <1>4, <2>1 DEF Whole
<1>12. \A k \in 1 .. Len(stack') :
         /\ stack'[k].target \in Nodes
         /\ depths[stack'[k].target] = k - 1
         /\ \A j \in stack'[k].target + 1 .. Reached' - 1 : depths[j] >= k
  <2>1. TAKE k \in 1 .. Len(stack')
  <2>2. k \in 1 .. m /\ stack'[k].target = stack[k].target
    BY <1>3, <1>6
  <2>. QED
    BY <1>1, <1>2, <1>11, <2>2 DEF ParseInv, m
<1>13. \A k \in 1 .. Len(stack') - 1 :
         /\ children'[stack'[k].target] # <<>>
         /\ Last(children'[stack'[k].target]) = stack'[k + 1].target
  <2>1. TAKE k \in 1 .. Len(stack') - 1
  <2>2. /\ k \in 1 .. m - 1 /\ stack'[k].target = stack[k].target
        /\ stack'[k + 1].target = stack[k + 1].target
    <3>1. k \in 1 .. m - 1 /\ k + 1 \in 1 .. m - 1
      BY <1>6
    <3>. QED
      BY <1>6, <3>1
  <2>. QED
    BY <1>1, <1>2, <2>2 DEF ParseInv, m
<1>14. \A i \in Nodes : i < Reached => OnStack(i)' \/ Whole(i)
  <2>1. TAKE i \in Nodes
  <2>2. HAVE i < Reached
  <2>3. CASE i = t
    BY <1>4, <2>3
  <2>4. CASE i # t
    <3>1. OnStack(i) \/ Whole(i)
      BY <1>1, <1>2, <2>2 DEF ParseInv
    <3>2. ASSUME OnStack(i)
          PROVE  OnStack(i)'
      <4>1. PICK k \in 1 .. m : stack[k].target = i
        BY <3>2 DEF OnStack, m
      <4>2. k \in 1 .. m - 1
        BY <1>3, <2>4, <4>1
      <4>3. k \in 1 .. Len(stack') /\ stack'[k].target = i
        BY <1>6, <4>1, <4>2
      <4>. QED
        BY <4>3 DEF OnStack
    <3>. QED
      BY <3>1, <3>2
  <2>. QED
    BY <2>3, <2>4
<1>15. ParseInv'
  <2>1. stack' # <<>> /\ stack'[1].target = 1
    <3>1. stack[1].target = 1 /\ 1 \in 1 .. m - 1
      BY <1>1, <1>2, <1>6 DEF ParseInv
    <3>2. stack' # <<>>
      BY <1>6
    <3>. QED
      BY <1>6, <3>1, <3>2
  <2>2. LET i == Last(stack').target
            l == Last(children'[i])
            out == {j \in l + 1 .. Len(depths') : depths'[j] <= depths'[l]}
        IN  /\ children'[i] # <<>>
            /\ Last(stack').child =
                 IF out # {} /\ depths'[Min(out)] = depths'[l] THEN Min(out) ELSE None
    BY <1>1, <1>6, <1>10 DEF next_subnode
  <2>3. (LET i == Last(stack).target
         IN  Last(stack).child = IF children[i] = <<>> THEN first_subnode(i)
                                 ELSE next_subnode(Last(children[i])))'
    BY <2>2 DEF next_subnode
  <2>4. \A i \in Targets : i >= Reached => children[i] = <<>>
    BY <1>1, <1>2 DEF ParseInv
  <2>. QED
    BY <1>1, <1>7, <1>11, <1>12, <1>13, <1>14, <2>1, <2>3, <2>4 DEF ParseInv
<1>. QED
  BY <1>8, <1>9, <1>15 DEF Inv

\* The outermost call returns: every node's tree is there, as the root encloses them all.
LEMMA TreeParsedKeeps ==
  ASSUME Inv, TreeParsed, Accounted'
  PROVE  Inv'
<1>1. /\ op = "parse" /\ op' = "idle" /\ Last(stack).child = None /\ Len(stack) = 1
      /\ stack' = <<>> /\ root' = 1 /\ rootFdt' = loader /\ initialized' = TRUE
      /\ UNCHANGED <<depths, fds, maps, loader, children, parent, walk, seen>>
  BY DEF TreeParsed, RootOf, tree
<1>2. /\ TypeOK /\ ParseInv /\ TreeInv /\ WalkInv /\ Accounted /\ depths \in Blobs
      /\ Len(depths) \in Nat /\ Nodes \subseteq Nat
  BY BlobFacts DEF Inv, TypeOK
<1>3. Last(stack).target = 1 /\ stack[1].target = 1
  BY <1>1, <1>2 DEF ParseInv, Last
<1>4. Reached = Upto(1) /\ Whole(1) /\ 1 \in Nodes /\ walk = <<>>
  BY <1>1, <1>3, AtWork, InnermostIsWhole
<1>5. Reached = Len(depths) + 1
  BY <1>2, <1>4, AfterRoot DEF Whole
<1>6. \A i \in Nodes : Whole(i)
  <2>1. TAKE i \in Nodes
  <2>2. i < Reached
    BY <1>2, <1>5 DEF Nodes
  <2>3. OnStack(i) => i = 1
    BY <1>1, <1>3 DEF OnStack
  <2>. QED
    BY <1>1, <1>2, <1>4, <2>2, <2>3 DEF ParseInv
<1>7. Nodes' = Nodes /\ \A i : Chain(i)' = Chain(i) /\ Whole(i)' = Whole(i)
  BY <1>1 DEF Nodes, After, Outside, Chain, Whole, Upto
<1>8. TypeOK'
  <2>1. 1 \in Targets /\ stack' \in Seq([target : Targets, child : Targets \cup {None}])
    BY <1>1, <1>2, <1>4, BlobFacts
  <2>. QED
    BY <1>1, <1>2, <2>1 DEF TypeOK, Ops
<1>9. TreeInv' /\ WalkInv' /\ ParseInv'
  BY <1>1, <1>2, <1>4, <1>6, <1>7 DEF TreeInv, WalkInv, ParseInv
<1>. QED
  BY <1>8, <1>9 DEF Inv

-----------------------------------------------------------------------------
(* The steps of a walk. *)

\* A walk sees a finished tree and leaves it as it is.
LEMMA WalkLeavesTree ==
  ASSUME Inv, UNCHANGED <<depths, op, fds, maps, service, tree, stack>>, op = "idle",
         walk' \in Seq([target : Targets, next : 1 .. MaxNodes]), seen' \in Seq(Targets)
  PROVE  /\ TypeOK' /\ ParseInv' /\ TreeInv'
         /\ \A w : GoesOnWith(w)' = GoesOnWith(w)
         /\ children' = children /\ Nodes' = Nodes /\ depths' = depths
<1>1. TypeOK'
  BY DEF Inv, TypeOK, service, tree
<1>2. /\ Nodes' = Nodes /\ \A i : Chain(i)' = Chain(i) /\ Whole(i)' = Whole(i)
      /\ \A w : GoesOnWith(w)' = GoesOnWith(w)
  BY DEF tree, Nodes, After, Outside, Chain, Whole, Upto, GoesOnWith
<1>3. ParseInv' /\ TreeInv'
  BY <1>2 DEF Inv, ParseInv, TreeInv, service
<1>. QED
  BY <1>1, <1>2, <1>3 DEF tree

LEMMA BeginKeeps ==
  ASSUME Inv, Begin, Accounted'
  PROVE  Inv'
<1>1. /\ op = "idle" /\ initialized /\ walk = <<>>
      /\ walk' = <<[target |-> root, next |-> 1]>> /\ seen' = <<root>>
      /\ UNCHANGED <<depths, op, fds, maps, service, tree, stack>>
  BY DEF Begin
<1>2. root = 1 /\ 1 \in Nodes /\ 1 \in Targets /\ 1 \in 1 .. MaxNodes /\ TypeOK
  BY <1>1, AfterRoot, BlobFacts DEF Inv, TypeOK, TreeInv, Targets
<1>3. walk' \in Seq([target : Targets, next : 1 .. MaxNodes]) /\ seen' \in Seq(Targets)
  BY <1>1, <1>2
<1>4. TypeOK' /\ ParseInv' /\ TreeInv' /\ children' = children /\ Nodes' = Nodes
  BY <1>1, <1>3, WalkLeavesTree
<1>5. WalkInv'
  <2>1. /\ Len(walk') = 1 /\ walk'[1] = [target |-> 1, next |-> 1] /\ Last(walk') = walk'[1]
        /\ walk' # <<>> /\ Len(seen') = 1 /\ seen'[1] = 1
    BY <1>1, <1>2 DEF Last
  <2>2. seen' = [j \in 1 .. Len(seen') |-> j]
    BY <1>1, <1>2
  <2>3. children[1] \in Seq(Targets)
    BY <1>2 DEF TypeOK
  <2>. QED
    BY <1>2, <1>4, <2>1, <2>2, <2>3 DEF WalkInv, GoesOnWith
<1>. QED
  BY <1>4, <1>5 DEF Inv

LEMMA LeaveKeeps ==
  ASSUME Inv, Leave, Accounted'
  PROVE  Inv'
<1>1. /\ op = "idle" /\ walk' = <<>> /\ seen' = <<>>
      /\ UNCHANGED <<depths, op, fds, maps, service, tree, stack>>
  BY DEF Leave
<1>2. TypeOK' /\ ParseInv' /\ TreeInv'
  BY <1>1, WalkLeavesTree
<1>3. WalkInv'
  BY <1>1 DEF WalkInv
<1>. QED
  BY <1>2, <1>3 DEF Inv

\* What is known in a walk: its innermost generator is at a target whose children follow
\* one another, and what it goes on with is the next child or the node behind them all.
LEMMA InAWalk ==
  ASSUME Inv, walk # <<>>, NEW w, w = Last(walk), NEW m, m = Len(walk)
  PROVE  /\ initialized /\ m \in Nat \ {0} /\ walk[m] = w
         /\ walk \in Seq([target : Targets, next : 1 .. MaxNodes])
         /\ w \in [target : Targets, next : 1 .. MaxNodes]
         /\ w.target \in Nodes /\ w.target \in Nat /\ w.next \in Nat \ {0}
         /\ children[w.target] \in Seq(Targets)
         /\ w.next <= Len(children[w.target]) =>
               /\ children[w.target][w.next] = GoesOnWith(w)
               /\ children[w.target][w.next] \in Nodes
               /\ w.next + 1 \in 1 .. MaxNodes
         /\ w.next > Len(children[w.target]) => GoesOnWith(w) = After(w.target)
         /\ GoesOnWith(w) = Len(seen) + 1
<1>1. TypeOK /\ TreeInv /\ WalkInv /\ depths \in Blobs /\ initialized
  BY DEF Inv, TypeOK, Accounted
<1>2. /\ walk \in Seq([target : Targets, next : 1 .. MaxNodes])
      /\ m \in Nat \ {0} /\ walk[m] = w /\ m \in 1 .. Len(walk)
      /\ w \in [target : Targets, next : 1 .. MaxNodes]
  <2>. DEFINE Generators == [target : Targets, next : 1 .. MaxNodes]
  <2>1. walk \in Seq(Generators)
    BY <1>1 DEF TypeOK
  <2>. HIDE DEF Generators
  <2>2. m \in Nat \ {0} /\ walk[m] = w /\ m \in 1 .. Len(walk)
    BY <2>1 DEF Last
  <2>3. w \in Generators
    BY <2>1, <2>2, ElementOfSeq
  <2>. QED
    BY <2>1, <2>2, <2>3 DEF Generators
<1>3. /\ w.target \in Nodes /\ w.next \in 1 .. Len(children[w.target]) + 1
      /\ GoesOnWith(w) = Len(seen) + 1
  BY <1>1, <1>2 DEF WalkInv
<1>4. /\ w.target \in Nat /\ w.target >= 1 /\ w.target \in Targets
      /\ children[w.target] \in Seq(Targets) /\ Chain(w.target) /\ Whole(w.target)
      /\ w.next \in Nat \ {0} /\ Len(children[w.target]) \in Nat
  BY <1>1, <1>3, BlobFacts DEF TypeOK, TreeInv, Nodes
<1>5. ASSUME w.next <= Len(children[w.target])
      PROVE  /\ children[w.target][w.next] = GoesOnWith(w)
             /\ children[w.target][w.next] \in Nodes
             /\ w.next + 1 \in 1 .. MaxNodes
  <2>1. /\ children[w.target][w.next] \in Nodes
        /\ children[w.target][w.next] >= w.target + w.next
        /\ children[w.target][w.next] = GoesOnWith(w)
    BY <1>4, <1>5 DEF Chain, GoesOnWith
  <2>2. children[w.target][w.next] \in 1 .. MaxNodes /\ MaxNodes \in Nat
    BY <1>1, <2>1, BlobFacts, MaxNodesAssumption DEF Targets
  <2>. QED
    BY <1>4, <2>1, <2>2
<1>6. ASSUME w.next > Len(children[w.target])
      PROVE  GoesOnWith(w) = After(w.target)
  <2>1. w.next = Len(children[w.target]) + 1
    BY <1>3, <1>4, <1>6
  <2>2. GoesOnWith(w) = Upto(w.target)
    BY <1>4, <2>1 DEF GoesOnWith, Upto, Last
  <2>. QED
    BY <1>4, <2>2 DEF Whole
<1>. QED
  BY <1>1, <1>2, <1>3, <1>4, <1>5, <1>6

LEMMA DescendKeeps ==
  ASSUME Inv, Descend, Accounted'
  PROVE  Inv'
<1>. DEFINE w == Last(walk)
            m == Len(walk)
            c == children[w.target][w.next]
            Generators == [target : Targets, next : 1 .. MaxNodes]
<1>1. /\ op = "idle" /\ walk # <<>> /\ w.next <= Len(children[w.target])
      /\ walk' = Append([walk EXCEPT ![m].next = @ + 1], [target |-> c, next |-> 1])
      /\ seen' = Append(seen, c)
      /\ UNCHANGED <<depths, op, fds, maps, service, tree, stack>>
  BY DEF Descend, HasNext, Advanced
<1>2. /\ m \in Nat \ {0} /\ walk[m] = w /\ walk \in Seq(Generators) /\ w \in Generators
      /\ w.target \in Nodes /\ w.next \in Nat \ {0}
      /\ c = GoesOnWith(w) /\ c \in Nodes /\ w.next + 1 \in 1 .. MaxNodes
      /\ c = Len(seen) + 1
  BY <1>1, InAWalk
<1>3. /\ TypeOK /\ WalkInv /\ depths \in Blobs /\ c \in Targets /\ c \in Nat
      /\ seen \in Seq(Targets) /\ children[w.target] \in Seq(Targets) /\ 1 \in 1 .. MaxNodes
  <2>1. TypeOK /\ WalkInv /\ depths \in Blobs /\ seen \in Seq(Targets)
    BY DEF Inv, TypeOK
  <2>2. children[w.target] \in Seq(Targets)
    BY <1>1, InAWalk
  <2>3. c \in Targets /\ c \in Nat
    BY <1>2, <2>1, BlobFacts
  <2>. QED
    BY <2>1, <2>2, <2>3, MaxNodesAssumption
<1>. HIDE DEF w, m, c, Generators
<1>4. /\ Len(walk') = m + 1 /\ walk' \in Seq(Generators) /\ walk' # <<>>
      /\ Last(walk') = [target |-> c, next |-> 1] /\ walk'[m + 1] = Last(walk')
      /\ \A k \in 1 .. m : walk'[k] = IF k = m THEN [w EXCEPT !.next = @ + 1] ELSE walk[k]
  <2>. DEFINE v == [w EXCEPT !.next = @ + 1]
              s == [walk EXCEPT ![m] = v]
              g == [target |-> c, next |-> 1]
  <2>1. v \in Generators /\ g \in Generators
    BY <1>2, <1>3 DEF Generators
  <2>2. walk' = Append(s, g)
    BY <1>1, <1>2
  <2>3. m \in 1 .. Len(walk)
    BY <1>2 DEF m
  <2>. HIDE DEF v, g
  <2>4. /\ s \in Seq(Generators) /\ Len(s) = m
        /\ \A k \in 1 .. m : s[k] = IF k = m THEN v ELSE walk[k]
    BY <1>2, <2>1, <2>3, ExceptSeq DEF m
  <2>. HIDE DEF s
  <2>5. /\ walk' \in Seq(Generators) /\ Len(walk') = m + 1 /\ walk'[m + 1] = g
        /\ \A k \in 1 .. m : walk'[k] = s[k]
    BY <1>2, <2>1, <2>2, <2>4
  <2>6. walk' # <<>> /\ Last(walk') = g
    BY <1>2, <2>5 DEF Last
  <2>. QED
    BY <2>4, <2>5, <2>6 DEF v, g
<1>5. seen' \in Seq(Targets) /\ Len(seen') = Len(seen) + 1 /\ seen' = [j \in 1 .. Len(seen') |-> j]
  <2>1. seen' \in Seq(Targets) /\ Len(seen') = Len(seen) + 1
    BY <1>1, <1>3
  <2>2. seen = [j \in 1 .. Len(seen) |-> j] /\ Len(seen) \in Nat
    BY <1>3 DEF WalkInv
  <2>3. \A j \in 1 .. Len(seen') : seen'[j] = j
    BY <1>1, <1>2, <1>3, <2>1, <2>2
  <2>. QED
    BY <2>1, <2>3
<1>6. /\ TypeOK' /\ ParseInv' /\ TreeInv' /\ children' = children /\ Nodes' = Nodes
      /\ \A g : GoesOnWith(g)' = GoesOnWith(g)
  BY <1>1, <1>4, <1>5, WalkLeavesTree DEF Generators
<1>7. \A k \in 1 .. m : /\ walk[k].target \in Nodes
                        /\ walk[k].next \in 1 .. Len(children[walk[k].target]) + 1
  BY <1>1, <1>3 DEF WalkInv, m
<1>8. /\ walk'[m].target = w.target /\ walk'[m].next = w.next + 1
      /\ walk'[m + 1].target = c /\ walk'[m + 1].next = 1
  <2>1. /\ [w EXCEPT !.next = @ + 1].target = w.target
        /\ [w EXCEPT !.next = @ + 1].next = w.next + 1
    BY <1>2 DEF Generators
  <2>2. m \in 1 .. m
    BY <1>2
  <2>3. walk'[m] = [w EXCEPT !.next = @ + 1] /\ walk'[m + 1] = [target |-> c, next |-> 1]
    BY <1>4, <2>2
  <2>. QED
    BY <2>1, <2>3
<1>9. \A k \in 1 .. m + 1 :
        /\ walk'[k].target \in Nodes
        /\ walk'[k].next \in 1 .. Len(children[walk'[k].target]) + 1
  <2>1. TAKE k \in 1 .. m + 1
  <2>2. CASE k = m + 1
    <3>1. children[c] \in Seq(Targets)
      BY <1>3 DEF TypeOK
    <3>. QED
      BY <1>2, <1>8, <2>2, <3>1
  <2>3. CASE k = m
    <3>1. m \in 1 .. m /\ Len(children[w.target]) \in Nat /\ w.next <= Len(children[w.target])
      BY <1>1, <1>2, <1>3
    <3>. QED
      BY <1>2, <1>8, <2>3, <3>1
  <2>4. CASE k # m /\ k # m + 1
    <3>1. k \in 1 .. m
      BY <1>2, <2>4
    <3>. QED
      BY <1>4, <1>7, <2>4, <3>1
  <2>. QED
    BY <2>2, <2>3, <2>4
<1>10. \A k \in 1 .. m :
         /\ walk'[k].next > 1
         /\ children[walk'[k].target][walk'[k].next - 1] = walk'[k + 1].target
  <2>1. TAKE k \in 1 .. m
  <2>2. CASE k = m
    <3>1. (w.next + 1) - 1 = w.next /\ w.next + 1 > 1
      BY <1>2
    <3>. QED
      BY <1>8, <2>2, <3>1 DEF c
  <2>3. CASE k # m
    <3>1. k \in 1 .. m - 1 /\ k + 1 \in 1 .. m /\ walk'[k] = walk[k]
      BY <1>2, <1>4, <2>3
    <3>2. walk'[k + 1].target = walk[k + 1].target
      BY <1>2, <1>4, <1>8, <3>1
    <3>. QED
      BY <1>1, <1>3, <3>1, <3>2 DEF WalkInv, m
  <2>. QED
    BY <2>2, <2>3
<1>11. walk'[1].target = 1
  <2>1. walk[1].target = 1 /\ 1 \in 1 .. m
    BY <1>1, <1>2, <1>3 DEF WalkInv
  <2>. QED
    BY <1>2, <1>4, <1>8, <2>1
<1>12. WalkInv'
  <2>1. Len(seen') + 1 = GoesOnWith(Last(walk'))
    <3>1. GoesOnWith([target |-> c, next |-> 1]) = c + 1
      BY DEF GoesOnWith
    <3>. QED
      BY <1>2, <1>4, <1>5, <3>1
  <2>2. (Len(seen) + 1 = GoesOnWith(Last(walk)))'
    BY <1>6, <2>1 DEF GoesOnWith
  <2>3. Len(walk') - 1 = m
    BY <1>2, <1>4
  <2>. QED
    BY <1>4, <1>5, <1>6, <1>9, <1>10, <1>11, <2>2, <2>3 DEF WalkInv
<1>. QED
  BY <1>6, <1>12 DEF Inv

LEMMA ReturnKeeps ==
  ASSUME Inv, Return, Accounted'
  PROVE  Inv'
<1>. DEFINE w == Last(walk)
            m == Len(walk)
            Generators == [target : Targets, next : 1 .. MaxNodes]
<1>1. /\ op = "idle" /\ walk # <<>> /\ ~(w.next <= Len(children[w.target]))
      /\ walk' = SubSeq(walk, 1, m - 1) /\ seen' = seen
      /\ UNCHANGED <<depths, op, fds, maps, service, tree, stack>>
  BY DEF Return, HasNext, Front
<1>2. /\ m \in Nat \ {0} /\ walk[m] = w /\ walk \in Seq(Generators)
      /\ w.target \in Nodes /\ w.next \in Nat \ {0} /\ children[w.target] \in Seq(Targets)
      /\ GoesOnWith(w) = Len(seen) + 1
  BY <1>1, InAWalk
<1>3. Len(seen) + 1 = After(w.target)
  <2>1. w.next > Len(children[w.target])
    BY <1>1, <1>2
  <2>. QED
    BY <1>1, <1>2, <2>1, InAWalk
<1>4. TypeOK /\ WalkInv /\ depths \in Blobs /\ seen \in Seq(Targets)
  BY DEF Inv, TypeOK
<1>. HIDE DEF w, m, Generators
<1>5. /\ walk' \in Seq(Generators) /\ Len(walk') = m - 1
      /\ \A k \in 1 .. m - 1 : walk'[k] = walk[k]
  <2>1. m \in Nat /\ m - 1 \in Nat /\ m - 1 <= Len(walk)
    BY <1>2 DEF m
  <2>. QED
    BY <1>1, <1>2, <2>1
<1>6. /\ TypeOK' /\ ParseInv' /\ TreeInv' /\ children' = children /\ Nodes' = Nodes
      /\ \A g : GoesOnWith(g)' = GoesOnWith(g) /\ depths' = depths
  BY <1>1, <1>4, <1>5, WalkLeavesTree DEF Generators
<1>7. CASE m = 1
  <2>1. w.target = 1
    BY <1>1, <1>2, <1>4, <1>7 DEF WalkInv
  <2>2. Len(seen) = Len(depths)
    <3>1. After(1) = Len(depths) + 1 /\ Len(depths) \in Nat /\ Len(seen) \in Nat
      BY <1>4, AfterRoot, BlobFacts
    <3>. QED
      BY <1>3, <2>1, <3>1
  <2>3. walk' = <<>>
    BY <1>5, <1>7
  <2>4. WalkInv'
    BY <1>1, <1>4, <1>6, <2>2, <2>3 DEF WalkInv
  <2>. QED
    BY <1>6, <2>4 DEF Inv
<1>8. CASE m # 1
  <2>1. /\ m - 1 \in 1 .. m - 1 /\ 1 \in 1 .. m - 1 /\ (m - 1) + 1 = m /\ walk' # <<>>
        /\ Last(walk') = walk[m - 1] /\ walk'[1] = walk[1]
    <3>1. m - 1 \in 1 .. m - 1 /\ 1 \in 1 .. m - 1 /\ (m - 1) + 1 = m /\ m - 1 # 0
      BY <1>2, <1>8
    <3>2. Last(walk') = walk[m - 1] /\ walk'[1] = walk[1]
      BY <1>5, <3>1 DEF Last
    <3>3. walk' # <<>>
      BY <1>5, <3>1
    <3>. QED
      BY <3>1, <3>2, <3>3
  <2>2. /\ walk[m - 1].next > 1
        /\ children[walk[m - 1].target][walk[m - 1].next - 1] = w.target
    BY <1>1, <1>2, <1>4, <2>1 DEF WalkInv, m
  <2>3. GoesOnWith(walk[m - 1]) = After(w.target)
    BY <2>2 DEF GoesOnWith
  <2>4. (Len(seen) + 1 = GoesOnWith(Last(walk)))'
    BY <1>1, <1>3, <1>6, <2>1, <2>3 DEF GoesOnWith, After, Outside
  <2>5. \A k \in 1 .. Len(walk') :
          /\ walk'[k].target \in Nodes
          /\ walk'[k].next \in 1 .. Len(children[walk'[k].target]) + 1
    <3>1. \A k \in 1 .. m - 1 : k \in 1 .. m
      BY <1>2
    <3>. QED
      BY <1>1, <1>4, <1>5, <3>1 DEF WalkInv, m
  <2>6. \A k \in 1 .. Len(walk') - 1 :
          /\ walk'[k].next > 1
          /\ children[walk'[k].target][walk'[k].next - 1] = walk'[k + 1].target
    <3>1. \A k \in 1 .. Len(walk') - 1 : k \in 1 .. m - 1 /\ k + 1 \in 1 .. m - 1
      BY <1>2, <1>5
    <3>. QED
      BY <1>1, <1>4, <1>5, <3>1 DEF WalkInv, m
  <2>7. WalkInv'
    BY <1>1, <1>4, <1>6, <2>1, <2>4, <2>5, <2>6 DEF WalkInv
  <2>. QED
    BY <1>6, <2>7 DEF Inv
<1>. QED
  BY <1>7, <1>8

-----------------------------------------------------------------------------
(* The service. *)

\* The loader's steps have nothing to do with the tree.
LEMMA LoaderKeeps ==
  ASSUME Inv, CallInit \/ Open \/ Fstat \/ Mmap \/ CheckHeader \/ Assign, Accounted'
  PROVE  Inv'
<1>1. /\ UNCHANGED <<depths, children, parent, stack, walk, seen, root, rootFdt, initialized>>
      /\ op' # "parse"
  BY DEF CallInit, Open, Fstat, Mmap, CheckHeader, Assign, Throws, Goes, service, tree
<1>2. ParseInv' /\ TreeInv' /\ WalkInv'
  BY <1>1, TreeUntouched
<1>3. /\ op' \in Ops /\ loader' \in Loaders \cup {None}
      /\ fds' \subseteq Loaders /\ maps' \subseteq Loaders
  <2>1. op' \in Ops /\ loader' \in Loaders \cup {None}
    BY DEF Accounted
  <2>2. New \in Loaders /\ New' \in Loaders
    BY DEF New, Loaders
  <2>3. fds' = Held' \cup Opened' /\ maps' = Held' \cup Mapped'
    BY DEF Accounted
  <2>. QED
    BY <2>1, <2>2, <2>3 DEF Held, Opened, Mapped
<1>4. TypeOK'
  BY <1>1, <1>3 DEF Inv, TypeOK
<1>. QED
  BY <1>2, <1>4 DEF Inv

LEMMA InitInv == Init => Inv
<1>. SUFFICES ASSUME Init PROVE Inv
  OBVIOUS
<1>1. TypeOK
  <2>1. /\ stack \in Seq([target : Targets, child : Targets \cup {None}])
        /\ walk \in Seq([target : Targets, next : 1 .. MaxNodes])
        /\ seen \in Seq(Targets)
    BY DEF Init
  <2>2. children \in [Targets -> Seq(Targets)] /\ parent \in [Targets -> Targets \cup {None}]
    BY DEF Init, NoTree
  <2>. QED
    BY <2>1, <2>2 DEF Init, TypeOK, Ops
<1>2. TreeInv
  <2>1. depths \in Blobs /\ \A t \in Targets : children[t] = <<>>
    BY DEF Init, NoTree
  <2>2. \A t \in Nodes : children[t] = <<>>
    BY <2>1, BlobFacts
  <2>. QED
    BY <2>2 DEF Init, TreeInv, Chain
<1>. QED
  BY <1>1, <1>2, InitAccounted DEF Init, Inv, ParseInv, WalkInv

LEMMA InvStep == Inv /\ [Next]_vars => Inv'
<1>. SUFFICES ASSUME Inv, [Next]_vars PROVE Inv'
  OBVIOUS
<1>1. Accounted'
  BY LoaderSteps, ParserSteps, WalkSteps, Stutters DEF Inv, Next
<1>2. CASE UNCHANGED vars
  <2>1. TypeOK'
    BY <1>2 DEF vars, service, tree, Inv, TypeOK
  <2>2. UNCHANGED <<depths, op, children, stack, walk, seen, root, initialized>>
    BY <1>2 DEF vars, service, tree
  <2>. QED
    BY <1>1, <2>1, <2>2, TreeUntouched DEF Inv
<1>. QED
  BY <1>1, <1>2, LoaderKeeps, FindRootKeeps, ParseChildKeeps, NodeParsedKeeps, TreeParsedKeeps,
     ParseThrowsKeeps, BeginKeeps, DescendKeeps, ReturnKeeps, LeaveKeeps DEF Next

LEMMA InvHolds == Spec => []Inv
BY InitInv, InvStep, PTL DEF Spec

\* Every variable keeps its type: a stack holds calls, no generator gets further than one
\* behind its target's last child.
THEOREM TypeCorrect == Spec => []TypeOK
<1>1. Inv => TypeOK
  BY DEF Inv
<1>. QED
  BY <1>1, InvHolds, PTL

\* A walk yields the targets of any blob in the order of its nodes' offsets, each once,
\* and all of them if it comes to its end (target_service.C L84-100).
THEOREM WalksInOrder == Spec => []WalkInOrder
<1>1. Inv => WalkInOrder
  BY DEF Inv, WalkInv, WalkInOrder
<1>. QED
  BY <1>1, InvHolds, PTL

\* The tree that parseNode makes is that of the blob: a target's children are the nodes
\* right below its own, in their order, and none of them is left out (target_service.C
\* L37-82).
THEOREM TreeIsComplete == Spec => []TreeInv
<1>1. Inv => TreeInv
  BY DEF Inv
<1>. QED
  BY <1>1, InvHolds, PTL

-----------------------------------------------------------------------------
(* The tree's links. *)

\* Only nodes have children; a target's parent is the one whose child it is.
Linked ==
  /\ \A t \in Targets \ Nodes : children[t] = <<>>
  /\ \A c \in Targets : parent[c] # None =>
       /\ parent[c] \in Nodes
       /\ \E k \in 1 .. Len(children[parent[c]]) : children[parent[c]][k] = c
  /\ \A t \in Nodes : \A k \in 1 .. Len(children[t]) : parent[children[t][k]] = t

\* The nodes between a target and each of its children are below it.
LEMMA ChildrenBelow ==
  ASSUME depths \in Blobs, NEW t \in Nodes, Chain(t)
  PROVE  \A k \in 1 .. Len(children[t]) :
           /\ children[t][k] \in Nodes
           /\ children[t][k] > t
           /\ depths[children[t][k]] = depths[t] + 1
           /\ \A j \in t + 1 .. children[t][k] : depths[j] > depths[t]
<1>1. /\ Nodes \subseteq Nat /\ Len(depths) \in Nat /\ t \in Nat
      /\ \A j \in Nodes : depths[j] \in Nat
  BY BlobFacts
<1> DEFINE cs == children[t]
<1>2. \A k \in 1 .. Len(cs) :
        /\ cs[k] \in Nodes /\ cs[k] >= t + k /\ depths[cs[k]] = depths[t] + 1
        /\ cs[k] = IF k = 1 THEN t + 1 ELSE After(cs[k - 1])
  BY DEF Chain
<1> HIDE DEF cs
<1>3. \A k \in 1 .. Len(cs) : cs[k] \in Nodes /\ cs[k] > t /\ depths[cs[k]] = depths[t] + 1
  <2>1. \A x, k \in Nat : x >= t + k /\ k >= 1 => x > t
    BY <1>1
  <2>2. \A k \in 1 .. Len(cs) : k \in Nat /\ k >= 1 /\ cs[k] \in Nat
    <3>1. TAKE k \in 1 .. Len(cs)
    <3>2. cs[k] \in Nodes
      BY <1>2
    <3>3. cs[k] \in Nat
      BY <1>1, <3>2
    <3>4. k \in Nat /\ k >= 1
      OBVIOUS
    <3> QED BY <3>3, <3>4
  <2> QED BY <1>2, <2>1, <2>2
<1> DEFINE Good(k) == \A j \in t + 1 .. cs[k] : depths[j] > depths[t]
           Bad == {k \in 1 .. Len(cs) : ~Good(k)}
<1>4. Bad = {}
  <2>1. SUFFICES ASSUME Bad # {} PROVE FALSE
    OBVIOUS
  <2>2. Bad \subseteq Nat
    OBVIOUS
  <2> HIDE DEF Bad
  <2>3. PICK k \in Bad : \A y \in Bad : k <= y
    BY <2>1, <2>2, LeastNatural
  <2>4. k \in 1 .. Len(cs) /\ ~Good(k)
    BY <2>3 DEF Bad
  <2>5. cs[k] \in Nodes /\ cs[k] \in Nat /\ depths[cs[k]] > depths[t]
    <3>1. cs[k] \in Nodes /\ depths[cs[k]] = depths[t] + 1 /\ depths[t] \in Nat
      BY <1>1, <1>3, <2>4
    <3>2. depths[cs[k]] > depths[t]
      BY <3>1
    <3> QED BY <1>1, <3>1, <3>2
  <2>6. k # 1
    <3>1. SUFFICES ASSUME k = 1 PROVE FALSE
      OBVIOUS
    <3>2. cs[k] = t + 1
      BY <1>2, <2>4, <3>1
    <3>3. \A j \in t + 1 .. cs[k] : j = cs[k]
      BY <1>1, <3>2
    <3> QED BY <2>4, <2>5, <3>3
  <2>7. k - 1 \in 1 .. Len(cs) /\ k - 1 \notin Bad
    BY <2>2, <2>3, <2>4, <2>6
  <2>8. Good(k - 1)
    BY <2>7 DEF Bad
  <2> DEFINE b == cs[k - 1]
  <2>9. b \in Nodes /\ b \in Nat /\ depths[b] = depths[t] + 1 /\ cs[k] = After(b)
    BY <1>1, <1>2, <2>4, <2>6, <2>7
  <2>10. \A j \in t + 1 .. b : depths[j] > depths[t]
    BY <2>8
  <2> HIDE DEF b, Good
  <2>11. \A j \in b + 1 .. After(b) - 1 : j \in Nodes /\ depths[j] > depths[b]
    <3>1. /\ After(b) \in b + 1 .. Len(depths) + 1
          /\ \A j \in b + 1 .. After(b) - 1 : depths[j] > depths[b]
      BY <2>9, AfterIs
    <3>2. \A j \in b + 1 .. After(b) - 1 : j \in Nodes
      BY <1>1, <2>9, <3>1 DEF Nodes
    <3> QED BY <3>1, <3>2
  <2>12. \A j \in b + 1 .. After(b) - 1 : depths[j] > depths[t]
    BY <1>1, <2>9, <2>11
  <2>13. \A j \in t + 1 .. cs[k] : depths[j] > depths[t]
    <3>1. TAKE j \in t + 1 .. cs[k]
    <3>2. j <= b \/ j \in b + 1 .. After(b) - 1 \/ j = cs[k]
      BY <1>1, <2>5, <2>9
    <3>3. CASE j <= b
      <4>1. j \in t + 1 .. b
        BY <1>1, <2>9, <3>3
      <4> QED BY <2>10, <4>1
    <3> QED BY <2>5, <2>12, <3>2, <3>3
  <2> QED BY <2>4, <2>13 DEF Good
<1>5. \A k \in 1 .. Len(cs) : Good(k)
  BY <1>4
<1>. QED
  BY <1>3, <1>5 DEF cs

\* No target is a child of two.
LEMMA OneParent ==
  ASSUME depths \in Blobs, NEW t \in Nodes, NEW u \in Nodes, Chain(t), Chain(u),
         NEW k \in 1 .. Len(children[t]), NEW l \in 1 .. Len(children[u]),
         children[t][k] = children[u][l]
  PROVE  t = u
<1>1. /\ Nodes \subseteq Nat /\ t \in Nat /\ u \in Nat
      /\ \A j \in Nodes : depths[j] \in Nat
  BY BlobFacts
<1> DEFINE c == children[t][k]
<1>2. /\ c \in Nodes /\ c > t /\ depths[c] = depths[t] + 1
      /\ \A j \in t + 1 .. c : depths[j] > depths[t]
  BY ChildrenBelow
<1>3. /\ c > u /\ depths[c] = depths[u] + 1
      /\ \A j \in u + 1 .. c : depths[j] > depths[u]
  BY ChildrenBelow
<1> HIDE DEF c
<1>4. depths[t] = depths[u] /\ depths[t] \in Nat /\ c \in Nat
  BY <1>1, <1>2, <1>3
<1>5. ~(t < u)
  <2>1. SUFFICES ASSUME t < u PROVE FALSE
    OBVIOUS
  <2>2. u \in t + 1 .. c
    BY <1>1, <1>3, <1>4, <2>1
  <2> QED BY <1>2, <1>4, <2>2
<1>6. ~(u < t)
  <2>1. SUFFICES ASSUME u < t PROVE FALSE
    OBVIOUS
  <2>2. t \in u + 1 .. c
    BY <1>1, <1>2, <1>4, <2>1
  <2> QED BY <1>3, <1>4, <2>2
<1>. QED
  BY <1>1, <1>5, <1>6

\* The same for all targets at once, to be used of the state after a step.
LEMMA OneParentAll ==
  depths \in Blobs /\ (\A u \in Nodes : Chain(u)) =>
    \A u, v \in Nodes : \A k \in 1 .. Len(children[u]), l \in 1 .. Len(children[v]) :
      children[u][k] = children[v][l] => u = v
<1> SUFFICES ASSUME depths \in Blobs, \A u \in Nodes : Chain(u),
                    NEW u \in Nodes, NEW v \in Nodes,
                    NEW k \in 1 .. Len(children[u]), NEW l \in 1 .. Len(children[v]),
                    children[u][k] = children[v][l]
             PROVE  u = v
  OBVIOUS
<1>. QED
  BY OneParent

\* The steps that make no child leave the links alone, or cut them all.
LEMMA LinksUntouched ==
  ASSUME Linked, UNCHANGED <<depths, children, parent>>
  PROVE  Linked'
BY DEF Linked, Nodes

\* With no child and no parent there is nothing to link.
LEMMA LinksCut ==
  ASSUME Inv, UNCHANGED depths,
         children' = [t \in Targets |-> <<>>], parent' = [t \in Targets |-> None]
  PROVE  Linked'
<1>1. Nodes' = Nodes /\ Nodes \subseteq Targets
  BY BlobFacts DEF Inv, TypeOK, Nodes
<1>2. \A t \in Targets : children'[t] = <<>> /\ parent'[t] = None
  BY Zenon
<1>3. \A t \in Nodes : Len(children'[t]) = 0
  BY <1>1, <1>2
<1>. QED
  BY <1>1, <1>2, <1>3 DEF Linked

\* A new child is linked both ways, and was no one's child.
LEMMA LinksGrow ==
  ASSUME Inv, Linked, ParseChild, Inv'
  PROVE  Linked'
<1> DEFINE t == Last(stack).target
           c == Last(stack).child
           n == Len(children[t])
<1>1. /\ op = "parse" /\ c # None
      /\ children' = [children EXCEPT ![t] = Append(@, c)]
      /\ parent' = [parent EXCEPT ![c] = t]
      /\ depths' = depths
  BY DEF ParseChild, addChild
<1>2. /\ depths \in Blobs /\ Nodes \subseteq Targets /\ Nodes' = Nodes
      /\ children \in [Targets -> Seq(Targets)] /\ parent \in [Targets -> Targets \cup {None}]
      /\ stack \in Seq([target : Targets, child : Targets \cup {None}])
  BY <1>1, BlobFacts DEF Inv, TypeOK, Nodes
<1>3. t \in Nodes /\ t \in Targets /\ c \in Targets
  <2>1. t \in Nodes /\ t \in Targets
    BY <1>1, AtWork
  <2>2. stack # <<>>
    BY <1>1 DEF Inv, ParseInv
  <2>3. Last(stack) \in [target : Targets, child : Targets \cup {None}]
    <3>1. Len(stack) \in Nat \ {0}
      BY <1>2, <2>2, LenProperties, EmptySeq
    <3>2. Len(stack) \in 1 .. Len(stack)
      BY <3>1
    <3> QED BY <1>2, <3>2, ElementOfSeq DEF Last
  <2> QED BY <1>1, <2>1, <2>3
<1> HIDE DEF t, c
<1>4. /\ n \in Nat /\ Len(children'[t]) = n + 1 /\ children'[t][n + 1] = c
      /\ \A k \in 1 .. n : children'[t][k] = children[t][k]
      /\ \A u \in Targets \ {t} : children'[u] = children[u]
  <2> DEFINE s == children[t]
  <2>1. s \in Seq(Targets) /\ children'[t] = Append(s, c)
    BY <1>1, <1>2, <1>3
  <2> HIDE DEF s
  <2>2. /\ Len(Append(s, c)) = Len(s) + 1 /\ Append(s, c)[Len(s) + 1] = c /\ Len(s) \in Nat
        /\ \A k \in 1 .. Len(s) : Append(s, c)[k] = s[k]
    BY <1>3, <2>1, AppendProperties, LenProperties
  <2> QED BY <1>1, <1>2, <2>1, <2>2 DEF s
<1> HIDE DEF n
<1>5. \A u \in Nodes : Chain(u)'
  BY <1>2 DEF Inv, TreeInv
<1>6. \A u, v \in Nodes : \A k \in 1 .. Len(children'[u]), l \in 1 .. Len(children'[v]) :
        children'[u][k] = children'[v][l] => u = v
  <2>1. (depths \in Blobs /\ (\A u \in Nodes : Chain(u)) =>
           \A u, v \in Nodes : \A k \in 1 .. Len(children[u]), l \in 1 .. Len(children[v]) :
             children[u][k] = children[v][l] => u = v)'
    BY OneParentAll, PTL
  <2> QED BY <1>1, <1>2, <1>5, <2>1
<1>7. \A u \in Targets \ Nodes : children'[u] = <<>>
  BY <1>3, <1>4 DEF Linked
<1>8. ASSUME NEW d \in Targets, parent'[d] # None
      PROVE  /\ parent'[d] \in Nodes
             /\ \E k \in 1 .. Len(children'[parent'[d]]) : children'[parent'[d]][k] = d
  <2>1. CASE d = c
    <3>1. parent'[d] = t
      BY <1>1, <1>2, <1>3, <2>1
    <3>2. n + 1 \in 1 .. Len(children'[t])
      BY <1>4
    <3> QED BY <1>3, <1>4, <2>1, <3>1, <3>2
  <2>2. CASE d # c
    <3>1. parent'[d] = parent[d]
      BY <1>1, <1>2, <1>3, <2>2
    <3>2. parent[d] \in Nodes /\ \E k \in 1 .. Len(children[parent[d]]) : children[parent[d]][k] = d
      BY <1>8, <3>1 DEF Linked
    <3>3. PICK k \in 1 .. Len(children[parent[d]]) : children[parent[d]][k] = d
      BY <3>2
    <3>4. CASE parent[d] = t
      <4>1. k \in 1 .. n /\ k \in 1 .. n + 1
        BY <1>4, <3>3, <3>4 DEF n
      <4> QED BY <1>3, <1>4, <3>1, <3>3, <3>4, <4>1
    <3>5. CASE parent[d] # t
      <4>1. children'[parent[d]] = children[parent[d]]
        BY <1>2, <1>4, <3>2, <3>5
      <4> QED BY <3>1, <3>2, <3>3, <4>1
    <3> QED BY <3>4, <3>5
  <2> QED BY <2>1, <2>2
<1>9. ASSUME NEW u \in Nodes, NEW k \in 1 .. Len(children'[u])
      PROVE  parent'[children'[u][k]] = u
  <2> DEFINE d == children'[u][k]
  <2>1. CASE d = c
    <3>1. parent'[d] = t
      BY <1>1, <1>2, <1>3, <2>1
    <3>2. n + 1 \in 1 .. Len(children'[t])
      BY <1>4
    <3>3. u = t
      BY <1>3, <1>4, <1>6, <2>1, <3>2
    <3> QED BY <3>1, <3>3
  <2>2. CASE d # c
    <3>1. k \in 1 .. Len(children[u]) /\ d = children[u][k]
      <4>1. CASE u = t
        <5>1. k # n + 1
          BY <1>4, <2>2, <4>1
        <5>2. k \in 1 .. n
          BY <1>4, <4>1, <5>1
        <5> QED BY <1>4, <4>1, <5>2 DEF n
      <4>2. CASE u # t
        BY <1>2, <1>4, <4>2
      <4> QED BY <4>1, <4>2
    <3>2. d \in Targets
      <4>1. children[u] \in Seq(Targets)
        BY <1>2
      <4> QED BY <3>1, <4>1, ElementOfSeq
    <3>3. parent'[d] = parent[d]
      BY <1>1, <1>2, <1>3, <2>2, <3>2
    <3>4. parent[children[u][k]] = u
      BY <3>1 DEF Linked
    <3> QED BY <3>1, <3>3, <3>4
  <2> QED BY <2>1, <2>2
<1>. QED
  BY <1>2, <1>7, <1>8, <1>9 DEF Linked

\* The links hold from the start and at every step: they are part of what is invariant.
LEMMA LinkedInit == Init => Linked
<1> SUFFICES ASSUME Init PROVE Linked
  OBVIOUS
<1>1. /\ depths \in Blobs /\ children = [t \in Targets |-> <<>>]
      /\ parent = [t \in Targets |-> None]
  BY DEF Init, NoTree
<1>2. Nodes \subseteq Targets
  BY <1>1, BlobFacts
<1>3. \A t \in Targets : children[t] = <<>> /\ parent[t] = None
  BY <1>1, Zenon
<1>4. \A t \in Nodes : Len(children[t]) = 0
  BY <1>2, <1>3
<1>. QED
  BY <1>2, <1>3, <1>4 DEF Linked

\* A step keeps them, as it leads from one state of the invariant to another.
LEMMA LinkedStep == Inv /\ Inv' /\ Linked /\ [Next]_vars => Linked'
<1> SUFFICES ASSUME Inv, Inv', Linked, [Next]_vars PROVE Linked'
  OBVIOUS
<1>1. CASE ParseChild
  BY <1>1, LinksGrow
<1>2. CASE ParseThrows
  BY <1>2, LinksCut DEF ParseThrows
<1>3. CASE FindRoot
  <2>1. CASE Throws
    BY <2>1, LinksUntouched DEF Throws, tree
  <2>2. CASE ~Throws
    BY <1>3, <2>2, LinksCut DEF FindRoot
  <2> QED BY <2>1, <2>2
<1>4. CASE CallInit \/ Open \/ Fstat \/ Mmap \/ CheckHeader \/ Assign
  BY <1>4, LinksUntouched DEF CallInit, Open, Fstat, Mmap, CheckHeader, Assign, Throws, Goes, tree
<1>5. CASE NodeParsed \/ TreeParsed
  BY <1>5, LinksUntouched DEF NodeParsed, TreeParsed, tree
<1>6. CASE Begin \/ Descend \/ Return \/ Leave
  BY <1>6, LinksUntouched DEF Begin, Descend, Return, Leave, tree
<1>7. CASE UNCHANGED vars
  BY <1>7, LinksUntouched DEF vars, tree
<1>. QED
  BY <1>1, <1>2, <1>3, <1>4, <1>5, <1>6, <1>7 DEF Next

\* So children and parents match all the time.
LEMMA LinkedHolds == Spec => []Linked
BY InvHolds, LinkedInit, LinkedStep, PTL DEF Spec

-----------------------------------------------------------------------------
(* The finished tree. *)

\* Every node but the root is a child: of the last node before it that encloses it.
LEMMA HasParent ==
  ASSUME Inv, initialized, NEW j \in Nodes, j > 1
  PROVE  \E t \in Nodes : \E k \in 1 .. Len(children[t]) : children[t][k] = j
<1>1. /\ depths \in Blobs /\ Nodes \subseteq Nat /\ Len(depths) \in Nat
      /\ \A t \in Nodes : Chain(t) /\ Whole(t)
      /\ children \in [Targets -> Seq(Targets)] /\ Nodes \subseteq Targets
  BY BlobFacts DEF Inv, TypeOK, TreeInv
<1>2. j \in Nat /\ j <= Len(depths) /\ \A t \in 1 .. j : t \in Nodes
  BY <1>1 DEF Nodes
<1>3. \A t \in Nodes : After(t) \in Nat
  <2>1. TAKE t \in Nodes
  <2>2. After(t) \in t + 1 .. Len(depths) + 1 /\ t \in Nat
    BY <1>1, AfterIs
  <2> QED BY <1>1, <2>2
<1> DEFINE S == {t \in 1 .. j - 1 : After(t) > j}
           D == {d \in Nat : j - d \in S}
<1>4. 1 \in S
  BY <1>1, <1>2, AfterRoot
<1>5. D \subseteq Nat /\ D # {}
  <2>1. j - 1 \in Nat /\ j - (j - 1) = 1
    BY <1>2
  <2> HIDE DEF S
  <2>2. j - 1 \in D
    BY <1>4, <2>1
  <2> QED BY <2>2
<1>6. PICK p \in S : \A t \in S : t <= p
  <2> HIDE DEF D
  <2>1. PICK d \in D : \A e \in D : d <= e
    BY <1>5, LeastNatural
  <2>2. d \in Nat /\ j - d \in S
    BY <2>1 DEF D
  <2>3. ASSUME NEW t \in S PROVE t <= j - d
    <3>1. t \in 1 .. j - 1 /\ j - t \in Nat /\ j - (j - t) = t
      BY <1>2
    <3>2. j - t \in D
      BY <2>3, <3>1 DEF D
    <3>3. d <= j - t
      BY <2>1, <3>2
    <3> QED BY <1>2, <2>2, <3>1, <3>3
  <2> QED BY <2>2, <2>3
<1>7. p \in 1 .. j - 1 /\ p \in Nodes /\ p \in Nat /\ After(p) > j /\ Upto(p) = After(p)
  BY <1>1, <1>2, <1>6 DEF Whole
<1> DEFINE cs == children[p]
           n  == Len(children[p])
<1>8. cs # <<>>
  <2>1. SUFFICES ASSUME cs = <<>> PROVE FALSE
    OBVIOUS
  <2>2. Upto(p) = p + 1
    BY <2>1 DEF Upto
  <2> QED BY <1>2, <1>7, <2>2
<1>9. n \in Nat \ {0} /\ Upto(p) = After(cs[n])
  <2>1. cs \in Seq(Targets)
    BY <1>1, <1>7
  <2> QED BY <1>8, <2>1, EmptySeq, LenProperties DEF Upto, Last
<1>10. \A k \in 1 .. n : /\ cs[k] \in Nodes /\ cs[k] > p
                         /\ cs[k] = IF k = 1 THEN p + 1 ELSE After(cs[k - 1])
  <2>1. Chain(p)
    BY <1>1, <1>7
  <2>2. \A k \in 1 .. n : cs[k] \in Nodes /\ cs[k] > p
    BY <1>1, <1>7, <2>1, ChildrenBelow
  <2> QED BY <2>1, <2>2 DEF Chain
<1> DEFINE K == {k \in 1 .. n : After(cs[k]) > j}
<1> HIDE DEF cs, n, S, D
<1>11. PICK k \in K : \A y \in K : k <= y
  <2>1. K \subseteq Nat
    BY <1>9
  <2>2. n \in K
    BY <1>7, <1>9
  <2> HIDE DEF K
  <2> QED BY <2>1, <2>2, LeastNatural
<1>12. k \in 1 .. n /\ After(cs[k]) > j
  OBVIOUS
<1>13. cs[k] <= j
  <2>1. CASE k = 1
    <3>1. cs[k] = p + 1
      BY <1>10, <1>12, <2>1
    <3> QED BY <1>2, <1>7, <3>1
  <2>2. CASE k # 1
    <3>1. k - 1 \in 1 .. n /\ ~(k <= k - 1)
      BY <1>9, <1>12, <2>2
    <3>2. k - 1 \notin K
      BY <1>11, <3>1
    <3>3. ~(After(cs[k - 1]) > j) /\ cs[k - 1] \in Nodes
      BY <1>10, <3>1, <3>2
    <3>4. cs[k] = After(cs[k - 1])
      BY <1>10, <1>12, <2>2
    <3>5. After(cs[k - 1]) \in Nat
      BY <1>3, <3>3
    <3> QED BY <1>2, <3>3, <3>4, <3>5
  <2> QED BY <2>1, <2>2
<1>14. cs[k] = j
  <2>1. SUFFICES ASSUME cs[k] # j PROVE FALSE
    OBVIOUS
  <2>2. cs[k] \in Nodes /\ cs[k] \in Nat /\ cs[k] > p
    BY <1>1, <1>10, <1>12
  <2>3. cs[k] \in 1 .. j - 1
    BY <1>2, <1>7, <1>13, <2>1, <2>2
  <2>4. cs[k] \in S
    BY <1>12, <2>3 DEF S
  <2> QED BY <1>6, <1>7, <2>2, <2>4
<1>. QED
  BY <1>7, <1>12, <1>14 DEF cs, n

\* What encloses a child is its parent and what encloses that.
LEMMA EnclosingChild ==
  ASSUME depths \in Blobs, NEW t \in Nodes, Chain(t), NEW k \in 1 .. Len(children[t])
  PROVE  Enclosing(children[t][k]) = Enclosing(t) \cup {t}
<1> DEFINE c == children[t][k]
<1>1. /\ Nodes \subseteq Nat /\ t \in Nat /\ Len(depths) \in Nat
      /\ \A j \in Nodes : depths[j] \in Nat
  BY BlobFacts
<1>2. /\ c \in Nodes /\ c > t /\ depths[c] = depths[t] + 1
      /\ \A j \in t + 1 .. c : depths[j] > depths[t]
  BY ChildrenBelow
<1> HIDE DEF c
<1>3. c \in Nat /\ c <= Len(depths) /\ \A j \in 1 .. c : j \in Nodes
  BY <1>1, <1>2 DEF Nodes
<1>4. depths[t] \in Nat /\ depths[c] \in Nat
  BY <1>1, <1>2
<1>5. ASSUME NEW i \in Enclosing(t) \cup {t} PROVE i \in Enclosing(c)
  <2>1. CASE i = t
    <3>1. t \in 1 .. c - 1
      BY <1>1, <1>2, <1>3 DEF Nodes
    <3> QED BY <1>2, <2>1, <3>1 DEF Enclosing
  <2>2. CASE i # t
    <3>1. i \in 1 .. t - 1 /\ \A j \in i + 1 .. t : depths[j] > depths[i]
      BY <1>5, <2>2 DEF Enclosing
    <3>2. i \in 1 .. c - 1 /\ i \in Nodes /\ t \in i + 1 .. t /\ i \in Nat
      BY <1>1, <1>2, <1>3, <3>1
    <3>3. depths[t] > depths[i] /\ depths[i] \in Nat
      BY <1>1, <3>1, <3>2
    <3>4. \A j \in i + 1 .. c : depths[j] > depths[i]
      <4>1. TAKE j \in i + 1 .. c
      <4>2. CASE j <= t
        <5>1. j \in i + 1 .. t
          BY <1>1, <3>2, <4>2
        <5> QED BY <3>1, <5>1
      <4>3. CASE ~(j <= t)
        <5>1. j \in t + 1 .. c /\ j \in 1 .. c
          BY <1>1, <1>3, <3>2, <4>3
        <5>2. depths[j] > depths[t] /\ depths[j] \in Nat
          BY <1>1, <1>2, <1>3, <5>1
        <5> QED BY <1>4, <3>3, <5>2
      <4> QED BY <4>2, <4>3
    <3> QED BY <3>2, <3>4 DEF Enclosing
  <2> QED BY <2>1, <2>2
<1>6. ASSUME NEW i \in Enclosing(c) PROVE i \in Enclosing(t) \cup {t}
  <2>1. i \in 1 .. c - 1 /\ \A j \in i + 1 .. c : depths[j] > depths[i]
    BY <1>6 DEF Enclosing
  <2>2. i \in Nat /\ i \in Nodes
    BY <1>3, <2>1
  <2>3. CASE i < t
    <3>1. i \in 1 .. t - 1 /\ \A j \in i + 1 .. t : j \in i + 1 .. c
      BY <1>1, <1>2, <1>3, <2>1, <2>3
    <3> QED BY <2>1, <3>1 DEF Enclosing
  <2>4. CASE i = t
    BY <2>4
  <2>5. CASE i > t
    <3>1. i \in t + 1 .. c /\ c \in i + 1 .. c
      BY <1>1, <1>3, <2>1, <2>2, <2>5
    <3>2. depths[i] > depths[t] /\ depths[c] > depths[i] /\ depths[i] \in Nat
      BY <1>1, <1>2, <2>1, <2>2, <3>1
    <3> QED BY <1>2, <1>4, <3>2
  <2> QED BY <1>1, <2>2, <2>3, <2>4, <2>5
<1>. QED
  BY <1>5, <1>6 DEF c

\* Every target but the root has the parent that encloses it most closely.
LEMMA ParentIs ==
  ASSUME Inv, Linked, initialized, NEW j \in Nodes
  PROVE  IF j = 1
         THEN parent[j] = None /\ Enclosing(j) = {}
         ELSE /\ parent[j] \in Nodes /\ parent[j] < j /\ parent[j] # None
              /\ Enclosing(j) = Enclosing(parent[j]) \cup {parent[j]}
<1>1. /\ depths \in Blobs /\ Nodes \subseteq Nat /\ Len(depths) \in Nat
      /\ \A t \in Nodes : Chain(t)
      /\ Nodes \subseteq Targets /\ \A t \in Nodes : t >= 1
  BY BlobFacts DEF Inv, TypeOK, TreeInv, Nodes
<1>2. CASE j = 1
  <2>1. Enclosing(j) = {}
    BY <1>2 DEF Enclosing
  <2>2. parent[j] = None
    <3>1. SUFFICES ASSUME parent[j] # None PROVE FALSE
      OBVIOUS
    <3>2. PICK k \in 1 .. Len(children[parent[j]]) : children[parent[j]][k] = j
      BY <1>1, <3>1 DEF Linked
    <3>3. parent[j] \in Nodes
      BY <1>1, <3>1 DEF Linked
    <3>4. j > parent[j]
      BY <1>1, <3>2, <3>3, ChildrenBelow
    <3>5. parent[j] \in Nat /\ parent[j] >= 1
      BY <1>1, <3>3
    <3> QED BY <1>2, <3>4, <3>5
  <2> QED BY <1>2, <2>1, <2>2
<1>3. CASE j # 1
  <2>1. j > 1
    BY <1>1, <1>3
  <2>2. PICK t \in Nodes : \E k \in 1 .. Len(children[t]) : children[t][k] = j
    BY <2>1, HasParent
  <2>3. PICK k \in 1 .. Len(children[t]) : children[t][k] = j
    BY <2>2
  <2>4. parent[j] = t
    BY <2>3 DEF Linked
  <2>5. Enclosing(j) = Enclosing(t) \cup {t}
    BY <1>1, <2>3, EnclosingChild
  <2>6. t < j /\ t # None
    <3>1. j > t
      BY <1>1, <2>3, ChildrenBelow
    <3> QED BY <1>1, <3>1 DEF None
  <2> QED BY <1>3, <2>4, <2>5, <2>6
<1>. QED
  BY <1>2, <1>3

-----------------------------------------------------------------------------
(* Recursion over the finished tree. *)

\* a gives the ancestors of the first n targets.
Ancestry(n, a) ==
  a = [t \in 1 .. n |-> IF parent[t] = None THEN <<>> ELSE <<parent[t]>> \o a[parent[t]]]

\* Parents come before their children, so there are ancestors of all targets.
LEMMA AncestryExists ==
  ASSUME NEW m \in Nat, \A t \in 1 .. m : parent[t] # None => parent[t] \in 1 .. t - 1
  PROVE  \E a : Ancestry(m, a)
<1> DEFINE Bad == {n \in 0 .. m : \A a : ~Ancestry(n, a)}
<1>1. SUFFICES ASSUME Bad # {} PROVE FALSE
  <2>1. m \in 0 .. m
    OBVIOUS
  <2> QED BY <2>1, Zenon
<1>2. PICK n \in Bad : \A y \in Bad : n <= y
  <2>1. Bad \subseteq Nat
    OBVIOUS
  <2> HIDE DEF Bad
  <2> QED BY <1>1, <2>1, LeastNatural
<1>3. n \in 0 .. m /\ \A a : ~Ancestry(n, a)
  BY <1>2, Zenon
<1>4. n # 0
  <2>1. Ancestry(0, [t \in 1 .. 0 |-> None])
    BY DEF Ancestry
  <2> QED BY <1>3, <2>1, Zenon
<1>5. n - 1 \in 0 .. m /\ n - 1 \notin Bad
  <2> HIDE DEF Bad
  <2> QED BY <1>2, <1>3, <1>4
<1>6. PICK a : Ancestry(n - 1, a)
  BY <1>5, Zenon
<1> DEFINE x == IF parent[n] = None THEN <<>> ELSE <<parent[n]>> \o a[parent[n]]
           b == [t \in 1 .. n |-> IF t = n THEN x ELSE a[t]]
<1>7. \A t \in 1 .. n - 1 :
        a[t] = IF parent[t] = None THEN <<>> ELSE <<parent[t]>> \o a[parent[t]]
  BY <1>6 DEF Ancestry
<1>8. /\ n \in Nat /\ n \in 1 .. n
      /\ \A t \in 1 .. n : t # n => t \in 1 .. n - 1
      /\ \A t \in 1 .. n - 1 : t \in 1 .. n /\ t # n
      /\ \A t \in 1 .. n : t \in 1 .. m
  BY <1>3, <1>4
<1>9. \A t \in 1 .. n : parent[t] # None => parent[t] \in 1 .. n - 1
  <2>1. TAKE t \in 1 .. n
  <2>2. HAVE parent[t] # None
  <2>3. parent[t] \in 1 .. t - 1
    BY <1>8, <2>2
  <2> QED BY <1>8, <2>3
<1>10. b[n] = x /\ \A t \in 1 .. n - 1 : b[t] = a[t]
  <2> HIDE DEF x
  <2> QED BY <1>8
<1>11. b = [t \in 1 .. n |-> b[t]]
  OBVIOUS
<1> HIDE DEF b
<1>12. ASSUME NEW t \in 1 .. n
       PROVE  b[t] = IF parent[t] = None THEN <<>> ELSE <<parent[t]>> \o b[parent[t]]
  <2>1. CASE t = n
    <3>1. parent[n] # None => b[parent[n]] = a[parent[n]]
      BY <1>8, <1>9, <1>10
    <3> QED BY <1>10, <2>1, <3>1
  <2>2. CASE t # n
    <3>1. t \in 1 .. n - 1 /\ b[t] = a[t]
      BY <1>8, <1>10, <2>2
    <3>2. parent[t] # None => b[parent[t]] = a[parent[t]]
      BY <1>9, <1>10
    <3> QED BY <1>7, <3>1, <3>2
  <2> QED BY <2>1, <2>2
<1>13. Ancestry(n, b)
  BY <1>11, <1>12, Zenon DEF Ancestry
<1>. QED
  BY <1>3, <1>13, Zenon

\* So the definition of ancestors has a solution, and ancestors is one.
LEMMA AncestorsAre ==
  ASSUME Inv, Linked
  PROVE  \A t \in Targets :
           ancestors[t] = IF parent[t] = None THEN <<>> ELSE <<parent[t]>> \o ancestors[parent[t]]
<1>1. /\ depths \in Blobs /\ Nodes \subseteq Nat /\ MaxNodes \in Nat
      /\ \A t \in Nodes : Chain(t) /\ t >= 1
  BY BlobFacts, MaxNodesAssumption DEF Inv, TypeOK, TreeInv, Nodes
<1>2. ASSUME NEW t \in 1 .. MaxNodes, parent[t] # None PROVE parent[t] \in 1 .. t - 1
  <2>1. t \in Targets /\ t \in Nat
    BY <1>1 DEF Targets
  <2>2. PICK k \in 1 .. Len(children[parent[t]]) : children[parent[t]][k] = t
    BY <1>2, <2>1 DEF Linked
  <2>3. parent[t] \in Nodes
    BY <1>2, <2>1 DEF Linked
  <2>4. t > parent[t]
    BY <1>1, <2>2, <2>3, ChildrenBelow
  <2>5. parent[t] \in Nat /\ parent[t] >= 1
    BY <1>1, <2>3
  <2> QED BY <2>1, <2>4, <2>5
<1>3. \E a : Ancestry(MaxNodes, a)
  BY <1>1, <1>2, AncestryExists
<1>4. ancestors = CHOOSE a : Ancestry(MaxNodes, a)
  BY Zenon DEF ancestors, Ancestry, Targets
<1>5. Ancestry(MaxNodes, ancestors)
  BY <1>3, <1>4, Zenon
<1>. QED
  BY <1>5, Zenon DEF Ancestry, Targets

\* A target's ancestors are the nodes that enclose its own, from the inside out.
LEMMA AncestorsEnclose ==
  ASSUME Inv, Linked, initialized, NEW j \in Nodes
  PROVE  /\ ToSet(ancestors[j]) = Enclosing(j)
         /\ \A k \in 1 .. Len(ancestors[j]) - 1 : ancestors[j][k] > ancestors[j][k + 1]
<1> DEFINE Good(i) == /\ ancestors[i] \in Seq(Nat)
                      /\ ToSet(ancestors[i]) = Enclosing(i)
                      /\ \A k \in 1 .. Len(ancestors[i]) - 1 : ancestors[i][k] > ancestors[i][k + 1]
           Bad == {i \in Nodes : ~Good(i)}
<1>1. /\ depths \in Blobs /\ Nodes \subseteq Nat /\ Nodes \subseteq Targets
  BY BlobFacts DEF Inv, TypeOK
<1>2. SUFFICES ASSUME Bad # {} PROVE FALSE
  OBVIOUS
<1>3. PICK i \in Bad : \A y \in Bad : i <= y
  <2>1. Bad \subseteq Nat
    BY <1>1
  <2> HIDE DEF Bad
  <2> QED BY <1>2, <2>1, LeastNatural
<1>4. i \in Nodes /\ ~Good(i)
  BY <1>3, Zenon
<1>5. ancestors[i] = IF parent[i] = None THEN <<>> ELSE <<parent[i]>> \o ancestors[parent[i]]
  BY <1>1, <1>4, AncestorsAre
<1>6. CASE i = 1
  <2>1. ancestors[i] = <<>> /\ Enclosing(i) = {}
    BY <1>4, <1>5, <1>6, ParentIs
  <2>2. ToSet(<<>>) = {}
    BY DEF ToSet
  <2>3. <<>> \in Seq(Nat) /\ Len(<<>>) = 0
    OBVIOUS
  <2> QED BY <1>4, <2>1, <2>2, <2>3
<1>7. CASE i # 1
  <2> DEFINE p == parent[i]
             a == ancestors[p]
             b == <<p>> \o a
  <2>1. p \in Nodes /\ p < i /\ Enclosing(i) = Enclosing(p) \cup {p} /\ ancestors[i] = b
    BY <1>4, <1>5, <1>7, ParentIs
  <2>2. p \in Nat /\ p \notin Bad
    <3>1. p \in Nat /\ i \in Nat /\ ~(i <= p)
      <4>1. p \in Nat /\ i \in Nat
        BY <1>1, <1>4, <2>1
      <4> HIDE DEF p
      <4> QED BY <2>1, <4>1
    <3> HIDE DEF Bad
    <3> QED BY <1>3, <3>1
  <2>3. Good(p)
    BY <2>1, <2>2
  <2>4. /\ a \in Seq(Nat) /\ ToSet(a) = Enclosing(p) /\ Len(a) \in Nat
        /\ \A k \in 1 .. Len(a) - 1 : a[k] > a[k + 1]
    BY <2>3, LenProperties
  <2>5. <<p>> \in Seq(Nat) /\ Len(<<p>>) = 1 /\ <<p>>[1] = p
    BY <2>2
  <2>6. /\ b \in Seq(Nat) /\ Len(b) = 1 + Len(a)
        /\ b[1] = p /\ \A k \in 1 .. Len(a) : b[k + 1] = a[k]
    <3> DEFINE h == <<p>>
    <3>1. h \in Seq(Nat) /\ Len(h) = 1 /\ h[1] = p
      BY <2>5
    <3> HIDE DEF h, a
    <3>2. /\ h \o a \in Seq(Nat) /\ Len(h \o a) = Len(h) + Len(a)
          /\ \A k \in 1 .. Len(h) + Len(a) :
               (h \o a)[k] = IF k <= Len(h) THEN h[k] ELSE a[k - Len(h)]
      BY <2>4, <3>1, ConcatProperties
    <3>3. (h \o a)[1] = p /\ \A k \in 1 .. Len(a) : (h \o a)[k + 1] = a[k]
      BY <2>4, <3>1, <3>2
    <3> QED BY <3>1, <3>2, <3>3 DEF h
  <2> HIDE DEF a, b, p
  <2>7. ToSet(b) = ToSet(a) \cup {p}
    <3>1. DOMAIN b = 1 .. 1 + Len(a) /\ DOMAIN a = 1 .. Len(a)
      BY <2>4, <2>6
    <3>2. ASSUME NEW y \in ToSet(b) PROVE y \in ToSet(a) \cup {p}
      <4>1. PICK k \in 1 .. 1 + Len(a) : y = b[k]
        BY <3>1, <3>2 DEF ToSet
      <4>2. CASE k = 1
        BY <2>6, <4>1, <4>2
      <4>3. CASE k # 1
        <5>1. k - 1 \in 1 .. Len(a) /\ (k - 1) + 1 = k
          BY <2>4, <4>3
        <5>2. y = a[k - 1]
          BY <2>6, <4>1, <5>1
        <5> QED BY <3>1, <5>1, <5>2 DEF ToSet
      <4> QED BY <4>2, <4>3
    <3>3. ASSUME NEW y \in ToSet(a) \cup {p} PROVE y \in ToSet(b)
      <4>1. CASE y = p
        <5>1. 1 \in 1 .. 1 + Len(a)
          BY <2>4
        <5> QED BY <2>6, <3>1, <4>1, <5>1 DEF ToSet
      <4>2. CASE y # p
        <5>1. PICK k \in 1 .. Len(a) : y = a[k]
          BY <3>1, <3>3, <4>2 DEF ToSet
        <5>2. k + 1 \in 1 .. 1 + Len(a) /\ b[k + 1] = y
          BY <2>4, <2>6, <5>1
        <5> QED BY <3>1, <5>2 DEF ToSet
      <4> QED BY <4>1, <4>2
    <3> QED BY <3>2, <3>3
  <2>8. \A k \in 1 .. Len(b) - 1 : b[k] > b[k + 1]
    <3>1. TAKE k \in 1 .. Len(b) - 1
    <3>2. k \in 1 .. Len(a) /\ b[k + 1] = a[k]
      BY <2>4, <2>6
    <3>3. CASE k = 1
      <4>1. a[1] \in ToSet(a)
        BY <2>4, <3>2, <3>3 DEF ToSet
      <4>2. a[1] \in 1 .. p - 1
        BY <2>4, <4>1 DEF Enclosing
      <4> QED BY <2>2, <2>6, <3>2, <3>3, <4>2
    <3>4. CASE k # 1
      <4>1. k - 1 \in 1 .. Len(a) - 1 /\ k - 1 \in 1 .. Len(a) /\ (k - 1) + 1 = k
        BY <2>4, <3>2, <3>4
      <4>2. b[k] = a[k - 1] /\ a[k - 1] > a[k]
        BY <2>4, <2>6, <4>1
      <4> QED BY <3>2, <4>2
    <3> QED BY <3>3, <3>4
  <2> QED BY <1>4, <2>1, <2>4, <2>6, <2>7, <2>8
<1>. QED
  BY <1>6, <1>7

\* f lists what the first, the first two, ... of n sequences are end to end.
Sums(ss, n, f) ==
  f = [i \in 1 .. n |-> IF i = 1 THEN ss[i] ELSE f[i - 1] \o ss[i]]

\* The sums of n sequences are determined.
LEMMA SumsAgree ==
  ASSUME NEW ss, NEW n \in Nat, NEW f, NEW g, Sums(ss, n, f), Sums(ss, n, g)
  PROVE  f = g
<1> DEFINE D == {i \in 1 .. n : f[i] # g[i]}
<1>1. SUFFICES ASSUME D # {} PROVE FALSE
  <2>1. DOMAIN f = 1 .. n /\ DOMAIN g = 1 .. n
    BY DEF Sums
  <2>2. f = [i \in 1 .. n |-> f[i]] /\ g = [i \in 1 .. n |-> g[i]]
    BY DEF Sums
  <2> QED BY <2>2, Zenon
<1>2. PICK m \in D : \A y \in D : m <= y
  <2>1. D \in SUBSET Nat
    OBVIOUS
  <2> HIDE DEF D
  <2> QED BY <1>1, <2>1, LeastNatural
<1>3. m \in 1 .. n /\ f[m] # g[m]
  OBVIOUS
<1>4. m # 1
  BY <1>3 DEF Sums
<1>5. m - 1 \in 1 .. n /\ m - 1 \notin D
  BY <1>2, <1>3, <1>4
<1>6. f[m - 1] = g[m - 1]
  BY <1>5
<1>. QED
  BY <1>3, <1>4, <1>6 DEF Sums

\* FlattenSeq, which defines the sums by recursion, is the last of them.
LEMMA FlattenIs ==
  ASSUME NEW ss, Len(ss) \in Nat, Len(ss) # 0, NEW f, Sums(ss, Len(ss), f)
  PROVE  FlattenSeq(ss) = f[Len(ss)]
<1> DEFINE g == CHOOSE h : Sums(ss, Len(ss), h)
<1>1. Sums(ss, Len(ss), g)
  OBVIOUS
<1>2. FlattenSeq(ss) = g[Len(ss)]
  BY DEF FlattenSeq, Sums
<1>3. f = g
  <2> HIDE DEF g
  <2> QED BY <1>1, SumsAgree
<1>. QED
  BY <1>2, <1>3

\* The numbers from a on that are less than b, in order.
Run(a, b) == [i \in 1 .. b - a |-> a + i - 1]

\* A run is a sequence of numbers.
LEMMA RunTyped ==
  ASSUME NEW a \in Nat, NEW b \in Nat, a <= b
  PROVE  /\ Run(a, b) \in Seq(Nat) /\ Len(Run(a, b)) = b - a
         /\ \A i \in 1 .. b - a : Run(a, b)[i] = a + i - 1
<1>1. b - a \in Nat /\ \A i \in 1 .. b - a : a + i - 1 \in Nat
  OBVIOUS
<1>2. \A i \in 1 .. b - a : Run(a, b)[i] = a + i - 1
  BY DEF Run
<1>. QED
  BY <1>1, <1>2, IsASeq DEF Run

\* Two runs, one behind the other, are one.
LEMMA RunConcat ==
  ASSUME NEW a \in Nat, NEW b \in Nat, NEW c \in Nat, a <= b, b <= c
  PROVE  Run(a, b) \o Run(b, c) = Run(a, c)
<1> DEFINE p == Run(a, b)
           q == Run(b, c)
           r == Run(a, c)
<1>1. p \in Seq(Nat) /\ Len(p) = b - a /\ \A i \in 1 .. b - a : p[i] = a + i - 1
  BY RunTyped
<1>2. q \in Seq(Nat) /\ Len(q) = c - b /\ \A i \in 1 .. c - b : q[i] = b + i - 1
  BY RunTyped
<1>3. r \in Seq(Nat) /\ Len(r) = c - a /\ \A i \in 1 .. c - a : r[i] = a + i - 1
  <2>1. a <= c
    OBVIOUS
  <2> HIDE DEF r
  <2> QED BY <2>1, RunTyped DEF r
<1> HIDE DEF p, q, r
<1>4. /\ p \o q \in Seq(Nat) /\ Len(p \o q) = Len(p) + Len(q)
      /\ \A i \in 1 .. Len(p) + Len(q) :
           (p \o q)[i] = IF i <= Len(p) THEN p[i] ELSE q[i - Len(p)]
  BY <1>1, <1>2, <1>3, ConcatProperties
<1>5. Len(p \o q) = c - a
  BY <1>1, <1>2, <1>3, <1>4
<1>6. ASSUME NEW i \in 1 .. c - a PROVE (p \o q)[i] = r[i]
  <2>1. i \in 1 .. Len(p) + Len(q)
    BY <1>1, <1>2, <1>3
  <2>2. CASE i <= b - a
    <3>1. i \in 1 .. b - a
      BY <2>2
    <3>2. (p \o q)[i] = p[i]
      BY <1>1, <1>2, <1>3, <1>4, <2>1, <2>2
    <3> QED BY <1>1, <1>2, <1>3, <3>1, <3>2
  <2>3. CASE ~(i <= b - a)
    <3>1. i - (b - a) \in 1 .. c - b /\ b + (i - (b - a)) - 1 = a + i - 1
      BY <2>3
    <3>2. (p \o q)[i] = q[i - (b - a)]
      BY <1>1, <1>2, <1>3, <1>4, <2>1, <2>3
    <3> QED BY <1>1, <1>2, <1>3, <3>1, <3>2
  <2> QED BY <2>2, <2>3
<1>7. p \o q = r
  BY <1>1, <1>2, <1>3, <1>4, <1>5, <1>6, SeqEqual
<1>. QED
  BY <1>7 DEF p, q, r

\* g gives the traversals of all targets.
Traversals(g) ==
  g = [t \in Targets |-> <<t>> \o FlattenSeq([k \in 1 .. Len(children[t]) |-> g[children[t][k]]])]

\* Children come behind their parents, so there is one way to traverse them all.
LEMMA TraversalsAgree ==
  ASSUME Inv, Linked, NEW g, NEW h, Traversals(g), Traversals(h)
  PROVE  g = h
<1> DEFINE S == {t \in Targets : g[t] # h[t]}
           D == {d \in Nat : MaxNodes - d \in S}
<1>1. /\ Targets \subseteq Nat /\ MaxNodes \in Nat /\ \A t \in Targets : MaxNodes - t \in Nat
      /\ children \in [Targets -> Seq(Targets)] /\ depths \in Blobs
      /\ Nodes \subseteq Nat /\ \A t \in Nodes : Chain(t)
      /\ \A t \in Targets : MaxNodes - (MaxNodes - t) = t
  <2>1. MaxNodes \in Nat
    BY MaxNodesAssumption
  <2>2. \A t \in Targets : t \in Nat /\ MaxNodes - t \in Nat /\ MaxNodes - (MaxNodes - t) = t
    BY <2>1 DEF Targets
  <2> QED BY <2>1, <2>2, BlobFacts DEF Inv, TypeOK, TreeInv
<1>2. SUFFICES ASSUME S # {} PROVE FALSE
  <2>1. g = [t \in Targets |-> g[t]] /\ h = [t \in Targets |-> h[t]]
    BY DEF Traversals
  <2> QED BY <2>1, Zenon
<1>3. D # {} /\ D \subseteq Nat
  <2>1. PICK t \in S : TRUE
    BY <1>2
  <2>2. t \in Targets
    BY <2>1
  <2>3. MaxNodes - t \in Nat /\ MaxNodes - (MaxNodes - t) = t
    BY <1>1, <2>2
  <2> HIDE DEF S
  <2>4. MaxNodes - t \in D
    BY <2>1, <2>3
  <2> QED BY <2>4
<1>4. PICK t \in S : \A u \in S : u <= t
  <2> HIDE DEF D
  <2>1. PICK d \in D : \A e \in D : d <= e
    BY <1>3, LeastNatural
  <2>2. d \in Nat /\ MaxNodes - d \in S
    BY <2>1 DEF D
  <2>3. ASSUME NEW u \in S PROVE u <= MaxNodes - d
    <3>1. u \in Targets
      BY <2>3
    <3>2. MaxNodes - u \in Nat /\ MaxNodes - (MaxNodes - u) = u /\ u \in Nat
      BY <1>1, <3>1
    <3> HIDE DEF S
    <3>3. MaxNodes - u \in D
      BY <2>3, <3>2 DEF D
    <3>4. d <= MaxNodes - u
      BY <2>1, <3>3
    <3> QED BY <1>1, <2>2, <3>2, <3>4
  <2> QED BY <2>2, <2>3
<1>5. t \in Targets /\ t \in Nat /\ g[t] # h[t]
  BY <1>1, <1>4
<1>6. \A k \in 1 .. Len(children[t]) : g[children[t][k]] = h[children[t][k]]
  <2>1. TAKE k \in 1 .. Len(children[t])
  <2>2. children[t] \in Seq(Targets)
    BY <1>1, <1>5
  <2>3. t \in Nodes
    <3>1. SUFFICES ASSUME t \notin Nodes PROVE FALSE
      OBVIOUS
    <3>2. children[t] = <<>>
      BY <1>5, <3>1 DEF Linked
    <3> QED BY <3>2
  <2>4. children[t][k] > t /\ children[t][k] \in Targets /\ children[t][k] \in Nat
    <3>1. children[t][k] \in Targets
      BY <2>2, ElementOfSeq
    <3> QED BY <1>1, <2>3, <3>1, ChildrenBelow
  <2>5. children[t][k] \notin S
    <3>1. ~(children[t][k] <= t)
      BY <1>5, <2>4
    <3> HIDE DEF S
    <3> QED BY <1>4, <3>1
  <2> QED BY <2>4, <2>5
<1> DEFINE sg == [k \in 1 .. Len(children[t]) |-> g[children[t][k]]]
           sh == [k \in 1 .. Len(children[t]) |-> h[children[t][k]]]
<1>7. sg = sh
  BY <1>6, Zenon
<1>8. g[t] = <<t>> \o FlattenSeq(sg) /\ h[t] = <<t>> \o FlattenSeq(sh)
  BY <1>5, Zenon DEF Traversals
<1> HIDE DEF sg, sh
<1>. QED
  BY <1>5, <1>7, <1>8

\* The traversal of a node yields the nodes of its tree, in order.
LEMMA TraversalIs ==
  ASSUME Inv, Linked, initialized
  PROVE  \A t \in Nodes : preOrder[t] = Run(t, After(t))
<1> DEFINE P == [t \in Targets |-> IF t \in Nodes THEN Run(t, After(t)) ELSE <<t>>]
           X(t) == [k \in 1 .. Len(children[t]) |-> P[children[t][k]]]
<1>1. /\ depths \in Blobs /\ Nodes \subseteq Nat /\ Nodes \subseteq Targets
      /\ Len(depths) \in Nat
      /\ \A t \in Nodes : Chain(t) /\ Upto(t) = After(t)
      /\ children \in [Targets -> Seq(Targets)]
  BY BlobFacts DEF Inv, TypeOK, TreeInv, Whole
<1>2. \A t \in Nodes : t \in Nat /\ t + 1 \in Nat /\ After(t) \in Nat /\ t + 1 <= After(t)
  <2>1. TAKE t \in Nodes
  <2>2. After(t) \in t + 1 .. Len(depths) + 1 /\ t \in Nat
    BY <1>1, AfterIs
  <2> QED BY <1>1, <2>2
<1>3. /\ \A t \in Nodes : P[t] = Run(t, After(t))
      /\ \A t \in Targets : t \notin Nodes => P[t] = <<t>>
  BY <1>1
<1>4. P = [t \in Targets |-> P[t]]
  OBVIOUS
<1> HIDE DEF P
<1>5. \A t \in Targets : children[t] = <<>> => <<t>> \o FlattenSeq(X(t)) = <<t>>
  <2>1. TAKE t \in Targets
  <2>2. HAVE children[t] = <<>>
  <2>3. X(t) = <<>>
    BY <2>2
  <2>4. FlattenSeq(<<>>) = <<>>
    BY DEF FlattenSeq
  <2>5. <<t>> \o <<>> = <<t>>
    OBVIOUS
  <2> HIDE DEF X
  <2> QED BY <2>3, <2>4, <2>5
<1>6. \A t \in Targets : t \notin Nodes => P[t] = <<t>> \o FlattenSeq(X(t))
  <2> HIDE DEF X
  <2> QED BY <1>3, <1>5 DEF Linked
<1>7. \A t \in Nodes : Run(t, t + 1) = <<t>>
  <2>1. TAKE t \in Nodes
  <2>2. t \in Nat /\ (t + 1) - t = 1 /\ t + 1 - 1 = t
    BY <1>1
  <2>3. Run(t, t + 1) = [i \in 1 .. 1 |-> t]
    <3>1. \A i \in 1 .. 1 : t + i - 1 = t
      BY <2>2
    <3> QED BY <2>2, <3>1 DEF Run
  <2> QED BY <2>3
<1>8. ASSUME NEW t \in Nodes PROVE P[t] = <<t>> \o FlattenSeq(X(t))
  <2> DEFINE cs == children[t]
             n  == Len(children[t])
             ss == X(t)
  <2>1. CASE cs = <<>>
    <3>1. After(t) = t + 1
      BY <1>1, <2>1 DEF Upto
    <3>2. t \in Targets
      BY <1>1
    <3> HIDE DEF X
    <3> QED BY <1>3, <1>5, <1>7, <2>1, <3>1, <3>2
  <2>2. CASE cs # <<>>
    <3>1. n \in Nat /\ n # 0 /\ After(t) = After(cs[n])
      <4>1. cs \in Seq(Targets)
        BY <1>1
      <4> QED BY <1>1, <2>2, <4>1, EmptySeq, LenProperties DEF Upto, Last
    <3>2. \A k \in 1 .. n : /\ cs[k] \in Nodes /\ cs[k] > t
                            /\ cs[k] = IF k = 1 THEN t + 1 ELSE After(cs[k - 1])
      <4>1. Chain(t)
        BY <1>1
      <4>2. \A k \in 1 .. n : cs[k] \in Nodes /\ cs[k] > t
        BY <1>1, <4>1, ChildrenBelow
      <4> QED BY <4>1, <4>2 DEF Chain
    <3> HIDE DEF cs
    <3>3. \A k \in 1 .. n : ss[k] = Run(cs[k], After(cs[k]))
      BY <1>3, <3>2 DEF cs
    <3>4. Len(ss) = n
      <4>1. ss = [k \in 1 .. n |-> P[children[t][k]]]
        OBVIOUS
      <4> HIDE DEF ss
      <4>2. DOMAIN ss = 1 .. n
        BY <4>1
      <4> QED BY <3>1, <4>1
    <3> HIDE DEF n, ss, X
    <3> DEFINE f == [k \in 1 .. n |-> Run(t + 1, After(cs[k]))]
    <3>5. \A k \in 1 .. n : f[k] = IF k = 1 THEN ss[k] ELSE f[k - 1] \o ss[k]
      <4>1. TAKE k \in 1 .. n
      <4>2. CASE k = 1
        <5>1. cs[k] = t + 1
          BY <3>2, <4>2
        <5> QED BY <3>3, <4>2, <5>1
      <4>3. CASE k # 1
        <5> DEFINE a == cs[k - 1]
                   b == cs[k]
        <5>1. k - 1 \in 1 .. n
          BY <3>1, <4>3
        <5>2. a \in Nodes /\ a > t /\ b \in Nodes /\ b = After(a) /\ ss[k] = Run(b, After(b))
          BY <3>2, <3>3, <4>3, <5>1
        <5>3. f[k] = Run(t + 1, After(b)) /\ f[k - 1] = Run(t + 1, After(a))
          BY <5>1
        <5> HIDE DEF a, b, f
        <5>4. /\ a \in Nat /\ a + 1 <= After(a) /\ After(a) \in Nat
              /\ b \in Nat /\ b + 1 <= After(b) /\ After(b) \in Nat
              /\ t \in Nat /\ t + 1 \in Nat
          BY <1>2, <5>2
        <5>5. t + 1 <= b /\ b <= After(b)
          BY <5>2, <5>4
        <5>6. Run(t + 1, b) \o Run(b, After(b)) = Run(t + 1, After(b))
          BY <5>4, <5>5, RunConcat
        <5> QED BY <4>3, <5>2, <5>3, <5>6
      <4> QED BY <4>2, <4>3
    <3>6. Sums(ss, Len(ss), f)
      <4>1. f = [k \in 1 .. n |-> f[k]]
        OBVIOUS
      <4> HIDE DEF f
      <4> QED BY <3>4, <3>5, <4>1, Zenon DEF Sums
    <3>7. FlattenSeq(ss) = f[n]
      <4> HIDE DEF f
      <4>1. Len(ss) \in Nat /\ Len(ss) # 0
        BY <3>1, <3>4
      <4>2. FlattenSeq(ss) = f[Len(ss)]
        BY <3>6, <4>1, FlattenIs
      <4> QED BY <3>4, <4>2
    <3>8. f[n] = Run(t + 1, After(t))
      <4>1. n \in 1 .. n
        BY <3>1
      <4>2. f[n] = Run(t + 1, After(cs[n]))
        BY <4>1
      <4> HIDE DEF f
      <4> QED BY <3>1, <4>2
    <3> HIDE DEF f
    <3>9. Run(t, t + 1) \o Run(t + 1, After(t)) = Run(t, After(t))
      <4>1. t <= t + 1 /\ t \in Nat /\ t + 1 \in Nat /\ After(t) \in Nat /\ t + 1 <= After(t)
        BY <1>2
      <4> QED BY <4>1, RunConcat
    <3>10. <<t>> \o FlattenSeq(ss) = Run(t, After(t))
      BY <1>7, <3>7, <3>8, <3>9
    <3> QED BY <1>3, <3>10 DEF ss
  <2> QED BY <2>1, <2>2
<1>9. Traversals(P)
  <2>1. \A t \in Targets : P[t] = <<t>> \o FlattenSeq(X(t))
    <3> HIDE DEF X
    <3> QED BY <1>6, <1>8
  <2> QED BY <1>4, <2>1, Zenon DEF Traversals
<1>10. preOrder = CHOOSE g : Traversals(g)
  BY Zenon DEF preOrder, Traversals
<1>11. Traversals(preOrder)
  BY <1>9, <1>10, Zenon
<1>12. preOrder = P
  BY <1>9, <1>11, TraversalsAgree
<1>. QED
  BY <1>3, <1>12

\* From a target with children the next one is the one behind it, from a leaf none.
LEMMA NextIs ==
  ASSUME Inv, Linked, initialized, NEW t \in Nodes
  PROVE  getNextTarget(t) = IF children[t] = <<>> THEN None ELSE t + 1
<1>1. /\ depths \in Blobs /\ Nodes \subseteq Nat /\ Nodes \subseteq Targets
      /\ Len(depths) \in Nat /\ Chain(t) /\ Upto(t) = After(t)
      /\ children \in [Targets -> Seq(Targets)]
  BY BlobFacts DEF Inv, TypeOK, TreeInv, Whole
<1>2. t \in Nat /\ After(t) \in Nat /\ t + 1 <= After(t)
  <2>1. After(t) \in t + 1 .. Len(depths) + 1 /\ t \in Nat
    BY <1>1, AfterIs
  <2> QED BY <1>1, <2>1
<1>3. preOrder[t] = Run(t, After(t))
  BY TraversalIs
<1>4. /\ Len(preOrder[t]) = After(t) - t
      /\ \A i \in 1 .. After(t) - t : preOrder[t][i] = t + i - 1
  <2>1. t <= After(t)
    BY <1>2
  <2> QED BY <1>2, <1>3, <2>1, RunTyped
<1>5. CASE children[t] = <<>>
  <2>1. After(t) = t + 1
    BY <1>1, <1>5 DEF Upto
  <2>2. ~(Len(preOrder[t]) > 1)
    BY <1>2, <1>4, <2>1
  <2> QED BY <1>5, <2>2 DEF getNextTarget
<1>6. CASE children[t] # <<>>
  <2> DEFINE n == Len(children[t])
             c == children[t][n]
  <2>1. n \in 1 .. n /\ After(t) = After(c)
    <3>1. children[t] \in Seq(Targets)
      BY <1>1
    <3> QED BY <1>1, <1>6, <3>1, EmptySeq, LenProperties DEF Upto, Last
  <2>2. c \in Nodes /\ c > t
    BY <1>1, <2>1, ChildrenBelow
  <2>3. After(c) \in c + 1 .. Len(depths) + 1 /\ c \in Nat
    BY <1>1, <2>2, AfterIs
  <2> HIDE DEF c, n
  <2>4. After(t) - t > 1 /\ 2 \in 1 .. After(t) - t
    BY <1>1, <1>2, <2>1, <2>2, <2>3
  <2>5. preOrder[t][2] = t + 1
    <3>1. preOrder[t][2] = t + 2 - 1
      BY <1>4, <2>4
    <3> QED BY <1>2, <3>1
  <2> QED BY <1>4, <1>6, <2>4, <2>5 DEF getNextTarget
<1>. QED
  BY <1>5, <1>6

\* The finished tree is the blob, for blobs of any size and shape: what a client finds by
\* going up a target's parents are the nodes around its own, from the inside out; what it
\* finds by going down from the root are all nodes in the order of their offsets; and
\* getNextTarget takes it from a target with children to the node behind, from a leaf
\* nowhere (target_service.C L37-82, target.C L5-19).
THEOREM TreeStaysTheBlob == Spec => []TreeIsBlob
<1>1. ASSUME Inv, Linked PROVE TreeIsBlob
  <2>1. SUFFICES ASSUME initialized
                 PROVE  /\ \A j \in Nodes :
                             /\ ToSet(ancestors[j]) = Enclosing(j)
                             /\ \A k \in 1 .. Len(ancestors[j]) - 1 :
                                  ancestors[j][k] > ancestors[j][k + 1]
                        /\ preOrder[root] = [j \in Nodes |-> j]
                        /\ \A t \in Nodes :
                             getNextTarget(t) = IF children[t] = <<>> THEN None ELSE t + 1
    BY DEF TreeIsBlob
  <2>2. preOrder[root] = [j \in Nodes |-> j]
    <3>1. depths \in Blobs /\ root = 1 /\ Len(depths) \in Nat
      BY <1>1, <2>1, BlobFacts DEF Inv, TypeOK, TreeInv
    <3>2. preOrder[1] = Run(1, Len(depths) + 1)
      BY <1>1, <2>1, <3>1, AfterRoot, TraversalIs
    <3>3. (Len(depths) + 1) - 1 = Len(depths) /\ \A j \in 1 .. Len(depths) : 1 + j - 1 = j
      BY <3>1
    <3>4. Run(1, Len(depths) + 1) = [j \in Nodes |-> j]
      BY <3>3 DEF Run, Nodes
    <3> QED BY <3>1, <3>2, <3>4
  <2> QED BY <1>1, <2>1, <2>2, AncestorsEnclose, NextIs
<1>. QED
  BY <1>1, InvHolds, LinkedHolds, PTL

=============================================================================
