------------------------- MODULE CourseStudio_proofs -------------------------
(* Theorems about the course studio.  Trees, requests and rows keep their   *)
(* levels through edits, replays and reviews; a review changes what it      *)
(* approved; and the whole of a request, approved, gives the proposal.      *)
EXTENDS CourseStudio, Lists_proofs

-----------------------------------------------------------------------------
(* Trees *)

Content == Value \cup {Blank, NoValue} \cup {Course[n].val : n \in DOMAIN Course}

Tree == [kids : [Node -> Seq(Node)], val : [Node -> Content]]

\* The children of p, and all children.
Kin(t, p) == ToSet(t.kids[p])
Hung(t) == {n \in Node : \E p \in Node : n \in Kin(t, p)}

\* Every node hangs in one place, from a node of the level above.
Arranged(t) ==
  /\ t \in Tree
  /\ \A p \in Node : Unrepeated(t.kids[p])
  /\ \A p \in Node : \A n \in Kin(t, p) : MayHold(p, n)
  /\ \A p, q \in Node : \A n \in Kin(t, p) : n \in Kin(t, q) => p = q

\* What has children hangs from something, and what does not hang has no content.
Rooted(t) ==
  /\ \A p \in Node : \A n \in Kin(t, p) : p = Root \/ p \in Hung(t)
  /\ \A n \in Node : n \notin Hung(t) => t.val[n] = NoValue

Sound(t) == Arranged(t) /\ Rooted(t)

LEMMA NodesAreNumbers ==
  /\ Node \subseteq Int /\ Root \in Node /\ Root = 0
  /\ Node = {Root} \cup Chapter \cup Lesson \cup Tab
  /\ Root \notin Chapter /\ Root \notin Lesson /\ Root \notin Tab
  /\ Chapter \cap Lesson = {} /\ Chapter \cap Tab = {} /\ Lesson \cap Tab = {}
  /\ ServerId \subseteq Node /\ \A n \in Node : n \in ServerId <=> n > 0
  BY StudioNodes DEF Node, Root, ServerId

LEMMA IdsAreFinite == \A S \in SUBSET Node : IsFiniteSet(S)
<1>1. Node = {Root} \cup (Chapter \cup Lesson \cup Tab)
  BY DEF Node
<1>2. IsFiniteSet(Chapter \cup Lesson \cup Tab)
  BY StudioNodes
<1>3. IsFiniteSet({Root})
  BY FS_Singleton
<1>4. IsFiniteSet(Node)
  BY <1>1, <1>2, <1>3, FS_Union
<1> QED  BY <1>4, FS_Subset

\* A node hangs from one of the level above only.
LEMMA Levels ==
  /\ \A p, n : MayHold(p, n) =>
       /\ n \in Node /\ n # Root /\ p \in Node /\ p \notin Tab /\ p # n
       /\ n \in Chapter <=> p = Root
       /\ n \in Lesson <=> p \in Chapter
       /\ n \in Tab <=> p \in Lesson
  BY NodesAreNumbers DEF MayHold

LEMMA KinAreNodes ==
  ASSUME NEW t \in Tree, NEW p \in Node
  PROVE  Kin(t, p) \subseteq Node /\ t.kids[p] \in Seq(Node)
  BY DEF Tree, Kin, ToSet

\* What the nested loops over a tree reach is what hangs somewhere, if what has children
\* hangs somewhere itself.
LEMMA NodesHang ==
  ASSUME NEW t, Arranged(t)
  PROVE  /\ Nodes(t) \subseteq Hung(t) /\ Nodes(t) \subseteq Chapter \cup Lesson \cup Tab
         /\ \A p \in Nodes(t) \cup {Root} : Kin(t, p) \subseteq Nodes(t)
         /\ \A n \in Nodes(t) : \E p \in Nodes(t) \cup {Root} : n \in Kin(t, p)
         /\ Rooted(t) => Nodes(t) = Hung(t)
<1> DEFINE A == Kin(t, Root)
           B == UNION {Kin(t, p) : p \in A}
           C == UNION {Kin(t, p) : p \in B}
<1>1. Nodes(t) = A \cup B \cup C
  BY DEF Nodes, Children, Kin
<1>2. /\ \A p \in Node : Kin(t, p) \subseteq Node
      /\ \A p \in Node : \A n \in Kin(t, p) :
           /\ n \in Chapter <=> p = Root
           /\ n \in Lesson <=> p \in Chapter
           /\ n \in Tab <=> p \in Lesson
           /\ p \notin Tab
  BY KinAreNodes, Levels DEF Arranged
<1>3. /\ A \subseteq Chapter /\ B \subseteq Lesson /\ C \subseteq Tab
  <2>1. A \subseteq Chapter
    BY <1>2, NodesAreNumbers
  <2>2. B \subseteq Lesson
    BY <1>2, <2>1, NodesAreNumbers
  <2> HIDE DEF A, B
  <2>3. C \subseteq Tab
    BY <1>2, <2>2, NodesAreNumbers
  <2> QED  BY <2>1, <2>2, <2>3
<1>4. \A p \in Tab : Kin(t, p) = {}
  BY <1>2, NodesAreNumbers
<1>5. A \cup B \cup C \subseteq Hung(t)
  BY <1>2, <1>3, NodesAreNumbers DEF Hung
<1>6. \A p \in A \cup B \cup C \cup {Root} : Kin(t, p) \subseteq A \cup B \cup C
  BY <1>3, <1>4
<1>7. \A n \in A \cup B \cup C : \E p \in A \cup B \cup C \cup {Root} : n \in Kin(t, p)
  OBVIOUS
<1>8. ASSUME Rooted(t), NEW n \in Hung(t) PROVE n \in A \cup B \cup C
  <2>1. \A p \in Node : \A m \in Kin(t, p) : p = Root \/ \E q \in Node : p \in Kin(t, q)
    BY <1>8 DEF Rooted, Hung
  <2>2. PICK p \in Node : n \in Kin(t, p)
    BY DEF Hung
  <2>3. CASE p = Root
    BY <2>2, <2>3
  <2>4. CASE p # Root
    <3>1. PICK q \in Node : p \in Kin(t, q)
      BY <2>1, <2>2, <2>4
    <3>2. CASE q = Root
      BY <2>2, <3>1, <3>2
    <3>3. CASE q # Root
      <4>1. PICK r \in Node : q \in Kin(t, r)
        BY <2>1, <3>1, <3>3
      <4>2. r = Root
        BY <1>2, <2>2, <3>1, <4>1, NodesAreNumbers
      <4> QED  BY <2>2, <3>1, <4>1, <4>2
    <3> QED  BY <3>2, <3>3
  <2> QED  BY <2>3, <2>4
<1> HIDE DEF A, B, C
<1>9. Rooted(t) => Hung(t) \subseteq A \cup B \cup C
  BY <1>8
<1> QED  BY <1>1, <1>3, <1>5, <1>6, <1>7, <1>9

\* What is left of an arranged tree when one forgets what is not reached.
LEMMA PrunedIsSound ==
  ASSUME NEW t, Arranged(t)
  PROVE  /\ Sound(Prune(t)) /\ Nodes(Prune(t)) = Nodes(t)
         /\ Sound(t) => Prune(t) = t
<1> DEFINE N == Nodes(t)
           u == Prune(t)
<1>1. /\ N \subseteq Chapter \cup Lesson \cup Tab
      /\ \A p \in N \cup {Root} : Kin(t, p) \subseteq N
      /\ \A n \in N : \E p \in N \cup {Root} : n \in Kin(t, p)
      /\ Rooted(t) => N = Hung(t)
  BY NodesHang
<1> HIDE DEF N
<1>2. t \in Tree /\ N \subseteq Node /\ Root \in Node
  BY <1>1, NodesAreNumbers DEF Arranged
<1>3. u = [kids |-> [n \in Node |-> IF n = Root \/ n \in N THEN t.kids[n] ELSE <<>>],
           val |-> [n \in Node |-> IF n \in N THEN t.val[n] ELSE NoValue]]
  BY DEF Prune, N
<1>4. u \in Tree
  <2>1. NoValue \in Content /\ <<>> \in Seq(Node)
    BY DEF Content
  <2> QED  BY <1>2, <1>3, <2>1 DEF Tree
<1>5. \A p \in Node : u.kids[p] = IF p = Root \/ p \in N THEN t.kids[p] ELSE <<>>
  BY <1>3
<1>6. \A n \in Node : u.val[n] = IF n \in N THEN t.val[n] ELSE NoValue
  BY <1>3
<1>7. \A p \in Node : Kin(u, p) = IF p = Root \/ p \in N THEN Kin(t, p) ELSE {}
  <2>1. ToSet(<<>>) = {}
    BY DEF ToSet
  <2> HIDE DEF u
  <2> QED  BY <1>5, <2>1 DEF Kin
<1> HIDE DEF u
<1>8. \A p \in Node : Unrepeated(u.kids[p])
  <2>1. Unrepeated(<<>>)
    BY DEF Unrepeated
  <2> QED  BY <1>5, <2>1 DEF Arranged
<1>9. Arranged(u)
  BY <1>4, <1>7, <1>8 DEF Arranged
<1>10. Hung(u) = N
  BY <1>1, <1>2, <1>7 DEF Hung
<1>11. Rooted(u)
  BY <1>1, <1>2, <1>6, <1>7, <1>10 DEF Rooted
<1>12. Nodes(u) = N
  BY <1>9, <1>10, <1>11, NodesHang
<1>13. ASSUME Sound(t) PROVE u = t
  <2>1. /\ \A p \in Node : Kin(t, p) # {} => p = Root \/ p \in N
        /\ \A n \in Node : n \notin N => t.val[n] = NoValue
    BY <1>1, <1>13 DEF Sound, Rooted
  <2>2. \A p \in Node : u.kids[p] = t.kids[p]
    <3> SUFFICES ASSUME NEW p \in Node, p # Root, p \notin N PROVE t.kids[p] = <<>>
      BY <1>5
    <3>1. Kin(t, p) = {} /\ t.kids[p] \in Seq(Node)
      BY <1>2, <2>1, KinAreNodes
    <3>2. PICK s \in Seq(Node) : s = t.kids[p]
      BY <3>1
    <3>3. ToSet(s) = {}
      BY <3>1, <3>2 DEF Kin
    <3>4. DOMAIN s = {}
      BY <3>3 DEF ToSet
    <3>5. s = <<>>
      BY <3>4
    <3> QED  BY <3>2, <3>5
  <2>3. \A n \in Node : u.val[n] = t.val[n]
    BY <1>6, <2>1
  <2>4. u.kids = t.kids /\ u.val = t.val
    BY <1>2, <1>4, <2>2, <2>3 DEF Tree
  <2> QED  BY <1>2, <1>4, <2>4 DEF Tree
<1> QED  BY <1>9, <1>11, <1>12, <1>13 DEF Sound, N, u

\* A sound tree is what TypeOK asks of the trees that are shown.
LEMMA SoundIsWellFormed ==
  ASSUME NEW t, Sound(t) PROVE WellFormed(t)
<1>1. Arranged(t) /\ t \in Tree
  BY DEF Sound, Arranged
<1>2. Prune(t) = t
  BY <1>1, PrunedIsSound
<1>3. ASSUME NEW p \in Node, NEW k \in DOMAIN t.kids[p]
      PROVE  /\ Holders(t, t.kids[p][k]) = {p}
             /\ \A j \in DOMAIN t.kids[p] : t.kids[p][j] = t.kids[p][k] => j = k
             /\ MayHold(p, t.kids[p][k])
  <2>1. t.kids[p][k] \in Kin(t, p)
    BY DEF Kin, ToSet
  <2>2. MayHold(p, t.kids[p][k])
    BY <1>1, <2>1 DEF Arranged
  <2>3. Holders(t, t.kids[p][k]) = {p}
    BY <1>1, <2>1 DEF Arranged, Holders, Kin
  <2>4. Unrepeated(t.kids[p])
    BY <1>1 DEF Arranged
  <2> QED  BY <2>2, <2>3, <2>4 DEF Unrepeated
<1> QED  BY <1>2, <1>3 DEF WellFormed

LEMMA EmptyIsSound == Sound(EmptyTree)
<1>1. /\ EmptyTree \in Tree
      /\ \A p \in Node : EmptyTree.kids[p] = <<>> /\ EmptyTree.val[p] = NoValue
  <2>1. NoValue \in Content /\ <<>> \in Seq(Node)
    BY DEF Content
  <2> QED  BY <2>1 DEF EmptyTree, Tree
<1>2. ToSet(<<>>) = {} /\ Unrepeated(<<>>)
  BY DEF ToSet, Unrepeated
<1>3. \A p \in Node : Kin(EmptyTree, p) = {}
  BY <1>1, <1>2 DEF Kin
<1> QED  BY <1>1, <1>2, <1>3 DEF Sound, Arranged, Rooted, Hung

\* A node taken out of a tree; what hangs from it stays with it.
LEMMA WithoutIsArranged ==
  ASSUME NEW t, Arranged(t), NEW n
  PROVE  /\ Arranged(Without(t, n)) /\ Without(t, n).val = t.val
         /\ \A p \in Node : Kin(Without(t, n), p) = Kin(t, p) \ {n}
<1> DEFINE u == Without(t, n)
           K(p) == {k \in DOMAIN t.kids[p] : t.kids[p][k] # n}
<1>1. t \in Tree /\ \A p \in Node : t.kids[p] \in Seq(Node) /\ Unrepeated(t.kids[p])
  BY DEF Arranged, Tree
<1>2. u = [t EXCEPT !.kids = [p \in Node |-> Kept(t.kids[p], K(p))]]
  BY DEF Without
<1>3. ASSUME NEW p \in Node
      PROVE  /\ Kept(t.kids[p], K(p)) \in Seq(Node)
             /\ Unrepeated(Kept(t.kids[p], K(p)))
             /\ ToSet(Kept(t.kids[p], K(p))) = Kin(t, p) \ {n}
  <2>1. PICK s \in Seq(Node) : s = t.kids[p]
    BY <1>1
  <2>2. PICK J \in SUBSET DOMAIN s : J = {k \in DOMAIN s : s[k] # n}
    OBVIOUS
  <2>3. /\ Kept(s, J) \in Seq(Node) /\ ToSet(Kept(s, J)) = {s[i] : i \in J}
        /\ Unrepeated(Kept(s, J))
    BY <1>1, <2>1, KeptIsPart
  <2>4. {s[i] : i \in J} = ToSet(s) \ {n}
    BY <2>2 DEF ToSet
  <2> QED  BY <2>1, <2>2, <2>3, <2>4 DEF Kin
<1> HIDE DEF K
<1>4. /\ u \in Tree /\ u.val = t.val
      /\ \A p \in Node : u.kids[p] = Kept(t.kids[p], K(p))
  BY <1>1, <1>2, <1>3 DEF Tree
<1> HIDE DEF u
<1>5. \A p \in Node : Kin(u, p) = Kin(t, p) \ {n} /\ Unrepeated(u.kids[p])
  BY <1>3, <1>4 DEF Kin
<1>6. Arranged(u)
  BY <1>4, <1>5 DEF Arranged
<1> QED  BY <1>4, <1>5, <1>6 DEF u

\* Trees that differ in the list of p, which holds n besides what it held.
Joined(t, u, p, n) ==
  /\ Arranged(u) /\ u.val = t.val
  /\ \A q \in Node : Kin(u, q) = IF q = p THEN Kin(t, q) \cup {n} ELSE Kin(t, q)

\* A list with one more node in place of that of p.
LEMMA JoinedIsArranged ==
  ASSUME NEW t, Arranged(t), NEW p, NEW n, MayHold(p, n), n \notin Hung(t),
         NEW s \in Seq(Node), Unrepeated(s), ToSet(s) = Kin(t, p) \cup {n}
  PROVE  Joined(t, [t EXCEPT !.kids[p] = s], p, n)
<1> DEFINE u == [t EXCEPT !.kids[p] = s]
<1>1. t \in Tree /\ p \in Node /\ n \in Node
  BY Levels DEF Arranged
<1>2. /\ u \in Tree /\ u.val = t.val
      /\ \A q \in Node : u.kids[q] = IF q = p THEN s ELSE t.kids[q]
  BY <1>1 DEF Tree
<1> HIDE DEF u
<1>3. \A q \in Node : Kin(u, q) = IF q = p THEN Kin(t, q) \cup {n} ELSE Kin(t, q)
  BY <1>2 DEF Kin
<1>4. \A q \in Node : n \notin Kin(t, q)
  BY <1>1 DEF Hung
<1>5. Arranged(u)
  BY <1>1, <1>2, <1>3, <1>4 DEF Arranged
<1> QED  BY <1>2, <1>3, <1>5 DEF u, Joined

LEMMA PlacedIsArranged ==
  ASSUME NEW t, Arranged(t), NEW p, NEW n, MayHold(p, n), n \notin Hung(t), NEW order \in Nat
  PROVE  Joined(t, PlaceAt(t, p, n, order), p, n)
<1>1. p \in Node /\ n \in Node
  BY Levels
<1>2. PICK s \in Seq(Node) : s = t.kids[p]
  BY <1>1 DEF Arranged, Tree
<1>3. Unrepeated(s) /\ ToSet(s) = Kin(t, p) /\ n \notin ToSet(s)
  BY <1>1, <1>2 DEF Arranged, Kin, Hung
<1>4. PICK at \in 1 .. Len(s) + 1 : at = (IF order < Len(s) THEN order ELSE Len(s)) + 1
  OBVIOUS
<1>5. PICK w : w = InsertAt(s, at, n)
  OBVIOUS
<1>6. w \in Seq(Node) /\ ToSet(w) = Kin(t, p) \cup {n} /\ Unrepeated(w)
  BY <1>1, <1>3, <1>5, InsertAtIsList
<1>7. PlaceAt(t, p, n, order) = [t EXCEPT !.kids[p] = w]
  BY <1>2, <1>4, <1>5 DEF PlaceAt
<1>8. Joined(t, [t EXCEPT !.kids[p] = w], p, n)
  BY <1>6, JoinedIsArranged
<1> QED  BY <1>7, <1>8

LEMMA AppendedIsArranged ==
  ASSUME NEW t, Arranged(t), NEW p, NEW n, MayHold(p, n), n \notin Hung(t)
  PROVE  Joined(t, [t EXCEPT !.kids[p] = Append(@, n)], p, n)
<1>1. p \in Node /\ n \in Node /\ t \in Tree
  BY Levels DEF Arranged
<1>2. PICK s \in Seq(Node) : s = t.kids[p]
  BY <1>1 DEF Tree
<1>3. Unrepeated(s) /\ ToSet(s) = Kin(t, p) /\ n \notin ToSet(s)
  BY <1>1, <1>2 DEF Arranged, Kin, Hung
<1>4. PICK w : w = Append(s, n)
  OBVIOUS
<1>5. w \in Seq(Node) /\ ToSet(w) = Kin(t, p) \cup {n} /\ Unrepeated(w)
  BY <1>1, <1>3, <1>4, AppendIsList
<1>6. [t EXCEPT !.kids[p] = Append(@, n)] = [t EXCEPT !.kids[p] = w]
  BY <1>1, <1>2, <1>4 DEF Tree
<1>7. Joined(t, [t EXCEPT !.kids[p] = w], p, n)
  BY <1>5, JoinedIsArranged
<1> QED  BY <1>6, <1>7

LEMMA TypedTree ==
  ASSUME NEW t, Arranged(t), NEW n \in Node, NEW v \in Content
  PROVE  /\ Arranged([t EXCEPT !.val[n] = v])
         /\ \A p \in Node : Kin([t EXCEPT !.val[n] = v], p) = Kin(t, p)
         /\ \A m \in Node : [t EXCEPT !.val[n] = v].val[m] = IF m = n THEN v ELSE t.val[m]
<1> DEFINE u == [t EXCEPT !.val[n] = v]
<1>1. t \in Tree
  BY DEF Arranged
<1>2. /\ u \in Tree /\ u.kids = t.kids
      /\ \A m \in Node : u.val[m] = IF m = n THEN v ELSE t.val[m]
  BY <1>1 DEF Tree
<1> HIDE DEF u
<1>3. \A p \in Node : Kin(u, p) = Kin(t, p)
  BY <1>2 DEF Kin
<1>4. Arranged(u)
  BY <1>2, <1>3 DEF Arranged
<1> QED  BY <1>2, <1>3, <1>4 DEF u

\* A new node in a sound tree.
LEMMA CreatedIsSound ==
  ASSUME NEW t, Sound(t), NEW p, NEW n, MayHold(p, n), n \notin Hung(t),
         p = Root \/ p \in Hung(t), NEW v \in Content,
         NEW u, Joined([t EXCEPT !.val[n] = v], u, p, n)
  PROVE  Sound(u) /\ Hung(u) = Hung(t) \cup {n}
<1>1. PICK w : w = [t EXCEPT !.val[n] = v]
  OBVIOUS
<1>2. p \in Node /\ n \in Node /\ Arranged(t) /\ Rooted(t)
  BY Levels DEF Sound
<1>3. /\ \A q \in Node : Kin(w, q) = Kin(t, q)
      /\ \A m \in Node : w.val[m] = IF m = n THEN v ELSE t.val[m]
  BY <1>1, <1>2, TypedTree
<1>4. /\ Arranged(u) /\ u.val = w.val
      /\ \A q \in Node : Kin(u, q) = IF q = p THEN Kin(t, q) \cup {n} ELSE Kin(t, q)
  BY <1>1, <1>3 DEF Joined
<1>5. Hung(u) = Hung(t) \cup {n}
  BY <1>2, <1>4 DEF Hung
<1>6. Rooted(u)
  BY <1>2, <1>3, <1>4, <1>5 DEF Rooted
<1> QED  BY <1>4, <1>5, <1>6 DEF Sound

\* A node that hangs from another one than before.
LEMMA MovedIsSound ==
  ASSUME NEW t, Sound(t), NEW p, NEW n, MayHold(p, n), n \in Hung(t),
         p = Root \/ p \in Hung(t), NEW u, Joined(Without(t, n), u, p, n)
  PROVE  Sound(u) /\ Hung(u) = Hung(t)
<1>1. p \in Node /\ n \in Node /\ p # n /\ Arranged(t) /\ Rooted(t)
  BY Levels DEF Sound
<1>2. /\ Without(t, n).val = t.val
      /\ \A q \in Node : Kin(Without(t, n), q) = Kin(t, q) \ {n}
  BY <1>1, WithoutIsArranged
<1>3. /\ Arranged(u) /\ u.val = t.val
      /\ \A q \in Node : Kin(u, q) = IF q = p THEN Kin(t, q) \cup {n} ELSE Kin(t, q) \ {n}
  BY <1>2 DEF Joined
<1>4. Hung(u) = Hung(t)
  BY <1>1, <1>3 DEF Hung
<1>5. Rooted(u)
  BY <1>1, <1>3, <1>4 DEF Rooted
<1> QED  BY <1>3, <1>4, <1>5 DEF Sound

\* A node taken away, with what hangs from it.
LEMMA RemovedIsSound ==
  ASSUME NEW t, Sound(t), NEW n
  PROVE  /\ Sound(Prune(Without(t, n)))
         /\ Nodes(Prune(Without(t, n))) \subseteq Nodes(t)
         /\ Nodes(Without(t, n)) \subseteq Nodes(t)
<1>1. PICK u : u = Without(t, n)
  OBVIOUS
<1>2. Arranged(u) /\ \A p \in Node : Kin(u, p) \subseteq Kin(t, p)
  BY <1>1, WithoutIsArranged DEF Sound
<1>3. Hung(u) \subseteq Hung(t)
  BY <1>2 DEF Hung
<1>4. Sound(Prune(u)) /\ Nodes(Prune(u)) = Nodes(u) /\ Nodes(u) \subseteq Hung(u)
  BY <1>2, PrunedIsSound, NodesHang
<1>5. Nodes(t) = Hung(t)
  BY NodesHang DEF Sound
<1> QED  BY <1>1, <1>3, <1>4, <1>5

LEMMA UpdatedIsSound ==
  ASSUME NEW t, Sound(t), NEW n \in Nodes(t), NEW v \in Content
  PROVE  Sound([t EXCEPT !.val[n] = v]) /\ Nodes([t EXCEPT !.val[n] = v]) = Nodes(t)
<1>1. PICK u : u = [t EXCEPT !.val[n] = v]
  OBVIOUS
<1>2. Arranged(t) /\ Rooted(t) /\ Nodes(t) = Hung(t) /\ n \in Node
  BY NodesHang DEF Sound, Hung
<1>3. /\ Arranged(u) /\ \A p \in Node : Kin(u, p) = Kin(t, p)
      /\ \A m \in Node : u.val[m] = IF m = n THEN v ELSE t.val[m]
  BY <1>1, <1>2, TypedTree
<1>4. Hung(u) = Hung(t)
  BY <1>3 DEF Hung
<1>5. Rooted(u)
  BY <1>2, <1>3, <1>4 DEF Rooted
<1>6. Nodes(u) = Nodes(t)
  BY <1>2, <1>3, <1>4, <1>5, NodesHang
<1> QED  BY <1>1, <1>3, <1>5, <1>6 DEF Sound

-----------------------------------------------------------------------------
(* Replaying a request on a tree *)

Op == [type : {"create", "update", "delete", "reorder"}, target : Node, ref : Node,
       parent : Node, order : Nat, val : Content, st : OpStatus, made : Node]

\* An operation creates a node under one of the level above, or is about a node of the
\* server, which it may move under one of the level above.
OpFits(op) ==
  /\ op.type = "create" => op.ref < 0 /\ MayHold(op.parent, op.ref)
  /\ op.type # "create" => op.target \in ServerId
  /\ op.type = "reorder" /\ op.parent # Root => MayHold(op.parent, op.target)

OpsFit(ops) ==
  /\ ops \in Seq(Op)
  /\ \A k \in DOMAIN ops : OpFits(ops[k])
  /\ \A j, k \in DOMAIN ops : ops[j].type = "create" /\ ops[k].type = "create"
                              /\ ops[j].ref = ops[k].ref => j = k

\* The parent that a reordered node gets.
LEMMA ReorderParentsFit ==
  ASSUME NEW t, Sound(t), NEW op \in Op, OpFits(op), op.type = "reorder",
         op.target \in Nodes(t), NEW p \in ReorderParents(Without(t, op.target), op)
  PROVE  MayHold(p, op.target) /\ (p = Root \/ p \in Nodes(t))
<1>1. PICK u : u = Without(t, op.target)
  OBVIOUS
<1>2. PICK n : n = op.target
  OBVIOUS
<1>3. /\ Arranged(u) /\ \A q \in Node : Kin(u, q) = Kin(t, q) \ {n}
      /\ Nodes(u) \subseteq Nodes(t)
  BY <1>1, <1>2, WithoutIsArranged, RemovedIsSound DEF Sound
<1>4. /\ n \in Chapter \cup Lesson \cup Tab
      /\ \A m \in Kin(u, Root) : m \in Nodes(u) /\ m \in Chapter
  <2>1. \A m \in Kin(u, Root) : MayHold(Root, m)
    BY <1>3, NodesAreNumbers DEF Arranged
  <2>2. \A m \in Kin(u, Root) : m \in Chapter
    BY <2>1, Levels
  <2> QED  BY <1>2, <1>3, <2>2, NodesHang DEF Sound
<1>5. CASE n \in Chapter
  BY <1>1, <1>2, <1>5 DEF ReorderParents, MayHold
<1>6. CASE n \notin Chapter /\ op.parent # Root
  BY <1>1, <1>2, <1>3, <1>6 DEF ReorderParents, OpFits
<1>7. CASE n \notin Chapter /\ op.parent = Root
  <2>1. Holders(u, n) = {}
    BY <1>3 DEF Holders, Kin
  <2>2. n \in Lesson /\ u.kids[Root] # <<>> /\ p = Head(u.kids[Root])
    BY <1>1, <1>2, <1>4, <1>7, <2>1 DEF ReorderParents
  <2>3. PICK s \in Seq(Node) : s = u.kids[Root]
    BY <1>3, NodesAreNumbers DEF Arranged, Tree
  <2>4. Head(s) \in ToSet(s)
    BY <2>2, <2>3 DEF ToSet
  <2>5. p \in Kin(u, Root)
    BY <2>2, <2>3, <2>4 DEF Kin
  <2> QED  BY <1>2, <1>3, <1>4, <2>2, <2>5 DEF MayHold
<1> QED  BY <1>5, <1>6, <1>7

LEMMA ProjectOneKeeps ==
  ASSUME NEW t, Sound(t), NEW op \in Op, OpFits(op),
         op.type = "create" => op.ref \notin Nodes(t)
  PROVE  /\ Sound(ProjectOne(t, op))
         /\ Nodes(ProjectOne(t, op)) \subseteq
              Nodes(t) \cup (IF op.type = "create" THEN {op.ref} ELSE {})
<1>1. Arranged(t) /\ Rooted(t) /\ Nodes(t) = Hung(t)
  BY NodesHang DEF Sound
<1>2. op.type \in {"create", "update", "delete", "reorder"} /\ op.val \in Content /\ op.order \in Nat
  BY DEF Op
<1>3. CASE op.type = "create"
  <2>1. ProjectOne(t, op) = ProjectCreate(t, op)
    BY <1>3 DEF ProjectOne
  <2>2. PICK p : p = op.parent
    OBVIOUS
  <2>3. PICK n : n = op.ref
    OBVIOUS
  <2>4. MayHold(p, n) /\ n \notin Hung(t) /\ p \in Node /\ n \in Node /\ (n \in Chapter <=> p = Root)
    BY <1>1, <1>3, <2>2, <2>3, Levels DEF OpFits
  <2>5. PICK w : w = [t EXCEPT !.val[n] = op.val]
    OBVIOUS
  <2>6. Arranged(w) /\ \A q \in Node : Kin(w, q) = Kin(t, q)
    BY <1>1, <1>2, <2>4, <2>5, TypedTree
  <2>7. n \notin Hung(w)
    BY <2>4, <2>6 DEF Hung
  <2>8. PICK u : u = PlaceAt(w, p, n, op.order)
    OBVIOUS
  <2>9. Joined(w, u, p, n)
    BY <1>2, <2>4, <2>6, <2>7, <2>8, PlacedIsArranged
  <2>10. CASE p = Root \/ p \in Nodes(t)
    <3>1. ProjectCreate(t, op) = u
      BY <2>2, <2>3, <2>4, <2>5, <2>8, <2>10 DEF ProjectCreate
    <3>2. Sound(u) /\ Hung(u) = Hung(t) \cup {n}
      BY <1>1, <1>2, <2>4, <2>5, <2>9, <2>10, CreatedIsSound
    <3>3. Nodes(u) = Hung(u)
      BY <3>2, NodesHang DEF Sound
    <3> QED  BY <1>1, <1>3, <2>1, <2>3, <3>1, <3>2, <3>3
  <2>11. CASE p # Root /\ p \notin Nodes(t)
    <3>1. ProjectCreate(t, op) = t
      BY <2>2, <2>3, <2>4, <2>11 DEF ProjectCreate
    <3> QED  BY <2>1, <3>1
  <2> QED  BY <2>10, <2>11
<1>4. CASE op.type = "update"
  <2>1. ProjectOne(t, op) = ProjectUpdate(t, op)
    BY <1>4 DEF ProjectOne
  <2>2. PICK n : n = op.target
    OBVIOUS
  <2>3. CASE n \in Nodes(t)
    <3>1. ProjectUpdate(t, op) = [t EXCEPT !.val[n] = op.val]
      BY <2>2, <2>3 DEF ProjectUpdate
    <3>2. Sound([t EXCEPT !.val[n] = op.val]) /\ Nodes([t EXCEPT !.val[n] = op.val]) = Nodes(t)
      BY <1>2, <2>3, UpdatedIsSound
    <3> QED  BY <2>1, <3>1, <3>2
  <2>4. CASE n \notin Nodes(t)
    BY <2>1, <2>2, <2>4 DEF ProjectUpdate
  <2> QED  BY <2>3, <2>4
<1>5. CASE op.type = "delete"
  <2>1. ProjectOne(t, op) = Prune(Without(t, op.target))
    BY <1>5 DEF ProjectOne, ProjectDelete
  <2> QED  BY <2>1, RemovedIsSound
<1>6. CASE op.type = "reorder"
  <2>1. ProjectOne(t, op) = ProjectReorder(t, op)
    BY <1>6 DEF ProjectOne
  <2>2. PICK n : n = op.target
    OBVIOUS
  <2>3. PICK w : w = Without(t, n)
    OBVIOUS
  <2>4. CASE n \notin Nodes(t)
    BY <2>1, <2>2, <2>4 DEF ProjectReorder
  <2>5. CASE n \in Nodes(t) /\ ReorderParents(w, op) = {}
    <3>1. ProjectReorder(t, op) = Prune(w)
      BY <2>2, <2>3, <2>5 DEF ProjectReorder
    <3> QED  BY <2>1, <2>3, <3>1, RemovedIsSound
  <2>6. CASE n \in Nodes(t) /\ ReorderParents(w, op) # {}
    <3>1. PICK p : p = CHOOSE q \in ReorderParents(w, op) : TRUE
      OBVIOUS
    <3>2. p \in ReorderParents(w, op)
      BY <2>6, <3>1
    <3>3. MayHold(p, n) /\ (p = Root \/ p \in Hung(t)) /\ n \in Hung(t)
      BY <1>1, <1>6, <2>2, <2>3, <2>6, <3>2, ReorderParentsFit
    <3>4. Arranged(w) /\ n \notin Hung(w)
      <4>1. Arranged(w) /\ \A q \in Node : Kin(w, q) = Kin(t, q) \ {n}
        BY <1>1, <2>3, WithoutIsArranged
      <4> QED  BY <4>1 DEF Hung
    <3>5. PICK u : u = PlaceAt(w, p, n, op.order)
      OBVIOUS
    <3>6. Joined(w, u, p, n)
      BY <1>2, <3>3, <3>4, <3>5, PlacedIsArranged
    <3>7. Sound(u) /\ Hung(u) = Hung(t)
      BY <2>3, <3>3, <3>6, MovedIsSound
    <3>8. ProjectReorder(t, op) = u
      BY <2>2, <2>3, <2>6, <3>1, <3>5 DEF ProjectReorder
    <3>9. Nodes(u) = Hung(u)
      BY <3>7, NodesHang DEF Sound
    <3> QED  BY <1>1, <2>1, <3>7, <3>8, <3>9
  <2> QED  BY <2>4, <2>5, <2>6
<1> QED  BY <1>2, <1>3, <1>4, <1>5, <1>6

\* The trees that a replay goes through.
Replayed(tree, ops, n, f) ==
  f = [k \in 0 .. n |-> IF k = 0 THEN tree ELSE ProjectOne(f[k - 1], ops[k])]

LEMMA ReplayEnds ==
  ASSUME NEW tree, NEW ops, NEW n \in Nat
  PROVE  \E f : Replayed(tree, ops, n, f)
<1> DEFINE T == {k \in Nat : \E f : Replayed(tree, ops, k, f)}
<1>1. 0 \in T
  <2> DEFINE e == [i \in 0 .. 0 |-> tree]
  <2>1. e = [i \in 0 .. 0 |-> IF i = 0 THEN tree ELSE ProjectOne(e[i - 1], ops[i])]
    <3>1. \A i \in 0 .. 0 : i = 0
      OBVIOUS
    <3> QED  BY <3>1
  <2> HIDE DEF e
  <2>2. Replayed(tree, ops, 0, e)
    BY <2>1 DEF Replayed
  <2> QED  BY <2>2
<1>2. ASSUME NEW k \in Nat, k \in T PROVE k + 1 \in T
  <2>1. PICK f : Replayed(tree, ops, k, f)
    BY <1>2
  <2> DEFINE g == [i \in 0 .. k + 1 |->
                     IF i = k + 1 THEN ProjectOne(f[k], ops[i]) ELSE f[i]]
  <2>2. \A i \in 0 .. k : f[i] = IF i = 0 THEN tree ELSE ProjectOne(f[i - 1], ops[i])
    BY <2>1 DEF Replayed
  <2>3. \A i \in 0 .. k + 1 : g[i] = IF i = 0 THEN tree ELSE ProjectOne(g[i - 1], ops[i])
    <3> SUFFICES ASSUME NEW i \in 0 .. k + 1
                 PROVE  g[i] = IF i = 0 THEN tree ELSE ProjectOne(g[i - 1], ops[i])
      OBVIOUS
    <3>1. CASE i = k + 1
      <4>1. i # 0 /\ i - 1 \in 0 .. k + 1 /\ i - 1 # k + 1 /\ i - 1 = k
        BY <3>1
      <4> QED  BY <3>1, <4>1
    <3>2. CASE i # k + 1
      <4>1. /\ i \in 0 .. k
            /\ i # 0 => i - 1 \in 0 .. k + 1 /\ i - 1 # k + 1
        BY <3>2
      <4> QED  BY <2>2, <3>2, <4>1
    <3> QED  BY <3>1, <3>2
  <2>4. g = [i \in 0 .. k + 1 |-> g[i]]
    OBVIOUS
  <2> HIDE DEF g
  <2>5. g = [i \in 0 .. k + 1 |-> IF i = 0 THEN tree ELSE ProjectOne(g[i - 1], ops[i])]
    BY <2>3, <2>4
  <2>6. Replayed(tree, ops, k + 1, g)
    BY <2>5 DEF Replayed
  <2> QED  BY <2>6
<1> HIDE DEF T
<1>3. Nat \subseteq T
  BY <1>1, <1>2, SetInduction
<1> QED  BY <1>3 DEF T

\* A request that was stored is replayed on a tree of the server without breaking it.
LEMMA ReplayIsSound ==
  ASSUME NEW t, Sound(t), \A n \in Nodes(t) : n > 0, NEW ops, OpsFit(ops)
  PROVE  /\ Sound(ProjectOperations(t, ops))
         /\ \A m \in Nodes(ProjectOperations(t, ops)) : m \in Nodes(t) \/ IsNewKey(m)
<1>1. PICK n \in Nat : n = Len(ops) /\ DOMAIN ops = 1 .. n
  BY DEF OpsFit
<1>2. PICK f : f = CHOOSE g : Replayed(t, ops, n, g)
  OBVIOUS
<1>3. ProjectOperations(t, ops) = f[n]
  BY <1>1, <1>2 DEF ProjectOperations, Replayed
<1>4. Replayed(t, ops, n, f)
  BY <1>2, ReplayEnds
<1>5. f[0] = t /\ \A k \in 1 .. n : f[k] = ProjectOne(f[k - 1], ops[k])
  <2>1. \A k \in 0 .. n : f[k] = IF k = 0 THEN t ELSE ProjectOne(f[k - 1], ops[k])
    BY <1>4 DEF Replayed
  <2>2. 0 \in 0 .. n /\ \A k \in 1 .. n : k \in 0 .. n /\ k # 0
    OBVIOUS
  <2> QED  BY <2>1, <2>2
<1>6. \A k \in 1 .. n : ops[k] \in Op /\ OpFits(ops[k])
  BY <1>1 DEF OpsFit
<1> DEFINE Good(k) ==
      /\ Sound(f[k])
      /\ \A m \in Nodes(f[k]) :
           m \in Nodes(t) \/ \E j \in 1 .. k : ops[j].type = "create" /\ ops[j].ref = m
           T == {k \in Nat : k <= n => Good(k)}
<1>7. 0 \in T
  BY <1>5
<1>8. ASSUME NEW k \in Nat, k \in T PROVE k + 1 \in T
  <2> SUFFICES ASSUME k + 1 <= n PROVE Good(k + 1)
    OBVIOUS
  <2>1. /\ k + 1 \in 1 .. n /\ (k + 1) - 1 = k /\ Good(k)
        /\ \A j \in 1 .. k : j \in 1 .. n /\ j # k + 1 /\ j \in 1 .. k + 1
        /\ k + 1 \in 1 .. k + 1
    BY <1>8
  <2>2. PICK op \in Op : op = ops[k + 1] /\ OpFits(op)
    BY <1>6, <2>1
  <2>3. f[k + 1] = ProjectOne(f[k], op)
    BY <1>5, <2>1, <2>2
  <2>4. ASSUME op.type = "create" PROVE op.ref \notin Nodes(f[k])
    <3>1. op.ref \notin Nodes(t)
      BY <2>2, <2>4, NodesAreNumbers DEF OpFits, Op
    <3>2. \A j \in 1 .. k : ~ (ops[j].type = "create" /\ ops[j].ref = op.ref)
      BY <1>1, <2>1, <2>2, <2>4 DEF OpsFit
    <3> QED  BY <2>1, <3>1, <3>2
  <2> HIDE DEF Good
  <2>5. /\ Sound(ProjectOne(f[k], op))
        /\ Nodes(ProjectOne(f[k], op)) \subseteq
             Nodes(f[k]) \cup (IF op.type = "create" THEN {op.ref} ELSE {})
    BY <2>1, <2>2, <2>4, ProjectOneKeeps DEF Good
  <2>6. \A m \in Nodes(f[k + 1]) :
          m \in Nodes(f[k]) \/ (ops[k + 1].type = "create" /\ ops[k + 1].ref = m)
    BY <2>2, <2>3, <2>5
  <2> QED  BY <2>1, <2>3, <2>5, <2>6 DEF Good
<1> HIDE DEF T
<1>9. Nat \subseteq T
  BY <1>7, <1>8, SetInduction
<1>10. Sound(f[n]) /\ \A m \in Nodes(f[n]) :
                        m \in Nodes(t) \/ \E j \in 1 .. n : ops[j].type = "create" /\ ops[j].ref = m
  BY <1>9 DEF T
<1>11. \A j \in 1 .. n : ops[j].type = "create" => IsNewKey(ops[j].ref)
  BY <1>6 DEF OpFits, IsNewKey
<1> QED  BY <1>3, <1>10, <1>11

-----------------------------------------------------------------------------
(* The course's tables and their tree *)

Row == [st : {"unborn", "live", "gone"}, parent : Node, order : Nat, val : Content]

\* A live row hangs from the course or from a live row of the level above.
RowsFit(rows) ==
  /\ rows \in [ServerId -> Row]
  /\ \A n \in ServerId : rows[n].st = "live" =>
       /\ MayHold(rows[n].parent, n)
       /\ rows[n].parent = Root \/ Live(rows, rows[n].parent)

\* Siblings are listed each once.
LEMMA InOrderIsList ==
  ASSUME NEW rows, RowsFit(rows), NEW S \in SUBSET ServerId
  PROVE  InOrder(rows, S) \in Seq(S) /\ Unrepeated(InOrder(rows, S)) /\ ToSet(InOrder(rows, S)) = S
<1> DEFINE before(n) == {m \in S : RowBefore(rows, m, n)}
<1>1. IsFiniteSet(S) /\ S \subseteq Int /\ \A n \in S : rows[n].order \in Nat
  <2>1. S \in SUBSET Node
    BY NodesAreNumbers
  <2> QED  BY <2>1, IdsAreFinite, NodesAreNumbers DEF RowsFit, Row
<1>2. PICK c \in Nat : c = Cardinality(S)
  BY <1>1, FS_CardinalityType
<1>3. ASSUME NEW n \in S PROVE Cardinality(before(n)) \in 0 .. c - 1
  <2>1. n \notin before(n)
    BY <1>1 DEF RowBefore
  <2>2. before(n) \in SUBSET S /\ before(n) # S
    BY <2>1
  <2> HIDE DEF before
  <2>3. /\ Cardinality(before(n)) \in Nat /\ Cardinality(before(n)) <= c
        /\ Cardinality(before(n)) # c
    BY <1>1, <1>2, <2>2, FS_Subset, FS_CardinalityType
  <2> QED  BY <2>3
<1>4. ASSUME NEW m \in S, NEW n \in S, m # n
      PROVE  Cardinality(before(m)) # Cardinality(before(n))
  <2>1. \A a, b \in S : RowBefore(rows, a, b) =>
          a # b /\ before(a) \in SUBSET before(b) /\ a \in before(b) /\ a \notin before(a)
    BY <1>1 DEF RowBefore
  <2>2. RowBefore(rows, m, n) \/ RowBefore(rows, n, m)
    BY <1>1, <1>4 DEF RowBefore
  <2>3. \A a \in S : IsFiniteSet(before(a))
    BY <1>1, FS_Subset
  <2> HIDE DEF before
  <2>4. ASSUME NEW a \in S, NEW b \in S, RowBefore(rows, a, b)
        PROVE  Cardinality(before(a)) # Cardinality(before(b))
    <3>1. before(a) \in SUBSET before(b) /\ before(a) # before(b) /\ IsFiniteSet(before(b))
      BY <2>1, <2>3, <2>4
    <3> QED  BY <3>1, FS_Subset
  <2> QED  BY <2>2, <2>4
<1> DEFINE N == 0 .. c - 1
           f == [n \in S |-> Cardinality(before(n))]
<1> HIDE DEF before
<1>5. f \in [S -> N] /\ IsInjective(f)
  BY <1>3, <1>4 DEF IsInjective
<1>6. f \in Injection(S, N)
  BY <1>5 DEF Injection
<1>7. IsFiniteSet(N) /\ Cardinality(N) = Cardinality(S)
  <2>1. 0 \in Int /\ c - 1 \in Int
    OBVIOUS
  <2>2. IsFiniteSet(N) /\ Cardinality(N) = IF 0 > c - 1 THEN 0 ELSE (c - 1) - 0 + 1
    BY <2>1, FS_Interval
  <2>3. (IF 0 > c - 1 THEN 0 ELSE (c - 1) - 0 + 1) = c
    OBVIOUS
  <2> QED  BY <1>2, <2>2, <2>3
<1> HIDE DEF f
<1>8. f \in Surjection(S, N)
  <2> HIDE DEF N
  <2> QED  BY <1>1, <1>6, <1>7, FS_Injection
<1>9. \A k \in 1 .. c : \E n \in S : Cardinality(before(n)) = k - 1
  <2>1. \A k \in 1 .. c : k - 1 \in N
    OBVIOUS
  <2>2. \A j \in N : \E n \in S : f[n] = j
    BY <1>8 DEF Surjection
  <2>3. \A n \in S : f[n] = Cardinality(before(n))
    BY DEF f
  <2> QED  BY <2>1, <2>2, <2>3
<1> DEFINE l == [k \in 1 .. c |-> CHOOSE n \in S : Cardinality(before(n)) = k - 1]
<1>10. InOrder(rows, S) = l
  BY <1>2 DEF InOrder, before
<1>11. \A k \in 1 .. c : l[k] \in S /\ Cardinality(before(l[k])) = k - 1
  BY <1>9
<1>12. l \in Seq(S) /\ DOMAIN l = 1 .. c
  BY <1>11
<1> HIDE DEF l
<1>13. Unrepeated(l)
  <2>1. \A j, k \in 1 .. c : j - 1 = k - 1 => j = k
    OBVIOUS
  <2> QED  BY <1>11, <1>12, <2>1 DEF Unrepeated
<1>14. ToSet(l) = S
  <2>1. \A n \in S : \E k \in 1 .. c : l[k] = n
    <3> SUFFICES ASSUME NEW n \in S PROVE \E k \in 1 .. c : l[k] = n
      OBVIOUS
    <3>1. PICK k \in 1 .. c : k - 1 = Cardinality(before(n))
      <4>1. PICK j \in 0 .. c - 1 : j = Cardinality(before(n))
        BY <1>3
      <4>2. j + 1 \in 1 .. c /\ (j + 1) - 1 = j
        OBVIOUS
      <4> QED  BY <4>1, <4>2
    <3> QED  BY <1>4, <1>11, <3>1
  <2> QED  BY <1>11, <1>12, <2>1 DEF ToSet
<1> QED  BY <1>10, <1>12, <1>13, <1>14

\* What load_studio_tree returns: the live rows, in one place each.
LEMMA ServerTreeIsSound ==
  ASSUME NEW rows, RowsFit(rows)
  PROVE  /\ Sound(ServerTree(rows)) /\ Nodes(ServerTree(rows)) \subseteq ServerId
         /\ \A n : n \in Nodes(ServerTree(rows)) <=> Live(rows, n)
         /\ \A p \in Node : Kin(ServerTree(rows), p) =
                           {n \in ServerId : Live(rows, n) /\ rows[n].parent = p}
<1> DEFINE K(p) == {n \in ServerId : /\ Live(rows, n) /\ rows[n].parent = p
                                     /\ (p = Root) = (n \in Chapter)}
           t == ServerTree(rows)
<1>1. \A p : /\ InOrder(rows, K(p)) \in Seq(Node) /\ Unrepeated(InOrder(rows, K(p)))
             /\ ToSet(InOrder(rows, K(p))) = K(p)
  <2> TAKE p
  <2>1. PICK S \in SUBSET ServerId : S = K(p)
    OBVIOUS
  <2>2. /\ InOrder(rows, S) \in Seq(S) /\ Unrepeated(InOrder(rows, S))
        /\ ToSet(InOrder(rows, S)) = S
    BY InOrderIsList
  <2>3. InOrder(rows, S) \in Seq(Node)
    <3>1. PICK l : l = InOrder(rows, S)
      OBVIOUS
    <3>2. S \subseteq Node /\ l \in Seq(S)
      BY <2>2, <3>1, NodesAreNumbers
    <3>3. l \in Seq(Node)
      BY <3>2
    <3> QED  BY <3>1, <3>3
  <2> QED  BY <2>1, <2>2, <2>3
<1>2. \A n \in ServerId : Live(rows, n) =>
        /\ rows[n].parent \in Node /\ rows[n].val \in Content
        /\ MayHold(rows[n].parent, n) /\ (n \in Chapter <=> rows[n].parent = Root)
        /\ rows[n].parent = Root \/ Live(rows, rows[n].parent)
  BY Levels DEF RowsFit, Row, Live
<1>3. t = [kids |-> [p \in Node |-> InOrder(rows, K(p))],
           val |-> [n \in Node |-> IF Live(rows, n) THEN rows[n].val ELSE NoValue]]
  BY DEF ServerTree
<1>4. \A n \in Node : Live(rows, n) => n \in ServerId
  BY DEF Live
<1>5. t \in Tree
  <2>1. NoValue \in Content
    BY DEF Content
  <2> HIDE DEF K
  <2> QED  BY <1>1, <1>2, <1>3, <1>4, <2>1 DEF Tree
<1>6. \A p \in Node : t.kids[p] = InOrder(rows, K(p))
  BY <1>3
<1>7. \A n \in Node : t.val[n] = IF Live(rows, n) THEN rows[n].val ELSE NoValue
  BY <1>3
<1> HIDE DEF t
<1>8. \A p \in Node : Kin(t, p) = {n \in ServerId : Live(rows, n) /\ rows[n].parent = p}
  <2>1. \A p \in Node : Kin(t, p) = K(p)
    BY <1>1, <1>6 DEF Kin
  <2>2. \A p \in Node : K(p) = {n \in ServerId : Live(rows, n) /\ rows[n].parent = p}
    BY <1>2
  <2> QED  BY <2>1, <2>2
<1>9. \A p \in Node : Unrepeated(t.kids[p])
  BY <1>1, <1>6
<1>10. Arranged(t)
  <2>1. \A p \in Node : \A n \in Kin(t, p) : n \in ServerId /\ Live(rows, n) /\ rows[n].parent = p
    BY <1>8
  <2>2. \A p \in Node : \A n \in Kin(t, p) : MayHold(p, n)
    BY <1>2, <2>1
  <2>3. \A p, q \in Node : \A n \in Kin(t, p) : n \in Kin(t, q) => p = q
    BY <2>1
  <2> QED  BY <1>5, <1>9, <2>2, <2>3 DEF Arranged
<1>11. Hung(t) = {n \in ServerId : Live(rows, n)}
  <2>1. ASSUME NEW n \in ServerId, Live(rows, n) PROVE n \in Hung(t)
    <3>1. rows[n].parent \in Node /\ n \in Kin(t, rows[n].parent) /\ n \in Node
      BY <1>2, <1>8, <2>1, NodesAreNumbers
    <3> QED  BY <3>1 DEF Hung
  <2>2. ASSUME NEW n \in Hung(t) PROVE n \in ServerId /\ Live(rows, n)
    BY <1>8 DEF Hung
  <2> QED  BY <2>1, <2>2
<1>12. Rooted(t)
  BY <1>2, <1>4, <1>7, <1>8, <1>11 DEF Rooted
<1>13. Nodes(t) = Hung(t)
  BY <1>10, <1>12, NodesHang
<1> QED  BY <1>4, <1>8, <1>10, <1>11, <1>12, <1>13 DEF Sound, Live, t

-----------------------------------------------------------------------------
(* The operations that a page sends *)

\* The entries of a tree: a node, the one it hangs from and its place there.
EntryOf(t) ==
  {e \in [node : Node, parent : Node, index : Nat] :
     e.index + 1 \in DOMAIN t.kids[e.parent] /\ e.node = t.kids[e.parent][e.index + 1]}

LEMMA EntryIsOf ==
  ASSUME NEW t, Arranged(t), NEW p \in Node, NEW k \in DOMAIN t.kids[p]
  PROVE  /\ Entry(t, p, k) \in EntryOf(t)
         /\ Entry(t, p, k).node = t.kids[p][k] /\ Entry(t, p, k).parent = p
         /\ Entry(t, p, k).index = k - 1 /\ k \in Nat /\ k >= 1
<1>1. PICK s \in Seq(Node) : s = t.kids[p]
  BY DEF Arranged, Tree
<1>2. k \in Nat /\ k - 1 \in Nat /\ (k - 1) + 1 = k /\ k >= 1 /\ s[k] \in Node
  BY <1>1
<1> QED  BY <1>1, <1>2 DEF Entry, EntryOf

\* A node has one entry, and what it hangs from may hold it.
LEMMA EntryIsOne ==
  ASSUME NEW t, Arranged(t)
  PROVE  /\ \A e \in EntryOf(t) : /\ e.node \in Node /\ e.parent \in Node /\ e.index \in Nat
                                  /\ e.node \in Kin(t, e.parent) /\ MayHold(e.parent, e.node)
         /\ \A d, e \in EntryOf(t) : d.node = e.node => d = e
<1>1. ASSUME NEW e \in EntryOf(t)
      PROVE  /\ e \in [node : Node, parent : Node, index : Nat]
             /\ e.node \in Kin(t, e.parent) /\ MayHold(e.parent, e.node)
             /\ e.index + 1 \in DOMAIN t.kids[e.parent]
             /\ e.node = t.kids[e.parent][e.index + 1]
  <2>1. /\ e \in [node : Node, parent : Node, index : Nat]
        /\ e.index + 1 \in DOMAIN t.kids[e.parent]
        /\ e.node = t.kids[e.parent][e.index + 1]
    BY DEF EntryOf
  <2>2. e.node \in Kin(t, e.parent)
    BY <2>1 DEF Kin, ToSet
  <2> QED  BY <2>1, <2>2 DEF Arranged
<1>2. ASSUME NEW d \in EntryOf(t), NEW e \in EntryOf(t), d.node = e.node PROVE d = e
  <2>1. d.parent = e.parent
    BY <1>1, <1>2 DEF Arranged
  <2>2. d.index + 1 = e.index + 1
    <3>1. Unrepeated(t.kids[d.parent])
      BY <1>1 DEF Arranged
    <3> QED  BY <1>1, <1>2, <2>1, <3>1 DEF Unrepeated
  <2>3. /\ d \in [node : Node, parent : Node, index : Nat]
        /\ e \in [node : Node, parent : Node, index : Nat]
    BY <1>1
  <2> QED  BY <1>2, <2>1, <2>2, <2>3
<1> QED  BY <1>1, <1>2

\* A list with one entry before it.
LEMMA HeadedList ==
  ASSUME NEW E, NEW e \in E, NEW s \in Seq(E)
  PROVE  /\ <<e>> \o s \in Seq(E)
         /\ DOMAIN (<<e>> \o s) = 1 .. Len(s) + 1
         /\ (<<e>> \o s)[1] = e
         /\ \A i \in 1 .. Len(s) + 1 : i # 1 =>
              i - 1 \in DOMAIN s /\ (<<e>> \o s)[i] = s[i - 1]
  OBVIOUS

\* The lessons of a chapter, each with its tabs.
LEMMA LessonEntriesAreOf ==
  ASSUME NEW t, Arranged(t), NEW c \in Node
  PROVE  /\ LessonEntries(t, c) \in Seq(EntryOf(t))
         /\ \A e \in ToSet(LessonEntries(t, c)) : e.parent = c \/ e.parent \in Kin(t, c)
         /\ \A l, m \in DOMAIN LessonEntries(t, c) :
              LessonEntries(t, c)[l].node = LessonEntries(t, c)[m].node => l = m
         /\ \A e \in EntryOf(t) :
              e.parent = c \/ e.parent \in Kin(t, c) => e \in ToSet(LessonEntries(t, c))
         /\ \A m \in DOMAIN LessonEntries(t, c) : LessonEntries(t, c)[m].parent # c =>
              \E l \in DOMAIN LessonEntries(t, c) :
                l < m /\ LessonEntries(t, c)[l].node = LessonEntries(t, c)[m].parent
<1> DEFINE E == EntryOf(t)
           P(k) == <<Entry(t, c, k)>> \o TabEntries(t, t.kids[c][k])
           F == LessonEntries(t, c)
<1>1. PICK s \in Seq(Node) : s = t.kids[c]
  BY DEF Arranged, Tree
<1>2. \A k \in DOMAIN s : k \in Nat /\ s[k] \in Node /\ s[k] \in Kin(t, c) /\ s[k] # c
  <2>1. \A k \in DOMAIN s : k \in Nat /\ s[k] \in Node /\ s[k] \in Kin(t, c)
    BY <1>1 DEF Kin, ToSet
  <2>2. \A k \in DOMAIN s : MayHold(c, s[k])
    BY <2>1 DEF Arranged
  <2> QED  BY <2>1, <2>2, Levels
<1>3. ASSUME NEW k \in DOMAIN s
      PROVE  /\ P(k) \in Seq(E)
             /\ 1 \in DOMAIN P(k) /\ \A j \in DOMAIN t.kids[s[k]] : j + 1 \in DOMAIN P(k)
             /\ \A i \in DOMAIN P(k) :
                  /\ i \in Nat /\ i >= 1
                  /\ i = 1 => P(k)[i].parent = c /\ P(k)[i].index = k - 1
                  /\ i # 1 => P(k)[i].parent = s[k] /\ P(k)[i].index = i - 2
  <2>1. PICK l \in Node : l = s[k]
    BY <1>2
  <2>2. PICK e \in E : e = Entry(t, c, k) /\ e.parent = c /\ e.index = k - 1
    BY <1>1, EntryIsOf
  <2>3. PICK r \in Seq(Node) : r = t.kids[l]
    BY DEF Arranged, Tree
  <2>4. PICK b : b = TabEntries(t, l)
    OBVIOUS
  <2>5. /\ DOMAIN b = DOMAIN r
        /\ \A i \in DOMAIN r : b[i] \in E /\ b[i].parent = l /\ b[i].index = i - 1
    BY <2>3, <2>4, EntryIsOf DEF TabEntries
  <2>6. b \in Seq(E) /\ DOMAIN b = 1 .. Len(b) /\ Len(b) \in Nat
    <3>1. b = [i \in 1 .. Len(r) |-> b[i]] /\ Len(r) \in Nat /\ DOMAIN r = 1 .. Len(r)
      BY <2>3, <2>4 DEF TabEntries
    <3>2. \A i \in 1 .. Len(r) : b[i] \in E
      BY <2>5, <3>1
    <3> HIDE DEF E
    <3> QED  BY <3>1, <3>2
  <2>7. P(k) = <<e>> \o b
    BY <1>1, <2>1, <2>2, <2>4
  <2> HIDE DEF P, E
  <2>8. PICK h : h = <<e>> \o b
    OBVIOUS
  <2>9. /\ h \in Seq(E) /\ DOMAIN h = 1 .. Len(b) + 1 /\ h[1] = e
        /\ \A i \in 1 .. Len(b) + 1 : i # 1 => i - 1 \in DOMAIN b /\ h[i] = b[i - 1]
    BY <2>6, <2>8, HeadedList
  <2>10. ASSUME NEW i \in DOMAIN h
         PROVE  /\ i \in Nat /\ i >= 1
                /\ i = 1 => h[i].parent = c /\ h[i].index = k - 1
                /\ i # 1 => h[i].parent = l /\ h[i].index = i - 2
    <3>1. i \in Nat /\ i >= 1
      BY <2>6, <2>9
    <3>2. ASSUME i # 1 PROVE h[i].parent = l /\ h[i].index = i - 2
      <4>1. i - 1 \in DOMAIN r /\ (i - 1) - 1 = i - 2
        BY <2>5, <2>9, <3>1, <3>2
      <4> QED  BY <2>5, <2>9, <3>2, <4>1
    <3> QED  BY <2>2, <2>9, <3>1, <3>2
  <2>11. 1 \in DOMAIN h /\ \A j \in DOMAIN r : j + 1 \in DOMAIN h
    BY <2>5, <2>6, <2>9
  <2> QED  BY <2>1, <2>3, <2>7, <2>8, <2>9, <2>10, <2>11
<1> DEFINE ss == [k \in DOMAIN s |-> P(k)]
<1>4. F = FlattenSeq(ss)
  BY <1>1 DEF LessonEntries
<1> HIDE DEF P, E
<1>5. ss \in Seq(Seq(E)) /\ DOMAIN ss = DOMAIN s /\ \A k \in DOMAIN s : ss[k] = P(k)
  <2>1. \A k \in DOMAIN s : P(k) \in Seq(E)
    BY <1>3
  <2> QED  BY <2>1
<1> HIDE DEF ss, F
<1>6. F \in Seq(E) /\ Together(E, ss, Len(ss), F) /\ DOMAIN ss = 1 .. Len(ss)
  <2>1. Together(E, ss, Len(ss), F) /\ DOMAIN ss = 1 .. Len(ss)
    BY <1>4, <1>5, FlattenIsList
  <2> QED  BY <2>1 DEF Together
<1>7. PICK part, place \in [DOMAIN F -> Nat] : Placed(ss, Len(ss), F, part, place)
  BY <1>6 DEF Together
<1>8. ASSUME NEW m \in DOMAIN F
      PROVE  /\ part[m] \in DOMAIN s /\ place[m] \in Nat /\ F[m] \in E
             /\ place[m] = 1 => F[m].parent = c /\ F[m].index = part[m] - 1
             /\ place[m] # 1 => F[m].parent = s[part[m]] /\ F[m].index = place[m] - 2
  <2>1. /\ part[m] \in DOMAIN s /\ place[m] \in DOMAIN ss[part[m]]
        /\ F[m] = ss[part[m]][place[m]]
    BY <1>5, <1>6, <1>7 DEF Placed
  <2>2. F[m] \in E
    BY <1>6
  <2> QED  BY <1>3, <1>5, <2>1, <2>2
<1>9. \A e \in ToSet(F) : e.parent = c \/ e.parent \in Kin(t, c)
  BY <1>2, <1>8 DEF ToSet
<1>10. ASSUME NEW l \in DOMAIN F, NEW m \in DOMAIN F, F[l].node = F[m].node PROVE l = m
  <2>1. F[l] = F[m]
    BY <1>8, <1>10, EntryIsOne DEF E
  <2>2. Unrepeated(s)
    BY <1>1 DEF Arranged
  <2>3. place[l] = 1 <=> place[m] = 1
    BY <1>2, <1>8, <2>1
  <2>4. part[l] = part[m] /\ place[l] = place[m]
    <3>1. CASE place[l] = 1
      BY <1>2, <1>8, <2>1, <2>3, <3>1
    <3>2. CASE place[l] # 1
      <4>1. part[l] = part[m]
        BY <1>8, <2>1, <2>2, <2>3, <3>2 DEF Unrepeated
      <4>2. place[l] - 2 = place[m] - 2
        BY <1>8, <2>1, <2>3, <3>2
      <4> QED  BY <1>8, <4>1, <4>2
    <3> QED  BY <3>1, <3>2
  <2> QED  BY <1>7, <2>4 DEF Placed
<1>11. ASSUME NEW k \in DOMAIN s, NEW i \in DOMAIN P(k)
       PROVE  \E m \in DOMAIN F : part[m] = k /\ place[m] = i /\ F[m] = P(k)[i]
  BY <1>5, <1>6, <1>7, <1>11 DEF Placed
<1>12. ASSUME NEW e \in E, e.parent = c \/ e.parent \in Kin(t, c) PROVE e \in ToSet(F)
  <2>1. \A d \in E : d.parent = e.parent /\ d.index = e.index => d = e
    BY EntryIsOne DEF E, EntryOf
  <2>2. /\ e.index \in Nat /\ e.parent \in Node
        /\ e.index + 1 \in DOMAIN t.kids[e.parent] /\ t.kids[e.parent] \in Seq(Node)
    BY DEF E, EntryOf, Arranged, Tree
  <2>3. CASE e.parent = c
    <3>1. PICK k \in DOMAIN s : k = e.index + 1
      BY <1>1, <2>2, <2>3
    <3>2. 1 \in DOMAIN P(k) /\ P(k)[1] \in E /\ P(k)[1].parent = c /\ P(k)[1].index = e.index
      <4>1. k - 1 = e.index
        BY <2>2, <3>1
      <4> QED  BY <1>3, <4>1
    <3>3. P(k)[1] = e
      BY <2>1, <2>3, <3>2
    <3> QED  BY <1>11, <3>2, <3>3 DEF ToSet
  <2>4. CASE e.parent \in Kin(t, c)
    <3>1. PICK k \in DOMAIN s : s[k] = e.parent
      BY <1>1, <2>4 DEF Kin, ToSet
    <3>2. PICK i \in DOMAIN P(k) : i = e.index + 2
      <4>1. (e.index + 1) + 1 = e.index + 2
        BY <2>2
      <4> QED  BY <1>3, <2>2, <3>1, <4>1
    <3>3. P(k)[i] \in E /\ P(k)[i].parent = e.parent /\ P(k)[i].index = e.index
      <4>1. i # 1 /\ i - 2 = e.index
        <5>1. PICK x \in Nat : x = e.index
          BY <2>2
        <5> QED  BY <3>2, <5>1
      <4> QED  BY <1>3, <3>1, <4>1
    <3>4. P(k)[i] = e
      BY <2>1, <3>3
    <3> QED  BY <1>11, <3>4 DEF ToSet
  <2> QED  BY <1>12, <2>3, <2>4
<1>13. ASSUME NEW m \in DOMAIN F, F[m].parent # c
       PROVE  \E l \in DOMAIN F : l < m /\ F[l].node = F[m].parent
  <2>1. PICK k \in DOMAIN s : k = part[m] /\ place[m] # 1 /\ F[m].parent = s[k]
    BY <1>8, <1>13
  <2>2. place[m] \in DOMAIN P(k) /\ place[m] \in Nat /\ place[m] >= 1
    <3>1. place[m] \in DOMAIN P(k)
      BY <1>5, <1>6, <1>7, <2>1 DEF Placed
    <3> QED  BY <1>3, <3>1
  <2>3. 1 \in DOMAIN P(k)
    BY <1>3
  <2>4. P(k)[1] \in E /\ P(k)[1].parent = c /\ P(k)[1].index = k - 1
    BY <1>3, <2>3
  <2>5. P(k)[1].node = s[k]
    <3>1. (k - 1) + 1 = k
      BY <1>2
    <3> QED  BY <1>1, <2>4, <3>1 DEF E, EntryOf
  <2>6. PICK l \in DOMAIN F : part[l] = k /\ place[l] = 1 /\ F[l] = P(k)[1]
    BY <1>11, <2>3
  <2>7. l \in Nat /\ m \in Nat
    BY <1>6
  <2>8. ~ (m <= l)
    <3>1. l # m
      BY <2>1, <2>6
    <3>2. ASSUME m < l PROVE FALSE
      <4>1. part[m] < part[l] \/ place[m] < place[l]
        BY <1>7, <3>2 DEF Placed
      <4>2. k \in Nat
        BY <1>2
      <4> QED  BY <2>1, <2>2, <2>6, <4>1, <4>2
    <3> QED  BY <2>7, <3>1, <3>2
  <2> QED  BY <2>1, <2>5, <2>6, <2>7, <2>8
<1> QED  BY <1>6, <1>9, <1>10, <1>12, <1>13 DEF E, F

\* The nodes of a tree, each once, and none before its parent.
LEMMA EntriesAreOf ==
  ASSUME NEW t, Arranged(t)
  PROVE  /\ Entries(t) \in Seq(EntryOf(t))
         /\ \A l, m \in DOMAIN Entries(t) : Entries(t)[l].node = Entries(t)[m].node => l = m
         /\ Rooted(t) => EntryOf(t) \subseteq ToSet(Entries(t))
         /\ \A m \in DOMAIN Entries(t) : Entries(t)[m].parent # Root =>
              \E l \in DOMAIN Entries(t) : l < m /\ Entries(t)[l].node = Entries(t)[m].parent
<1> DEFINE E == EntryOf(t)
           Q(k) == <<Entry(t, Root, k)>> \o LessonEntries(t, t.kids[Root][k])
           F == Entries(t)
<1>1. PICK s \in Seq(Node) : s = t.kids[Root]
  BY NodesAreNumbers DEF Arranged, Tree
<1>2. \A k \in DOMAIN s : k \in Nat /\ s[k] \in Node /\ s[k] \in Chapter
  <2>1. \A k \in DOMAIN s : k \in Nat /\ s[k] \in Node /\ s[k] \in Kin(t, Root)
    BY <1>1 DEF Kin, ToSet
  <2>2. \A k \in DOMAIN s : MayHold(Root, s[k])
    BY <2>1, NodesAreNumbers DEF Arranged
  <2> QED  BY <2>1, <2>2, Levels
<1>3. ASSUME NEW k \in DOMAIN s
      PROVE  /\ Q(k) \in Seq(E)
             /\ 1 \in DOMAIN Q(k)
             /\ \A j \in DOMAIN LessonEntries(t, s[k]) :
                  j + 1 \in DOMAIN Q(k) /\ Q(k)[j + 1] = LessonEntries(t, s[k])[j]
             /\ \A i \in DOMAIN Q(k) :
                  /\ i \in Nat /\ i >= 1
                  /\ i = 1 => Q(k)[i].parent = Root /\ Q(k)[i].index = k - 1
                  /\ i # 1 => /\ i - 1 \in DOMAIN LessonEntries(t, s[k])
                              /\ Q(k)[i] = LessonEntries(t, s[k])[i - 1]
                              /\ Q(k)[i].parent = s[k] \/ Q(k)[i].parent \in Kin(t, s[k])
  <2>1. PICK c \in Node : c = s[k]
    BY <1>2
  <2>2. PICK e \in E : e = Entry(t, Root, k) /\ e.parent = Root /\ e.index = k - 1
    BY <1>1, EntryIsOf, NodesAreNumbers
  <2>3. PICK b \in Seq(E) : /\ b = LessonEntries(t, c)
                            /\ \A i \in DOMAIN b : b[i].parent = c \/ b[i].parent \in Kin(t, c)
    BY LessonEntriesAreOf DEF ToSet
  <2>4. Q(k) = <<e>> \o b
    BY <1>1, <2>1, <2>2, <2>3
  <2> HIDE DEF Q, E
  <2>5. PICK h : h = <<e>> \o b
    OBVIOUS
  <2>6. /\ h \in Seq(E) /\ DOMAIN h = 1 .. Len(b) + 1 /\ h[1] = e
        /\ \A i \in 1 .. Len(b) + 1 : i # 1 => i - 1 \in DOMAIN b /\ h[i] = b[i - 1]
    BY <2>5, HeadedList
  <2>7. ASSUME NEW i \in DOMAIN h
        PROVE  /\ i \in Nat /\ i >= 1
               /\ i = 1 => h[i].parent = Root /\ h[i].index = k - 1
               /\ i # 1 => /\ i - 1 \in DOMAIN b /\ h[i] = b[i - 1]
                           /\ h[i].parent = c \/ h[i].parent \in Kin(t, c)
    BY <2>2, <2>3, <2>6
  <2>8. /\ 1 \in DOMAIN h
        /\ \A j \in DOMAIN b : j + 1 \in DOMAIN h /\ h[j + 1] = b[j]
    <3>1. PICK n \in Nat : n = Len(b) /\ DOMAIN b = 1 .. n /\ DOMAIN h = 1 .. n + 1
      BY <2>3, <2>6
    <3>2. 1 \in 1 .. n + 1
      BY <3>1
    <3>3. \A j \in 1 .. n : j + 1 \in 1 .. n + 1 /\ j + 1 # 1 /\ (j + 1) - 1 = j
      BY <3>1
    <3> QED  BY <2>6, <3>1, <3>2, <3>3
  <2> QED  BY <2>1, <2>3, <2>4, <2>5, <2>6, <2>7, <2>8
<1> DEFINE ss == [k \in DOMAIN s |-> Q(k)]
<1>4. F = FlattenSeq(ss)
  BY <1>1 DEF Entries
<1> HIDE DEF Q, E
<1>5. ss \in Seq(Seq(E)) /\ DOMAIN ss = DOMAIN s /\ \A k \in DOMAIN s : ss[k] = Q(k)
  <2>1. \A k \in DOMAIN s : Q(k) \in Seq(E)
    BY <1>3
  <2> QED  BY <2>1
<1> HIDE DEF ss, F
<1>6. F \in Seq(E) /\ Together(E, ss, Len(ss), F) /\ DOMAIN ss = 1 .. Len(ss)
  <2>1. Together(E, ss, Len(ss), F) /\ DOMAIN ss = 1 .. Len(ss)
    BY <1>4, <1>5, FlattenIsList
  <2> QED  BY <2>1 DEF Together
<1>7. PICK part, place \in [DOMAIN F -> Nat] : Placed(ss, Len(ss), F, part, place)
  BY <1>6 DEF Together
<1>8. ASSUME NEW m \in DOMAIN F
      PROVE  /\ part[m] \in DOMAIN s /\ place[m] \in Nat /\ F[m] \in E
             /\ place[m] = 1 => F[m].parent = Root /\ F[m].index = part[m] - 1
             /\ place[m] # 1 =>
                  /\ place[m] - 1 \in DOMAIN LessonEntries(t, s[part[m]])
                  /\ F[m] = LessonEntries(t, s[part[m]])[place[m] - 1]
                  /\ F[m].parent = s[part[m]] \/ F[m].parent \in Kin(t, s[part[m]])
  <2>1. /\ part[m] \in DOMAIN s /\ place[m] \in DOMAIN ss[part[m]]
        /\ F[m] = ss[part[m]][place[m]]
    BY <1>5, <1>6, <1>7 DEF Placed
  <2>2. F[m] \in E
    BY <1>6
  <2> QED  BY <1>3, <1>5, <2>1, <2>2
<1>9. ASSUME NEW l \in DOMAIN F, NEW m \in DOMAIN F, F[l].node = F[m].node PROVE l = m
  <2>1. F[l] = F[m] /\ Unrepeated(s)
    BY <1>1, <1>8, <1>9, EntryIsOne, NodesAreNumbers DEF E, Arranged
  <2>2. \A k \in DOMAIN s : \A n \in Kin(t, s[k]) : n \in Lesson /\ n # Root /\ n \in Node
    <3>1. \A k \in DOMAIN s : \A n \in Kin(t, s[k]) : MayHold(s[k], n)
      BY <1>2 DEF Arranged
    <3> QED  BY <1>2, <3>1, Levels
  <2>3. ASSUME NEW i \in DOMAIN F
        PROVE  /\ part[i] \in DOMAIN s
               /\ place[i] = 1 => F[i].parent = Root
               /\ place[i] # 1 =>
                    /\ F[i].parent # Root
                    /\ F[i].parent \in Chapter => F[i].parent = s[part[i]]
                    /\ F[i].parent \notin Chapter => F[i].parent \in Kin(t, s[part[i]])
    <3>1. part[i] \in DOMAIN s /\ s[part[i]] \in Chapter
      BY <1>2, <1>8
    <3>2. \A n \in Kin(t, s[part[i]]) : n \in Lesson /\ n # Root
      BY <2>2, <3>1
    <3>3. /\ place[i] = 1 => F[i].parent = Root
          /\ place[i] # 1 => F[i].parent = s[part[i]] \/ F[i].parent \in Kin(t, s[part[i]])
      BY <1>8
    <3>4. Chapter \cap Lesson = {} /\ Root \notin Chapter
      BY NodesAreNumbers
    <3>5. ASSUME place[i] # 1, F[i].parent \in Chapter PROVE F[i].parent = s[part[i]]
      BY <3>2, <3>3, <3>4, <3>5
    <3>6. ASSUME place[i] # 1 PROVE F[i].parent # Root
      BY <3>1, <3>2, <3>3, <3>4, <3>6
    <3>7. ASSUME place[i] # 1, F[i].parent \notin Chapter PROVE F[i].parent \in Kin(t, s[part[i]])
      BY <3>1, <3>3, <3>7
    <3> QED  BY <3>1, <3>3, <3>5, <3>6, <3>7
  <2>4. place[l] = 1 <=> place[m] = 1
    BY <2>1, <2>3
  <2>5. CASE place[l] = 1
    <3>1. part[l] = part[m]
      BY <1>2, <1>8, <2>1, <2>4, <2>5
    <3> QED  BY <1>7, <2>4, <2>5, <3>1 DEF Placed
  <2>6. CASE place[l] # 1
    <3>1. s[part[l]] = s[part[m]]
      <4>1. s[part[l]] \in Node /\ s[part[m]] \in Node
        BY <1>2, <2>3
      <4> QED  BY <2>1, <2>4, <2>6, <2>3, <4>1 DEF Arranged
    <3>2. part[l] = part[m]
      BY <1>8, <2>1, <3>1 DEF Unrepeated
    <3>3. place[l] - 1 = place[m] - 1
      <4>1. PICK c \in Node : c = s[part[l]] /\ c = s[part[m]]
        BY <1>2, <2>3, <3>2
      <4>2. PICK B : B = LessonEntries(t, c)
        OBVIOUS
      <4>3. \A i, j \in DOMAIN B : B[i].node = B[j].node => i = j
        BY <4>1, <4>2, LessonEntriesAreOf
      <4>4. place[l] - 1 \in DOMAIN B /\ F[l] = B[place[l] - 1]
        BY <1>8, <2>6, <4>1, <4>2
      <4>5. place[m] - 1 \in DOMAIN B /\ F[m] = B[place[m] - 1]
        BY <1>8, <2>4, <2>6, <4>1, <4>2
      <4> QED  BY <2>1, <4>3, <4>4, <4>5
    <3>4. place[l] = place[m]
      BY <1>8, <3>3
    <3> QED  BY <1>7, <3>2, <3>4 DEF Placed
  <2> QED  BY <2>5, <2>6
<1>10. ASSUME NEW k \in DOMAIN s, NEW i \in DOMAIN Q(k)
       PROVE  \E m \in DOMAIN F : part[m] = k /\ place[m] = i /\ F[m] = Q(k)[i]
  BY <1>5, <1>6, <1>7, <1>10 DEF Placed
<1>11. ASSUME Rooted(t), NEW e \in E PROVE e \in ToSet(F)
  <2>1. \A d \in E : d.parent = e.parent /\ d.index = e.index => d = e
    BY EntryIsOne DEF E, EntryOf
  <2>2. /\ e.index \in Nat /\ e.parent \in Node
        /\ e.index + 1 \in DOMAIN t.kids[e.parent] /\ t.kids[e.parent] \in Seq(Node)
        /\ e.node \in Kin(t, e.parent)
    BY EntryIsOne DEF E, EntryOf, Arranged, Tree
  <2>3. CASE e.parent = Root
    <3>1. PICK k \in DOMAIN s : k = e.index + 1
      BY <1>1, <2>2, <2>3
    <3>2. 1 \in DOMAIN Q(k) /\ Q(k)[1] \in E /\ Q(k)[1].parent = Root /\ Q(k)[1].index = e.index
      <4>1. k - 1 = e.index
        BY <2>2, <3>1
      <4> QED  BY <1>3, <4>1
    <3>3. Q(k)[1] = e
      BY <2>1, <2>3, <3>2
    <3> QED  BY <1>10, <3>2, <3>3 DEF ToSet
  <2>4. ASSUME NEW k \in DOMAIN s, e.parent = s[k] \/ e.parent \in Kin(t, s[k])
        PROVE  e \in ToSet(F)
    <3>1. PICK c \in Node : c = s[k]
      BY <1>2
    <3>2. e \in ToSet(LessonEntries(t, c))
      BY <2>4, <3>1, LessonEntriesAreOf DEF E
    <3>3. PICK j \in DOMAIN LessonEntries(t, c) : LessonEntries(t, c)[j] = e
      BY <3>2 DEF ToSet
    <3>4. j + 1 \in DOMAIN Q(k) /\ Q(k)[j + 1] = e
      BY <1>3, <3>1, <3>3
    <3> QED  BY <1>10, <3>4 DEF ToSet
  <2>5. CASE e.parent # Root
    <3>1. ASSUME NEW p \in Node, p \in Hung(t), p \in Chapter
          PROVE  \E k \in DOMAIN s : s[k] = p
      <4>1. PICK q \in Node : p \in Kin(t, q)
        BY <3>1 DEF Hung
      <4>2. q = Root
        BY <3>1, <4>1, Levels DEF Arranged
      <4> QED  BY <1>1, <4>1, <4>2 DEF Kin, ToSet
    <3>2. e.parent \in Hung(t) /\ MayHold(e.parent, e.node)
      BY <2>2, <2>5, <1>11 DEF Rooted, Arranged
    <3>3. CASE e.parent \in Chapter
      BY <2>2, <2>4, <3>1, <3>2, <3>3
    <3>4. CASE e.parent \notin Chapter
      <4>1. PICK q \in Node : e.parent \in Kin(t, q)
        BY <3>2 DEF Hung
      <4>2. MayHold(q, e.parent)
        BY <2>2, <4>1 DEF Arranged
      <4>3. e.parent \in Lesson /\ q \in Chapter
        <5>1. e.parent \in Lesson
          BY <2>5, <3>2, <3>4 DEF MayHold
        <5> QED  BY <4>2, <5>1, Levels
      <4>4. q \in Hung(t)
        BY <1>11, <4>1, <4>3, NodesAreNumbers DEF Rooted
      <4>5. PICK k \in DOMAIN s : s[k] = q
        BY <3>1, <4>3, <4>4
      <4> QED  BY <2>4, <4>1, <4>5
    <3> QED  BY <3>3, <3>4
  <2> QED  BY <2>3, <2>5
<1>12. ASSUME NEW m \in DOMAIN F, F[m].parent # Root
       PROVE  \E l \in DOMAIN F : l < m /\ F[l].node = F[m].parent
  <2>1. PICK k \in DOMAIN s : k = part[m] /\ place[m] # 1
    BY <1>8, <1>12
  <2>2. PICK c \in Node : c = s[k]
    BY <1>2
  <2>3. /\ place[m] - 1 \in DOMAIN LessonEntries(t, c)
        /\ F[m] = LessonEntries(t, c)[place[m] - 1]
        /\ place[m] \in Nat
    BY <1>8, <2>1, <2>2
  <2>4. \E i \in DOMAIN Q(k) : i \in Nat /\ i < place[m] /\ Q(k)[i].node = F[m].parent
    <3>1. CASE F[m].parent = c
      <4>1. 1 \in DOMAIN Q(k) /\ Q(k)[1] \in E /\ Q(k)[1].parent = Root /\ Q(k)[1].index = k - 1
        BY <1>3
      <4>2. Q(k)[1].node = s[k]
        <5>1. (k - 1) + 1 = k
          BY <1>2
        <5> QED  BY <1>1, <4>1, <5>1 DEF E, EntryOf
      <4>3. 1 < place[m]
        <5>1. place[m] - 1 \in Nat /\ place[m] - 1 >= 1
          <6>1. PICK b \in Seq(E) : b = LessonEntries(t, c)
            BY LessonEntriesAreOf DEF E
          <6>2. PICK x : x = place[m] - 1
            OBVIOUS
          <6>3. x \in DOMAIN b
            BY <2>3, <6>1, <6>2
          <6> QED  BY <6>2, <6>3
        <5> QED  BY <2>3, <5>1
      <4> QED  BY <2>2, <3>1, <4>1, <4>2, <4>3
    <3>2. CASE F[m].parent # c
      <4>1. PICK j \in DOMAIN LessonEntries(t, c) :
              j < place[m] - 1 /\ LessonEntries(t, c)[j].node = F[m].parent
        BY <2>3, <3>2, LessonEntriesAreOf
      <4>2. j \in Nat
        <5>1. PICK b \in Seq(E) : b = LessonEntries(t, c)
          BY LessonEntriesAreOf DEF E
        <5> QED  BY <5>1
      <4>3. j + 1 \in DOMAIN Q(k) /\ Q(k)[j + 1] = LessonEntries(t, c)[j]
        BY <1>3, <2>2
      <4>4. j + 1 \in Nat /\ j + 1 < place[m]
        BY <2>3, <4>1, <4>2
      <4> QED  BY <4>1, <4>3, <4>4
    <3> QED  BY <3>1, <3>2
  <2>5. PICK i \in DOMAIN Q(k) : i \in Nat /\ i < place[m] /\ Q(k)[i].node = F[m].parent
    BY <2>4
  <2>6. PICK l \in DOMAIN F : part[l] = k /\ place[l] = i /\ F[l] = Q(k)[i]
    BY <1>10
  <2>7. l \in Nat /\ m \in Nat /\ k \in Nat
    BY <1>2, <1>6
  <2>8. l < m
    <3>1. l # m
      BY <2>3, <2>5, <2>6
    <3>2. ASSUME m < l PROVE FALSE
      <4>1. part[m] < part[l] \/ place[m] < place[l]
        BY <1>7, <3>2 DEF Placed
      <4> QED  BY <2>1, <2>3, <2>5, <2>6, <2>7, <4>1
    <3> QED  BY <2>7, <3>1, <3>2
  <2> QED  BY <2>5, <2>6, <2>8
<1> QED  BY <1>6, <1>9, <1>11, <1>12 DEF E, F

\* An operation as the page builds it.
RawOp == [type : {"create", "update", "delete", "reorder"}, target : Node, ref : Node,
          parent : Node, order : Nat, val : Content]

\* What an operation on the node of e says, and what a deletion says.
AboutNode(op, e) ==
  /\ op.type \in {"create", "update", "reorder"}
  /\ op.type = "create" => op.ref = e.node /\ op.ref < 0 /\ op.parent = e.parent
  /\ op.type # "create" => op.target = e.node /\ op.target \in ServerId
  /\ op.type = "update" => op.parent = Root
  /\ op.parent \in {Root, e.parent}

SeenIn(work) == {n \in Nodes(work) : ~ IsNewKey(n)}

AboutGone(op, work) ==
  op.type = "delete" /\ op.target \notin SeenIn(work) /\ op.parent = Root

LEMMA NodeOpsFit ==
  ASSUME NEW original, NEW idx, NEW work, Sound(work), NEW e \in EntryOf(work)
  PROVE  /\ NodeOps(original, idx, work, e) \in Seq(RawOp)
         /\ \A i \in DOMAIN NodeOps(original, idx, work, e) :
              LET op == NodeOps(original, idx, work, e)[i]
              IN  AboutNode(op, e) /\ (op.type = "create" => i = 1)
         /\ \A i, j \in DOMAIN NodeOps(original, idx, work, e) :
              NodeOps(original, idx, work, e)[i].type = NodeOps(original, idx, work, e)[j].type
                => i = j
<1> DEFINE A == CreateOp(work, e)
           B == UpdateOp(work, e)
           C == ReorderOp(idx, e)
<1>1. /\ e.node \in Node /\ e.parent \in Node /\ e.index \in Nat /\ e.node # Root
      /\ work.val[e.node] \in Content /\ Root \in Node /\ 0 \in Nat /\ NoValue \in Content
  <2>1. /\ e.node \in Node /\ e.parent \in Node /\ e.index \in Nat
        /\ MayHold(e.parent, e.node)
    BY EntryIsOne DEF Sound
  <2>2. e.node # Root
    BY <2>1, Levels
  <2>3. work.val[e.node] \in Content
    BY <2>1 DEF Sound, Arranged, Tree
  <2> QED  BY <2>1, <2>2, <2>3, NodesAreNumbers DEF Content
<1>2. IsNewKey(e.node) => A \in RawOp /\ AboutNode(A, e)
  BY <1>1 DEF CreateOp, RawOp, AboutNode, IsNewKey
<1>3. ~ IsNewKey(e.node) => e.node \in ServerId
  BY <1>1, NodesAreNumbers DEF IsNewKey
<1>4. ~ IsNewKey(e.node) => B \in RawOp /\ AboutNode(B, e) /\ B.type = "update"
  BY <1>1, <1>3 DEF UpdateOp, RawOp, AboutNode
<1>5. ~ IsNewKey(e.node) => C \in RawOp /\ AboutNode(C, e) /\ C.type = "reorder"
  BY <1>1, <1>3 DEF ReorderOp, RawOp, AboutNode
<1>6. PICK a, b, c : a = A /\ b = B /\ c = C
  OBVIOUS
<1> HIDE DEF A, B, C
<1>7. CASE IsNewKey(e.node)
  <2>1. NodeOps(original, idx, work, e) = <<a>>
    BY <1>6, <1>7 DEF NodeOps, A
  <2> QED  BY <1>2, <1>6, <1>7, <2>1
<1>8. CASE ~ IsNewKey(e.node)
  <2>1. /\ b \in RawOp /\ AboutNode(b, e) /\ b.type = "update"
        /\ c \in RawOp /\ AboutNode(c, e) /\ c.type = "reorder"
    BY <1>4, <1>5, <1>6, <1>8
  <2>2. \E changed, moved \in BOOLEAN :
          NodeOps(original, idx, work, e) =
            (IF changed THEN <<b>> ELSE <<>>) \o (IF moved THEN <<c>> ELSE <<>>)
    <3> DEFINE changed == e.node \in DOMAIN idx /\ work.val[e.node] # original.val[e.node]
               moved == e.node \in DOMAIN idx /\ (\/ idx[e.node].parent # e.parent
                                                  \/ idx[e.node].index # e.index)
    <3>1. NodeOps(original, idx, work, e) =
            (IF changed THEN <<b>> ELSE <<>>) \o (IF moved THEN <<c>> ELSE <<>>)
      BY <1>6, <1>8 DEF NodeOps, B, C
    <3>2. changed \in BOOLEAN /\ moved \in BOOLEAN
      OBVIOUS
    <3> QED  BY <3>1, <3>2
  <2>3. PICK x \in Seq({b}), y \in Seq({c}) :
          /\ NodeOps(original, idx, work, e) = x \o y /\ Len(x) \in {0, 1} /\ Len(y) \in {0, 1}
    <3>1. /\ <<b>> \in Seq({b}) /\ <<>> \in Seq({b}) /\ <<c>> \in Seq({c}) /\ <<>> \in Seq({c})
          /\ Len(<<b>>) = 1 /\ Len(<<c>>) = 1 /\ Len(<<>>) = 0
      OBVIOUS
    <3> QED  BY <2>2, <3>1
  <2>4. PICK s \in Seq({b, c}) : s = NodeOps(original, idx, work, e)
    <3> DEFINE S == {b, c}
    <3>1. x \in Seq(S) /\ y \in Seq(S)
      OBVIOUS
    <3> HIDE DEF S
    <3>2. x \o y \in Seq(S)
      BY <3>1
    <3> QED  BY <2>3, <3>2 DEF S
  <2>5. s \in Seq(RawOp) /\ \A i \in DOMAIN s : s[i] \in {b, c}
    BY <2>1
  <2>6. \A i \in DOMAIN s : AboutNode(s[i], e) /\ s[i].type # "create"
    BY <2>1, <2>5
  <2>7. ASSUME NEW i \in DOMAIN s, NEW j \in DOMAIN s, s[i].type = s[j].type PROVE i = j
    <3>1. PICK m, n \in {0, 1} : m = Len(x) /\ n = Len(y)
      BY <2>3
    <3>2. DOMAIN s = 1 .. m + n /\ m \in Int /\ n \in Int
      BY <2>3, <2>4, <3>1
    <3>3. \A l \in 1 .. m + n : (l <= m /\ s[l] = b) \/ (l > m /\ s[l] = c)
      BY <2>3, <2>4, <3>1
    <3>4. (i <= m /\ j <= m) \/ (i > m /\ j > m)
      BY <2>1, <2>7, <3>2, <3>3
    <3>5. /\ i \in Int /\ j \in Int /\ 1 <= i /\ 1 <= j /\ i <= m + n /\ j <= m + n
          /\ m \in Int /\ n \in Int /\ m <= 1 /\ n <= 1
      BY <3>2
    <3> QED  BY ONLY <3>4, <3>5
  <2> QED  BY <2>4, <2>5, <2>6, <2>7
<1> QED  BY <1>7, <1>8

\* A node that is gone from the edited tree is deleted.
LEMMA DeletionsFit ==
  ASSUME NEW original, Arranged(original), NEW idx, NEW work
  PROVE  /\ Deletions(original, idx, SeenIn(work)) \in Seq(RawOp)
         /\ \A k \in DOMAIN Deletions(original, idx, SeenIn(work)) :
              AboutGone(Deletions(original, idx, SeenIn(work))[k], work)
<1> DEFINE seen == SeenIn(work)
           G == {e \in EntryOf(original) : e.node \notin seen}
<1>1. PICK s \in Seq(EntryOf(original)) : s = Entries(original)
  BY EntriesAreOf
<1> DEFINE Gone(kind) == Kept(s, {k \in DOMAIN s : /\ s[k].node \in kind
                                                   /\ s[k].node \notin seen
                                                   /\ s[k].parent \in seen \cup {Root}})
<1>2. ASSUME NEW kind PROVE Gone(kind) \in Seq(G)
  <2> DEFINE K == {k \in DOMAIN s : /\ s[k].node \in kind /\ s[k].node \notin seen
                                    /\ s[k].parent \in seen \cup {Root}}
  <2>1. K \in SUBSET DOMAIN s /\ \A k \in K : s[k] \in G
    OBVIOUS
  <2> HIDE DEF K, G
  <2>2. Kept(s, K) \in Seq(EntryOf(original)) /\ ToSet(Kept(s, K)) = {s[i] : i \in K}
    BY <2>1, KeptIsPart
  <2>3. PICK w \in Seq(EntryOf(original)) : w = Kept(s, K)
    BY <2>2
  <2>4. \A i \in DOMAIN w : w[i] \in G
    BY <2>1, <2>2, <2>3 DEF ToSet
  <2>5. w \in Seq(G)
    BY <2>4
  <2> QED  BY <2>3, <2>5 DEF K
<1> HIDE DEF Gone
<1>3. PICK x, y, z \in Seq(G) : x = Gone(Chapter) /\ y = Gone(Lesson) /\ z = Gone(Tab)
  BY <1>2
<1>4. PICK all \in Seq(G) : all = x \o y \o z
  <2> HIDE DEF G
  <2>1. x \o y \in Seq(G)
    OBVIOUS
  <2>2. (x \o y) \o z \in Seq(G)
    BY <2>1
  <2> QED  BY <2>2
<1>5. Deletions(original, idx, seen) = [k \in DOMAIN all |-> DeleteOp(all[k].node)]
  BY <1>1, <1>3, <1>4 DEF Deletions, Gone
<1>6. ASSUME NEW k \in DOMAIN all
      PROVE  DeleteOp(all[k].node) \in RawOp /\ AboutGone(DeleteOp(all[k].node), work)
  <2>1. all[k].node \in Node /\ all[k].node \notin seen
    <3>1. all[k] \in G
      OBVIOUS
    <3> QED  BY <3>1, EntryIsOne
  <2>2. 0 \in Nat /\ NoValue \in Content
    BY DEF Content
  <2> QED  BY <2>1, <2>2, NodesAreNumbers DEF DeleteOp, RawOp, AboutGone
<1> DEFINE D == [k \in DOMAIN all |-> DeleteOp(all[k].node)]
<1>7. D \in Seq(RawOp) /\ \A k \in DOMAIN D : AboutGone(D[k], work)
  <2>1. DOMAIN all = 1 .. Len(all) /\ Len(all) \in Nat
    OBVIOUS
  <2> QED  BY <1>6, <2>1
<1> QED  BY <1>5, <1>7

\* The node that an operation is about.
Subject(op) == IF op.type = "create" THEN op.ref ELSE op.target

\* The operations of the page are about the nodes of its tree, or are deletions of what
\* is gone from it, and create, update or move each node once.
LEMMA BuiltFit ==
  ASSUME NEW original, Arranged(original), NEW work, Sound(work)
  PROVE  /\ BuildOperations(original, work) \in Seq(RawOp)
         /\ \A k \in DOMAIN BuildOperations(original, work) :
              LET op == BuildOperations(original, work)[k]
              IN  AboutGone(op, work) \/ \E e \in EntryOf(work) : AboutNode(op, e)
         /\ \A j, k \in DOMAIN BuildOperations(original, work) :
              LET a == BuildOperations(original, work)[j]
                  b == BuildOperations(original, work)[k]
              IN  a.type = b.type /\ a.type # "delete" /\ Subject(a) = Subject(b) => j = k
<1>1. PICK idx : idx = IndexOriginal(original)
  OBVIOUS
<1>2. PICK s \in Seq(EntryOf(work)) :
        /\ s = Entries(work)
        /\ \A l, m \in DOMAIN s : s[l].node = s[m].node => l = m
  BY EntriesAreOf DEF Sound
<1> DEFINE N(k) == NodeOps(original, idx, work, s[k])
           ss == [k \in DOMAIN s |-> N(k)]
<1>3. PICK d \in Seq(RawOp) : /\ d = Deletions(original, idx, SeenIn(work))
                              /\ \A k \in DOMAIN d : AboutGone(d[k], work)
  BY DeletionsFit
<1>4. PICK F : F = FlattenSeq(ss)
  OBVIOUS
<1>5. BuildOperations(original, work) = F \o d
  BY <1>1, <1>2, <1>3, <1>4 DEF BuildOperations, SeenIn
<1>6. ASSUME NEW k \in DOMAIN s
      PROVE  /\ s[k] \in EntryOf(work) /\ N(k) \in Seq(RawOp)
             /\ \A i \in DOMAIN N(k) :
                  AboutNode(N(k)[i], s[k]) /\ (N(k)[i].type = "create" => i = 1)
             /\ \A i, j \in DOMAIN N(k) : N(k)[i].type = N(k)[j].type => i = j
  <2>1. PICK e \in EntryOf(work) : e = s[k]
    OBVIOUS
  <2> QED  BY <2>1, NodeOpsFit
<1> HIDE DEF N
<1>7. ss \in Seq(Seq(RawOp)) /\ DOMAIN ss = DOMAIN s /\ \A k \in DOMAIN s : ss[k] = N(k)
  <2>1. DOMAIN s = 1 .. Len(s) /\ Len(s) \in Nat
    OBVIOUS
  <2>2. \A k \in DOMAIN s : N(k) \in Seq(RawOp)
    BY <1>6
  <2> QED  BY <2>1, <2>2
<1> HIDE DEF ss
<1>8. F \in Seq(RawOp) /\ Together(RawOp, ss, Len(ss), F) /\ DOMAIN ss = 1 .. Len(ss)
  <2>1. Together(RawOp, ss, Len(ss), F) /\ DOMAIN ss = 1 .. Len(ss)
    BY <1>4, <1>7, FlattenIsList
  <2> QED  BY <2>1 DEF Together
<1>9. PICK part, place \in [DOMAIN F -> Nat] : Placed(ss, Len(ss), F, part, place)
  BY <1>8 DEF Together
<1>10. ASSUME NEW m \in DOMAIN F
       PROVE  /\ part[m] \in DOMAIN s /\ s[part[m]] \in EntryOf(work)
              /\ AboutNode(F[m], s[part[m]])
              /\ place[m] \in DOMAIN N(part[m]) /\ F[m] = N(part[m])[place[m]]
  <2>1. /\ part[m] \in DOMAIN s /\ place[m] \in DOMAIN ss[part[m]]
        /\ F[m] = ss[part[m]][place[m]]
    BY <1>7, <1>8, <1>9 DEF Placed
  <2> QED  BY <1>6, <1>7, <2>1
<1>11. ASSUME NEW l \in DOMAIN F, NEW m \in DOMAIN F, F[l].type = F[m].type,
              Subject(F[l]) = Subject(F[m])
       PROVE  l = m
  <2>1. s[part[l]].node = s[part[m]].node
    BY <1>10, <1>11 DEF AboutNode, Subject
  <2>2. part[l] = part[m]
    BY <1>2, <1>10, <2>1
  <2>3. place[l] = place[m]
    BY <1>6, <1>10, <1>11, <2>2
  <2> QED  BY <1>9, <2>2, <2>3 DEF Placed
<1>12. PICK n \in Nat : n = Len(F) /\ DOMAIN F = 1 .. n
  BY <1>8
<1>13. PICK ops \in Seq(RawOp) :
         /\ ops = F \o d
         /\ \A k \in DOMAIN ops : \/ k \in DOMAIN F /\ ops[k] = F[k]
                                  \/ k - n \in DOMAIN d /\ ops[k] = d[k - n]
  <2> HIDE DEF RawOp
  <2>1. F \o d \in Seq(RawOp)
    BY <1>8
  <2>2. \A k \in DOMAIN (F \o d) : \/ k \in DOMAIN F /\ (F \o d)[k] = F[k]
                                   \/ k - n \in DOMAIN d /\ (F \o d)[k] = d[k - n]
    BY <1>8, <1>12
  <2> QED  BY <2>1, <2>2
<1>14. \A k \in DOMAIN ops : AboutGone(ops[k], work) \/ \E e \in EntryOf(work) : AboutNode(ops[k], e)
  BY <1>3, <1>10, <1>13
<1>15. \A k \in DOMAIN ops : ops[k].type # "delete" => k \in DOMAIN F /\ ops[k] = F[k]
  BY <1>3, <1>13 DEF AboutGone
<1>16. \A j, k \in DOMAIN ops : ops[j].type = ops[k].type /\ ops[j].type # "delete"
                                /\ Subject(ops[j]) = Subject(ops[k]) => j = k
  BY <1>11, <1>15
<1> QED  BY <1>5, <1>13, <1>14, <1>16

\* What is deleted holds nothing that the request creates or moves.
Separate(ops) ==
  \A j, k \in DOMAIN ops : ops[k].type = "delete" => ops[j].parent # ops[k].target

\* A request that nobody has decided about: it updates and moves a node once at most, and
\* neither what it deletes.
Coherent(ops) ==
  /\ \A k \in DOMAIN ops : /\ ops[k].st = "pending" /\ ops[k].made = 0
                           /\ ops[k].type = "update" => ops[k].parent = Root
  /\ \A j, k \in DOMAIN ops :
       /\ ops[j].type \in {"update", "reorder"} /\ ops[j].type = ops[k].type
       /\ ops[j].target = ops[k].target
       => j = k
  /\ \A j, k \in DOMAIN ops :
       ops[j].type = "delete" /\ ops[k].type \in {"update", "reorder"} =>
         ops[j].target # ops[k].target

\* A request that the server takes fits the course.
LEMMA SubmittedFits ==
  ASSUME NEW original, Arranged(original), NEW work, Sound(work),
         NEW ops, ops = BuildOperations(original, work),
         \A k \in DOMAIN ops : ops[k].type = "create" \/ ops[k].target \in ServerId
  PROVE  OpsFit(Pending(ops)) /\ Separate(Pending(ops)) /\ Coherent(Pending(ops))
<1>1. /\ ops \in Seq(RawOp)
      /\ \A k \in DOMAIN ops :
           AboutGone(ops[k], work) \/ \E e \in EntryOf(work) : AboutNode(ops[k], e)
      /\ \A j, k \in DOMAIN ops : ops[j].type = ops[k].type /\ ops[j].type # "delete"
                                  /\ Subject(ops[j]) = Subject(ops[k]) => j = k
  BY BuiltFit
<1>2. \A e \in EntryOf(work) : /\ e.node \in Node /\ MayHold(e.parent, e.node)
                               /\ e.parent = Root \/ e.parent \in Nodes(work)
                               /\ e.node \in Nodes(work)
  <2>1. \A e \in EntryOf(work) : /\ e.node \in Node /\ e.parent \in Node
                                 /\ e.node \in Kin(work, e.parent)
                                 /\ MayHold(e.parent, e.node)
    BY EntryIsOne DEF Sound
  <2>2. \A e \in EntryOf(work) : (e.parent = Root \/ e.parent \in Hung(work)) /\ e.node \in Hung(work)
    BY <2>1 DEF Sound, Rooted, Hung
  <2>3. Nodes(work) = Hung(work)
    BY NodesHang DEF Sound
  <2> QED  BY <2>1, <2>2, <2>3
<1>3. ASSUME NEW k \in DOMAIN ops
      PROVE  /\ ops[k] \in RawOp
             /\ ops[k].type = "create" => ops[k].ref < 0 /\ MayHold(ops[k].parent, ops[k].ref)
             /\ ops[k].type # "create" => ops[k].target \in ServerId
             /\ ops[k].type = "reorder" /\ ops[k].parent # Root =>
                  MayHold(ops[k].parent, ops[k].target)
             /\ ops[k].type = "delete" => ops[k].target \notin SeenIn(work)
             /\ ops[k].type = "update" => ops[k].parent = Root
             /\ ops[k].type \in {"update", "reorder"} => ops[k].target \in Nodes(work)
             /\ ops[k].parent = Root \/ ops[k].parent \in Nodes(work)
  <2>1. ops[k] \in RawOp
    BY <1>1
  <2>2. CASE AboutGone(ops[k], work)
    BY <2>1, <2>2 DEF AboutGone
  <2>3. CASE \E e \in EntryOf(work) : AboutNode(ops[k], e)
    BY <1>2, <2>1, <2>3 DEF AboutNode
  <2> QED  BY <1>1, <2>2, <2>3
<1> DEFINE P == Pending(ops)
<1>4. ASSUME NEW k \in DOMAIN ops
      PROVE  /\ P[k] \in Op /\ P[k].type = ops[k].type /\ P[k].target = ops[k].target
             /\ P[k].ref = ops[k].ref /\ P[k].parent = ops[k].parent
             /\ P[k].st = "pending" /\ P[k].made = 0
  BY <1>3, NodesAreNumbers DEF Pending, RawOp, Op, OpStatus
<1>5. P \in Seq(Op) /\ DOMAIN P = DOMAIN ops
  <2>1. DOMAIN ops = 1 .. Len(ops) /\ Len(ops) \in Nat
    BY <1>1
  <2>2. P = [k \in 1 .. Len(ops) |-> P[k]]
    BY <2>1 DEF Pending
  <2>3. \A k \in 1 .. Len(ops) : P[k] \in Op
    BY <1>4, <2>1
  <2> HIDE DEF P, Op
  <2> QED  BY <2>1, <2>2, <2>3
<1> HIDE DEF P
<1>6. \A k \in DOMAIN P : OpFits(P[k])
  BY <1>3, <1>4, <1>5 DEF OpFits
<1>7. OpsFit(P)
  BY <1>1, <1>4, <1>5, <1>6 DEF OpsFit, Subject
<1>8. ASSUME NEW j \in DOMAIN ops, NEW k \in DOMAIN ops, ops[k].type = "delete",
             ops[j].parent = ops[k].target
      PROVE  FALSE
  <2>1. ops[k].target \in ServerId /\ ops[k].target \notin SeenIn(work)
    BY <1>3, <1>8
  <2>2. ops[k].target # Root /\ ~ IsNewKey(ops[k].target)
    <3>1. PICK n \in Int : n = ops[k].target /\ n > 0
      BY <2>1, NodesAreNumbers
    <3> QED  BY <3>1, NodesAreNumbers DEF IsNewKey
  <2> QED  BY <1>3, <1>8, <2>1, <2>2 DEF SeenIn
<1>9. Separate(P)
  BY <1>4, <1>5, <1>8 DEF Separate
<1>10. Coherent(P)
  <2>1. ASSUME NEW j \in DOMAIN P, NEW k \in DOMAIN P, P[j].type \in {"update", "reorder"},
               P[j].type = P[k].type, P[j].target = P[k].target
        PROVE  j = k
    BY <1>1, <1>4, <1>5, <2>1 DEF Subject
  <2>2. ASSUME NEW j \in DOMAIN P, NEW k \in DOMAIN P, P[j].type = "delete",
               P[k].type \in {"update", "reorder"}, P[j].target = P[k].target
        PROVE  FALSE
    <3>1. /\ j \in DOMAIN ops /\ ops[j].target \in ServerId /\ ops[j].target \notin SeenIn(work)
          /\ ops[j].target \in Nodes(work)
      BY <1>3, <1>4, <1>5, <2>2
    <3>2. ~ IsNewKey(ops[j].target)
      <4>1. PICK n \in Int : n = ops[j].target /\ n > 0
        BY <3>1, NodesAreNumbers
      <4> QED  BY <4>1 DEF IsNewKey
    <3> QED  BY <3>1, <3>2 DEF SeenIn
  <2> QED  BY <1>3, <1>4, <1>5, <2>1, <2>2 DEF Coherent
<1> QED  BY <1>7, <1>9, <1>10 DEF P

-----------------------------------------------------------------------------
(* The edits of the professor *)

\* The key that a new node gets.
LEMMA FreeKey ==
  ASSUME NEW free \in SUBSET Node, free # {}, \A n \in free : IsNewKey(n)
  PROVE  (CHOOSE k \in free : \A j \in free : j <= k) \in free
<1> DEFINE T == {-k : k \in free}
<1>1. \A k \in free : k \in Int /\ k < 0
  BY NodesAreNumbers DEF IsNewKey
<1>2. T \in SUBSET Nat /\ T # {}
  BY <1>1
<1>3. PICK m \in T : \A i \in T : m <= i
  <2> HIDE DEF T
  <2> QED  BY <1>2, LeastNat
<1>4. PICK k \in free : m = -k
  BY <1>3
<1>5. \A j \in free : j <= k
  <2> SUFFICES ASSUME NEW j \in free PROVE j <= k
    OBVIOUS
  <2>1. -j \in T /\ m <= -j
    BY <1>3
  <2> QED  BY <1>1, <1>4, <2>1
<1> QED  BY <1>5

\* The tree with a node added under p, and with a node dropped on another.
Grown(t, p, n) == [t EXCEPT !.kids[p] = Append(@, n), !.val[n] = Blank]

DroppedOn(t, n, over) ==
  LET p  == CHOOSE q \in Holders(t, over) : TRUE
      at == CHOOSE k \in DOMAIN t.kids[p] : t.kids[p][k] = over
  IN  PlaceAt(Without(t, n), p, n, at - 1)

LEMMA AddedIsSound ==
  ASSUME NEW t, Sound(t), NEW p, NEW n, MayHold(p, n), n \notin Nodes(t),
         p = Root \/ p \in Nodes(t)
  PROVE  Sound(Grown(t, p, n)) /\ Nodes(Grown(t, p, n)) = Nodes(t) \cup {n}
<1>1. /\ n \in Node /\ p \in Node /\ Nodes(t) = Hung(t)
      /\ n \notin Hung(t) /\ (p = Root \/ p \in Hung(t)) /\ Blank \in Content
  <2>1. n \in Node /\ p \in Node
    BY Levels
  <2>2. Nodes(t) = Hung(t)
    BY NodesHang DEF Sound
  <2> QED  BY <2>1, <2>2 DEF Content
<1>2. PICK v : v = [t EXCEPT !.val[n] = Blank]
  OBVIOUS
<1>3. Arranged(v) /\ n \notin Hung(v)
  <2>1. Arranged(v) /\ \A q \in Node : Kin(v, q) = Kin(t, q)
    BY <1>1, <1>2, TypedTree DEF Sound
  <2> QED  BY <1>1, <2>1 DEF Hung
<1>4. PICK u : u = [v EXCEPT !.kids[p] = Append(@, n)]
  OBVIOUS
<1>5. Joined(v, u, p, n)
  BY <1>3, <1>4, AppendedIsArranged
<1>6. Sound(u) /\ Nodes(u) = Nodes(t) \cup {n}
  <2>1. Sound(u) /\ Hung(u) = Hung(t) \cup {n}
    BY <1>1, <1>2, <1>5, CreatedIsSound
  <2>2. Nodes(u) = Hung(u)
    BY <2>1, NodesHang DEF Sound
  <2> QED  BY <1>1, <2>1, <2>2
<1>7. u = Grown(t, p, n)
  <2>1. t \in Tree
    BY DEF Sound, Arranged
  <2> QED  BY <1>2, <1>4, <2>1 DEF Tree, Grown
<1> QED  BY <1>6, <1>7

LEMMA MovedToIsSound ==
  ASSUME NEW t, Sound(t), NEW p \in Nodes(t), NEW n \in Nodes(t), MayHold(p, n)
  PROVE  \E u : u = [Without(t, n) EXCEPT !.kids[p] = Append(@, n)] /\ Sound(u)
                /\ Nodes(u) = Nodes(t)
<1>1. PICK v : /\ v = Without(t, n) /\ Arranged(v)
               /\ \A q \in Node : Kin(v, q) = Kin(t, q) \ {n}
  BY WithoutIsArranged DEF Sound
<1>2. n \notin Hung(v) /\ p \in Hung(t) /\ n \in Hung(t)
  <2>1. Nodes(t) = Hung(t)
    BY NodesHang DEF Sound
  <2> QED  BY <1>1, <2>1 DEF Hung
<1>3. PICK u : u = [v EXCEPT !.kids[p] = Append(@, n)] /\ Joined(v, u, p, n)
  BY <1>1, <1>2, AppendedIsArranged
<1>4. Sound(u) /\ Hung(u) = Hung(t)
  BY <1>1, <1>2, <1>3, MovedIsSound
<1>5. Nodes(u) = Nodes(t)
  BY <1>4, NodesHang DEF Sound
<1> QED  BY <1>1, <1>3, <1>4, <1>5

\* A node is dropped on one of its kind.
LEMMA DroppedIsSound ==
  ASSUME NEW t, Sound(t), NEW n \in Nodes(t), NEW over \in Nodes(t),
         NEW kind \in {Chapter, Lesson, Tab}, n \in kind, over \in kind
  PROVE  Sound(DroppedOn(t, n, over)) /\ Nodes(DroppedOn(t, n, over)) = Nodes(t)
<1> DEFINE p  == CHOOSE q \in Holders(t, over) : TRUE
           at == CHOOSE k \in DOMAIN t.kids[p] : t.kids[p][k] = over
<1>1. Nodes(t) = Hung(t) /\ Arranged(t)
  BY NodesHang DEF Sound
<1>2. p \in Node /\ over \in Kin(t, p)
  <2>1. Holders(t, over) # {}
    BY <1>1 DEF Hung, Holders, Kin
  <2> QED  BY <2>1 DEF Holders, Kin
<1>3. MayHold(p, over) /\ (p = Root \/ p \in Hung(t))
  BY <1>1, <1>2 DEF Arranged, Sound, Rooted
<1>4. MayHold(p, n)
  BY <1>3, NodesAreNumbers DEF MayHold
<1>5. at - 1 \in Nat
  <2>1. PICK s \in Seq(Node) : s = t.kids[p]
    BY <1>1, <1>2 DEF Arranged, Tree
  <2>2. \E k \in DOMAIN s : s[k] = over
    BY <1>2, <2>1 DEF Kin, ToSet
  <2>3. at \in DOMAIN s
    BY <2>1, <2>2
  <2> QED  BY <2>3
<1>6. PICK v : /\ v = Without(t, n) /\ Arranged(v)
               /\ \A q \in Node : Kin(v, q) = Kin(t, q) \ {n}
  BY <1>1, WithoutIsArranged
<1>7. n \notin Hung(v) /\ n \in Hung(t)
  BY <1>1, <1>6 DEF Hung
<1>8. PICK u : u = PlaceAt(v, p, n, at - 1) /\ Joined(v, u, p, n)
  BY <1>4, <1>5, <1>6, <1>7, PlacedIsArranged
<1>9. Sound(u) /\ Nodes(u) = Nodes(t)
  <2>1. Joined(Without(t, n), u, p, n)
    BY <1>6, <1>8
  <2>2. Sound(u) /\ Hung(u) = Hung(t)
    BY <1>3, <1>4, <1>7, <2>1, MovedIsSound
  <2> QED  BY <1>1, <2>2, NodesHang DEF Sound
<1>10. u = DroppedOn(t, n, over)
  BY <1>6, <1>8 DEF DroppedOn
<1> QED  BY <1>9, <1>10

-----------------------------------------------------------------------------
(* Applying a request *)

NewKey == {m \in Node : IsNewKey(m)}

\* What apply_change_operations carries along.
Applying == [row : [ServerId -> Row], refs : [NewKey -> Node], ops : Seq(Op), broken : BOOLEAN]

SameKind(a, b) == \A kind \in {Chapter, Lesson, Tab} : a \in kind <=> b \in kind

SameRequest(p, q) ==
  /\ p.type = q.type /\ p.target = q.target /\ p.ref = q.ref /\ p.parent = q.parent
  /\ p.order = q.order /\ p.val = q.val

\* Operation k has got its result.
Ticked(o, p, k) ==
  /\ DOMAIN p = DOMAIN o
  /\ \A j \in DOMAIN o : SameRequest(p[j], o[j]) /\ (j # k => p[j] = o[j])

LEMMA DoneTicks ==
  ASSUME NEW s \in Applying, NEW k \in DOMAIN s.ops, NEW id \in Node
  PROVE  /\ Done(s, k, id) \in Applying
         /\ Done(s, k, id).row = s.row /\ Done(s, k, id).refs = s.refs
         /\ Done(s, k, id).broken = s.broken
         /\ Ticked(s.ops, Done(s, k, id).ops, k)
         /\ Done(s, k, id).ops[k].st = "applied" /\ Done(s, k, id).ops[k].made = id
<1>1. PICK o \in Seq(Op) : o = s.ops /\ k \in DOMAIN o
  BY DEF Applying
<1>2. PICK x \in Op : x = [o[k] EXCEPT !.st = "applied", !.made = id]
  <2>1. PICK z \in Op : z = o[k]
    BY <1>1
  <2> QED  BY <2>1 DEF Op, OpStatus
<1>3. x.st = "applied" /\ x.made = id /\ SameRequest(x, o[k])
  BY <1>1, <1>2 DEF Op, SameRequest
<1>4. PICK p : p = [o EXCEPT ![k] = x]
  OBVIOUS
<1>5. p \in Seq(Op) /\ DOMAIN p = DOMAIN o /\ p[k] = x /\ \A j \in DOMAIN o : j # k => p[j] = o[j]
  <2> HIDE DEF Op
  <2> QED  BY <1>1, <1>4
<1>6. Done(s, k, id) = [s EXCEPT !.ops = p]
  <2>1. [s EXCEPT !.ops[k].st = "applied", !.ops[k].made = id]
          = [s EXCEPT !.ops = [o EXCEPT ![k] = [o[k] EXCEPT !.st = "applied", !.made = id]]]
    BY <1>1 DEF Applying, Op
  <2> QED  BY <1>2, <1>4, <2>1 DEF Done
<1>7. Ticked(o, p, k)
  BY <1>3, <1>5 DEF Ticked, SameRequest
<1>8. PICK u : u = [s EXCEPT !.ops = p]
  OBVIOUS
<1>9. /\ u \in Applying /\ u.row = s.row /\ u.refs = s.refs /\ u.broken = s.broken
      /\ u.ops = p
  <2> HIDE DEF Op, Row
  <2> QED  BY <1>5, <1>8 DEF Applying
<1> QED  BY <1>1, <1>3, <1>5, <1>6, <1>7, <1>8, <1>9

LEMMA FailTicks ==
  ASSUME NEW s \in Applying, NEW k \in DOMAIN s.ops
  PROVE  /\ Fail(s, k) \in Applying
         /\ Fail(s, k).row = s.row /\ Fail(s, k).refs = s.refs
         /\ Fail(s, k).broken = s.broken
         /\ Ticked(s.ops, Fail(s, k).ops, k) /\ Fail(s, k).ops[k].st = "failed"
<1>1. PICK o \in Seq(Op) : o = s.ops /\ k \in DOMAIN o
  BY DEF Applying
<1>2. PICK x \in Op : x = [o[k] EXCEPT !.st = "failed"]
  <2>1. PICK z \in Op : z = o[k]
    BY <1>1
  <2> QED  BY <2>1 DEF Op, OpStatus
<1>3. x.st = "failed" /\ SameRequest(x, o[k])
  BY <1>1, <1>2 DEF Op, SameRequest
<1>4. PICK p : p = [o EXCEPT ![k] = x]
  OBVIOUS
<1>5. p \in Seq(Op) /\ DOMAIN p = DOMAIN o /\ p[k] = x /\ \A j \in DOMAIN o : j # k => p[j] = o[j]
  <2> HIDE DEF Op
  <2> QED  BY <1>1, <1>4
<1>6. Fail(s, k) = [s EXCEPT !.ops = p]
  <2>1. [s EXCEPT !.ops[k].st = "failed"]
          = [s EXCEPT !.ops = [o EXCEPT ![k] = [o[k] EXCEPT !.st = "failed"]]]
    BY <1>1
  <2> QED  BY <1>2, <1>4, <2>1 DEF Fail
<1>7. Ticked(o, p, k)
  BY <1>3, <1>5 DEF Ticked, SameRequest
<1>8. PICK u : u = [s EXCEPT !.ops = p]
  OBVIOUS
<1>9. /\ u \in Applying /\ u.row = s.row /\ u.refs = s.refs /\ u.broken = s.broken
      /\ u.ops = p
  <2> HIDE DEF Op, Row
  <2> QED  BY <1>5, <1>8 DEF Applying
<1> QED  BY <1>1, <1>3, <1>5, <1>6, <1>7, <1>8, <1>9

\* The creates that remain after operation k, and the ids that are left for them.
Creates(ops, kind, k) ==
  {j \in DOMAIN ops : j > k /\ ops[j].type = "create" /\ ops[j].ref \in kind}
Unborn(rows, kind) == {n \in kind \cap ServerId : rows[n].st = "unborn"}

\* A request that can be applied: what it is about has existed.
Applicable(ops, rows) ==
  /\ RowsFit(rows) /\ OpsFit(ops) /\ Separate(ops)
  /\ \A k \in DOMAIN ops : ops[k].type # "create" => rows[ops[k].target].st # "unborn"

\* Why the row of n differs from what it was.
Explained(op, n, rows) ==
  \/ op.st = "applied" /\ op.made = n
  \/ op.st = "applied" /\ op.type = "delete" /\ n \in Below(rows, op.target)
  \/ op.st = "failed" /\ op.type = "reorder" /\ op.target = n

Doomed(ops, p) == \E j \in DOMAIN ops : ops[j].type = "delete" /\ ops[j].target = p

\* After operation k: rows, ids and operations fit, every row that differs from what it
\* was is explained by an operation up to k, and what hangs from a node that is to be
\* deleted hung from it before.
Carried(ops, rows, s, k) ==
  /\ s \in Applying /\ RowsFit(s.row)
  /\ DOMAIN s.ops = DOMAIN ops /\ \A j \in DOMAIN ops : SameRequest(s.ops[j], ops[j])
  /\ \A x \in NewKey : s.refs[x] # Unresolved =>
       s.refs[x] \in ServerId /\ SameKind(x, s.refs[x]) /\ rows[s.refs[x]].st = "unborn"
  /\ \A n \in ServerId : s.row[n].st = "unborn" => rows[n].st = "unborn"
  /\ \A kind \in {Chapter, Lesson, Tab} :
       Cardinality(Creates(ops, kind, k)) <= Cardinality(Unborn(s.row, kind))
  /\ \A n \in ServerId : s.row[n] # rows[n] =>
       \E j \in DOMAIN ops : j <= k /\ Explained(s.ops[j], n, rows)
  /\ \A n \in ServerId : s.row[n].st = "live" /\ Doomed(ops, s.row[n].parent) =>
       rows[n].st = "live" /\ rows[n].parent = s.row[n].parent

\* What an operation does, as its handler leaves it: no row but that of n is touched.
Others(s, u, n) == \A m \in ServerId : m # n => u.row[m] = s.row[m]

Failing(s, u, k) ==
  /\ u.ops[k].st = "failed" /\ u.refs = s.refs
  /\ \A m \in ServerId :
       \/ u.row[m] = s.row[m]
       \/ /\ s.ops[k].type = "reorder" /\ m = s.ops[k].target
          /\ u.row[m].st = s.row[m].st /\ u.row[m].parent = s.row[m].parent
          /\ u.row[m].val = s.row[m].val

Updating(s, u, k) ==
  LET n == s.ops[k].target
  IN  /\ s.ops[k].type = "update" /\ n \in ServerId /\ u.refs = s.refs
      /\ u.ops[k].st = "applied" /\ u.ops[k].made = n
      /\ s.row[n].st = "live" /\ u.row[n].st = "live" /\ Others(s, u, n)
      /\ u.row[n].parent = s.row[n].parent /\ u.row[n].order = s.row[n].order
      /\ u.row[n].val = s.ops[k].val

Moving(s, u, k) ==
  LET n == s.ops[k].target
      p == s.ops[k].parent
  IN  /\ s.ops[k].type = "reorder" /\ n \in ServerId /\ u.refs = s.refs
      /\ u.ops[k].st = "applied" /\ u.ops[k].made = n
      /\ s.row[n].st = "live" /\ u.row[n].st = "live" /\ Others(s, u, n)
      /\ u.row[n].order = s.ops[k].order /\ u.row[n].val = s.row[n].val
      /\ p = Root => u.row[n].parent = s.row[n].parent
      /\ p # Root => u.row[n].parent = ResolveRef(s, p) /\ ResolveRef(s, p) # Unresolved

Deleting(s, u, k) ==
  LET n == s.ops[k].target
  IN  /\ s.ops[k].type = "delete" /\ n \in ServerId /\ u.refs = s.refs
      /\ u.ops[k].st = "applied" /\ u.ops[k].made = n
      /\ s.row[n].st = "live"
      /\ \A m \in ServerId : IF m \in Below(s.row, n) THEN u.row[m].st = "gone"
                              ELSE u.row[m] = s.row[m]

Creating(s, u, k) ==
  LET n == u.ops[k].made
      op == s.ops[k]
  IN  /\ op.type = "create" /\ n \in ServerId /\ u.ops[k].st = "applied"
      /\ s.row[n].st = "unborn" /\ u.row[n].st = "live" /\ Others(s, u, n)
      /\ u.row[n].order = op.order /\ u.row[n].val = op.val
      /\ u.row[n].parent = ResolveRef(s, op.parent)
      /\ op.parent # Root => ResolveRef(s, op.parent) # Unresolved
      /\ \A x \in NewKey : u.refs[x] = IF x = op.ref THEN n ELSE s.refs[x]

Stepped(s, u, k) ==
  /\ Ticked(s.ops, u.ops, k)
  /\ \/ Failing(s, u, k) \/ Updating(s, u, k) \/ Moving(s, u, k)
     \/ Deleting(s, u, k) \/ Creating(s, u, k)

LEMMA SameIds ==
  ASSUME NEW ops, OpsFit(ops), NEW rows, NEW s, NEW k \in Nat, Carried(ops, rows, s, k),
         NEW r, \A n \in ServerId : s.row[n].st = "unborn" <=> r[n].st = "unborn",
         NEW kind \in {Chapter, Lesson, Tab}
  PROVE  Cardinality(Creates(ops, kind, k + 1)) <= Cardinality(Unborn(r, kind))
<1>1. Unborn(r, kind) = Unborn(s.row, kind)
  BY DEF Unborn
<1>2. PICK n \in Nat : n = Len(ops) /\ DOMAIN ops = 1 .. n
  BY DEF OpsFit
<1>3. PICK C : C = Creates(ops, kind, k) /\ IsFiniteSet(C)
  <2>1. Creates(ops, kind, k) \in SUBSET (1 .. n)
    BY <1>2 DEF Creates
  <2>2. IsFiniteSet(1 .. n)
    BY FS_Interval
  <2> QED  BY <2>1, <2>2, FS_Subset
<1>4. PICK D : D = Creates(ops, kind, k + 1) /\ D \in SUBSET C
  <2>1. \A j \in DOMAIN ops : j > k + 1 => j > k
    BY <1>2
  <2>2. Creates(ops, kind, k + 1) \in SUBSET Creates(ops, kind, k)
    BY <2>1 DEF Creates
  <2> QED  BY <1>3, <2>2
<1>5. Cardinality(D) <= Cardinality(C) /\ Cardinality(C) \in Nat /\ Cardinality(D) \in Nat
  BY <1>3, <1>4, FS_Subset, FS_CardinalityType
<1>6. Cardinality(C) <= Cardinality(Unborn(r, kind))
  BY <1>1, <1>3 DEF Carried
<1>7. Cardinality(Unborn(r, kind)) \in Nat
  <2>1. Unborn(r, kind) \in SUBSET Node
    BY NodesAreNumbers DEF Unborn
  <2> QED  BY <2>1, IdsAreFinite, FS_CardinalityType
<1> QED  BY <1>4, <1>5, <1>6, <1>7

\* What a step has to show.
LEMMA Advance ==
  ASSUME NEW ops, NEW rows, Applicable(ops, rows),
         NEW k \in Nat, k + 1 \in DOMAIN ops, NEW s, Carried(ops, rows, s, k),
         NEW u \in Applying, RowsFit(u.row), Ticked(s.ops, u.ops, k + 1),
         \A x \in NewKey : u.refs[x] # Unresolved =>
           u.refs[x] \in ServerId /\ SameKind(x, u.refs[x]) /\ rows[u.refs[x]].st = "unborn",
         \A n \in ServerId : u.row[n].st = "unborn" => s.row[n].st = "unborn",
         \A kind \in {Chapter, Lesson, Tab} :
           Cardinality(Creates(ops, kind, k + 1)) <= Cardinality(Unborn(u.row, kind)),
         \A n \in ServerId : u.row[n] # s.row[n] =>
           s.row[n] # rows[n] \/ Explained(u.ops[k + 1], n, rows),
         \A n \in ServerId : u.row[n].st = "live" =>
           \/ s.row[n].st = "live" /\ u.row[n].parent = s.row[n].parent
           \/ ~ Doomed(ops, u.row[n].parent)
  PROVE  Carried(ops, rows, u, k + 1)
<1>1. /\ DOMAIN u.ops = DOMAIN ops
      /\ \A j \in DOMAIN ops : SameRequest(u.ops[j], ops[j]) /\ (j # k + 1 => u.ops[j] = s.ops[j])
  BY DEF Carried, Ticked, SameRequest
<1>2. DOMAIN ops \subseteq Int
  BY DEF Applicable, OpsFit
<1>3. ASSUME NEW n \in ServerId, u.row[n] # rows[n]
      PROVE  \E j \in DOMAIN ops : j <= k + 1 /\ Explained(u.ops[j], n, rows)
  <2>1. CASE s.row[n] # rows[n]
    <3>1. PICK j \in DOMAIN ops : j <= k /\ Explained(s.ops[j], n, rows)
      BY <2>1 DEF Carried
    <3>2. j <= k + 1 /\ j # k + 1
      BY <1>2, <3>1
    <3> QED  BY <1>1, <3>1, <3>2
  <2>2. CASE s.row[n] = rows[n]
    <3>1. Explained(u.ops[k + 1], n, rows) /\ k + 1 <= k + 1
      BY <1>3, <2>2
    <3> QED  BY <3>1
  <2> QED  BY <2>1, <2>2
<1>4. ASSUME NEW n \in ServerId, u.row[n].st = "live", Doomed(ops, u.row[n].parent)
      PROVE  rows[n].st = "live" /\ rows[n].parent = u.row[n].parent
  <2>1. s.row[n].st = "live" /\ u.row[n].parent = s.row[n].parent
    BY <1>4
  <2> QED  BY <1>4, <2>1 DEF Carried
<1>5. \A n \in ServerId : u.row[n].st = "unborn" => rows[n].st = "unborn"
  BY DEF Carried
<1> QED  BY <1>1, <1>3, <1>4, <1>5 DEF Carried

LEMMA FailCarries ==
  ASSUME NEW ops, NEW rows, Applicable(ops, rows),
         NEW k \in Nat, k + 1 \in DOMAIN ops, NEW s, Carried(ops, rows, s, k)
  PROVE  Carried(ops, rows, Fail(s, k + 1), k + 1) /\ Stepped(s, Fail(s, k + 1), k + 1)
<1>1. PICK u \in Applying : /\ u = Fail(s, k + 1) /\ u.row = s.row /\ u.refs = s.refs
                            /\ Ticked(s.ops, u.ops, k + 1) /\ u.ops[k + 1].st = "failed"
  <2>1. s \in Applying /\ k + 1 \in DOMAIN s.ops
    BY DEF Carried
  <2> QED  BY <2>1, FailTicks
<1>2. \A kind \in {Chapter, Lesson, Tab} :
        Cardinality(Creates(ops, kind, k + 1)) <= Cardinality(Unborn(u.row, kind))
  BY <1>1, SameIds DEF Applicable
<1>3. RowsFit(u.row)
  BY <1>1 DEF Carried
<1>4. \A x \in NewKey : u.refs[x] # Unresolved =>
        u.refs[x] \in ServerId /\ SameKind(x, u.refs[x]) /\ rows[u.refs[x]].st = "unborn"
  BY <1>1 DEF Carried
<1>5. Carried(ops, rows, u, k + 1)
  BY <1>1, <1>2, <1>3, <1>4, Advance
<1>6. Stepped(s, u, k + 1)
  BY <1>1 DEF Stepped, Failing
<1> QED  BY <1>1, <1>5, <1>6

\* An operation that is rejected changes nothing.
LEMMA SkipCarries ==
  ASSUME NEW ops, NEW rows, Applicable(ops, rows),
         NEW k \in Nat, k + 1 \in DOMAIN ops, NEW s, Carried(ops, rows, s, k)
  PROVE  Carried(ops, rows, s, k + 1)
<1>1. \A kind \in {Chapter, Lesson, Tab} :
        Cardinality(Creates(ops, kind, k + 1)) <= Cardinality(Unborn(s.row, kind))
  BY SameIds DEF Applicable
<1>2. RowsFit(s.row) /\ s \in Applying
  BY DEF Carried
<1>3. \A x \in NewKey : s.refs[x] # Unresolved =>
        s.refs[x] \in ServerId /\ SameKind(x, s.refs[x]) /\ rows[s.refs[x]].st = "unborn"
  BY DEF Carried
<1>4. Ticked(s.ops, s.ops, k + 1)
  BY DEF Ticked, SameRequest
<1> QED  BY <1>1, <1>2, <1>3, <1>4, Advance

\* One row is set.
LEMMA SetRowFits ==
  ASSUME NEW rows, RowsFit(rows), NEW n \in ServerId, NEW x \in Row, x.st = "live",
         MayHold(x.parent, n), x.parent = Root \/ Live(rows, x.parent)
  PROVE  RowsFit([rows EXCEPT ![n] = x])
<1>1. PICK r : r = [rows EXCEPT ![n] = x]
  OBVIOUS
<1>2. r \in [ServerId -> Row] /\ \A m \in ServerId : r[m] = IF m = n THEN x ELSE rows[m]
  <2> HIDE DEF Row
  <2> QED  BY <1>1 DEF RowsFit
<1>3. \A m : Live(rows, m) => Live(r, m)
  BY <1>2 DEF Live
<1>4. ASSUME NEW m \in ServerId, r[m].st = "live"
      PROVE  MayHold(r[m].parent, m) /\ (r[m].parent = Root \/ Live(r, r[m].parent))
  BY <1>2, <1>3, <1>4 DEF RowsFit
<1> QED  BY <1>1, <1>2, <1>4 DEF RowsFit

\* The operation at hand.
LEMMA AtHand ==
  ASSUME NEW ops, NEW rows, Applicable(ops, rows),
         NEW k \in Nat, k + 1 \in DOMAIN ops, NEW s, Carried(ops, rows, s, k)
  PROVE  /\ k + 1 \in DOMAIN s.ops /\ s.ops[k + 1] \in Op /\ OpFits(s.ops[k + 1])
         /\ SameRequest(s.ops[k + 1], ops[k + 1])
         /\ ~ Doomed(ops, s.ops[k + 1].parent)
<1>1. k + 1 \in DOMAIN s.ops /\ SameRequest(s.ops[k + 1], ops[k + 1]) /\ s \in Applying
  BY DEF Carried
<1>2. s.ops[k + 1] \in Op
  <2>1. PICK o \in Seq(Op) : o = s.ops
    BY <1>1 DEF Applying
  <2> HIDE DEF Op
  <2> QED  BY <1>1, <2>1
<1>3. OpFits(s.ops[k + 1])
  BY <1>1 DEF Applicable, OpsFit, OpFits, SameRequest
<1>4. ~ Doomed(ops, s.ops[k + 1].parent)
  BY <1>1 DEF Applicable, Separate, Doomed, SameRequest
<1> QED  BY <1>1, <1>2, <1>3, <1>4

LEMMA WithRows ==
  ASSUME NEW s \in Applying, NEW r \in [ServerId -> Row]
  PROVE  /\ [s EXCEPT !.row = r] \in Applying
         /\ [s EXCEPT !.row = r].row = r /\ [s EXCEPT !.row = r].refs = s.refs
         /\ [s EXCEPT !.row = r].ops = s.ops
<1> HIDE DEF Row, Op
<1> QED  BY DEF Applying

\* How one operation, with its result, may change the rows: no id is freed or taken without
\* a row, what differs is explained by the operation, and nothing is hung from a node that
\* is to be deleted.
Moves(ops, rows, s, r, op) ==
  /\ \A n \in ServerId : r[n].st = "unborn" <=> s.row[n].st = "unborn"
  /\ \A n \in ServerId : r[n] # s.row[n] =>
       s.row[n] # rows[n] \/ Explained(op, n, rows)
  /\ \A n \in ServerId : r[n].st = "live" =>
       \/ s.row[n].st = "live" /\ r[n].parent = s.row[n].parent
       \/ ~ Doomed(ops, r[n].parent)

\* The rows are replaced, and the operation gets its result.
LEMMA RowsCarry ==
  ASSUME NEW ops, NEW rows, Applicable(ops, rows),
         NEW k \in Nat, k + 1 \in DOMAIN ops, NEW s, Carried(ops, rows, s, k),
         NEW r, RowsFit(r),
         NEW v \in Applying, v.row = r, v.refs = s.refs, v.ops = s.ops,
         NEW u, NEW id \in Node, u = Done(v, k + 1, id) \/ u = Fail(v, k + 1),
         Moves(ops, rows, s, r, u.ops[k + 1])
  PROVE  Carried(ops, rows, u, k + 1)
<1>1. k + 1 \in DOMAIN s.ops
  BY DEF Carried
<1>2. u \in Applying /\ u.row = r /\ u.refs = s.refs /\ Ticked(s.ops, u.ops, k + 1)
  <2>1. CASE u = Done(v, k + 1, id)
    BY <1>1, <2>1, DoneTicks
  <2>2. CASE u = Fail(v, k + 1)
    BY <1>1, <2>2, FailTicks
  <2> QED  BY <2>1, <2>2
<1>3. \A kind \in {Chapter, Lesson, Tab} :
        Cardinality(Creates(ops, kind, k + 1)) <= Cardinality(Unborn(u.row, kind))
  <2>1. OpsFit(ops) /\ \A n \in ServerId : s.row[n].st = "unborn" <=> u.row[n].st = "unborn"
    BY <1>2 DEF Applicable, Moves
  <2> QED  BY <2>1, SameIds
<1>4. \A x \in NewKey : u.refs[x] # Unresolved =>
        u.refs[x] \in ServerId /\ SameKind(x, u.refs[x]) /\ rows[u.refs[x]].st = "unborn"
  BY <1>2 DEF Carried
<1>5. RowsFit(u.row)
  BY <1>2
<1>6. /\ \A n \in ServerId : r[n].st = "unborn" <=> s.row[n].st = "unborn"
      /\ \A n \in ServerId : r[n] # s.row[n] =>
           s.row[n] # rows[n] \/ Explained(u.ops[k + 1], n, rows)
      /\ \A n \in ServerId : r[n].st = "live" =>
           \/ s.row[n].st = "live" /\ r[n].parent = s.row[n].parent
           \/ ~ Doomed(ops, r[n].parent)
  BY DEF Moves
<1> QED  BY <1>2, <1>3, <1>4, <1>5, <1>6, Advance

\* The row of a node that is there is set, by an operation that is done or, for a move,
\* that fails.
LEMMA SetRowCarries ==
  ASSUME NEW ops, NEW rows, Applicable(ops, rows),
         NEW k \in Nat, k + 1 \in DOMAIN ops, NEW s, Carried(ops, rows, s, k),
         NEW n \in ServerId, s.row[n].st = "live",
         NEW x \in Row, x.st = "live", MayHold(x.parent, n),
         x.parent = Root \/ Live(s.row, x.parent),
         x.parent = s.row[n].parent \/ ~ Doomed(ops, x.parent),
         NEW v \in Applying, v.row = [s.row EXCEPT ![n] = x], v.refs = s.refs, v.ops = s.ops,
         NEW u, \/ u = Done(v, k + 1, n)
                \/ /\ u = Fail(v, k + 1)
                   /\ s.ops[k + 1].type = "reorder" /\ s.ops[k + 1].target = n
  PROVE  Carried(ops, rows, u, k + 1)
<1>1. RowsFit(s.row) /\ k + 1 \in DOMAIN v.ops
  BY DEF Carried
<1>2. PICK r : r = [s.row EXCEPT ![n] = x]
  OBVIOUS
<1>3. RowsFit(r) /\ v.row = r
  BY <1>1, <1>2, SetRowFits
<1>4. \A m \in ServerId : r[m] = IF m = n THEN x ELSE s.row[m]
  BY <1>1, <1>2 DEF RowsFit
<1>5. Explained(u.ops[k + 1], n, rows)
  <2>1. CASE u = Done(v, k + 1, n)
    <3>1. n \in Node
      BY NodesAreNumbers
    <3> QED  BY <1>1, <2>1, <3>1, DoneTicks DEF Explained
  <2>2. CASE /\ u = Fail(v, k + 1)
             /\ s.ops[k + 1].type = "reorder" /\ s.ops[k + 1].target = n
    <3>1. u.ops[k + 1].st = "failed" /\ Ticked(v.ops, u.ops, k + 1)
      BY <1>1, <2>2, FailTicks
    <3>2. u.ops[k + 1].type = "reorder" /\ u.ops[k + 1].target = n
      BY <1>1, <2>2, <3>1 DEF Ticked, SameRequest
    <3> QED  BY <3>1, <3>2 DEF Explained
  <2> QED  BY <2>1, <2>2
<1>6. \A m \in ServerId : r[m] # s.row[m] =>
        s.row[m] # rows[m] \/ Explained(u.ops[k + 1], m, rows)
  BY <1>4, <1>5
<1>7. \A m \in ServerId : r[m].st = "unborn" <=> s.row[m].st = "unborn"
  BY <1>4
<1>8. \A m \in ServerId : r[m].st = "live" =>
        \/ s.row[m].st = "live" /\ r[m].parent = s.row[m].parent
        \/ ~ Doomed(ops, r[m].parent)
  BY <1>4
<1>9. n \in Node /\ (u = Done(v, k + 1, n) \/ u = Fail(v, k + 1))
  BY NodesAreNumbers
<1>10. Moves(ops, rows, s, r, u.ops[k + 1])
  BY <1>6, <1>7, <1>8 DEF Moves
<1> QED  BY <1>3, <1>9, <1>10, RowsCarry

LEMMA UpdateCarries ==
  ASSUME NEW ops, NEW rows, Applicable(ops, rows),
         NEW k \in Nat, k + 1 \in DOMAIN ops, NEW s, Carried(ops, rows, s, k),
         s.ops[k + 1].type = "update"
  PROVE  /\ Carried(ops, rows, ApplyUpdate(s, k + 1), k + 1)
         /\ Stepped(s, ApplyUpdate(s, k + 1), k + 1)
<1>1. PICK op \in Op : op = s.ops[k + 1] /\ OpFits(op) /\ op.type = "update"
  BY AtHand
<1>2. PICK n \in Node : n = op.target /\ n \in ServerId /\ op.val \in Content
  BY <1>1 DEF OpFits, Op
<1>3. CASE ~ Live(s.row, n)
  BY <1>1, <1>2, <1>3, FailCarries DEF ApplyUpdate
<1>4. CASE Live(s.row, n)
  <2>1. RowsFit(s.row) /\ s \in Applying
    BY DEF Carried
  <2>2. PICK o \in Row : o = s.row[n] /\ o.st = "live" /\ MayHold(o.parent, n)
                         /\ (o.parent = Root \/ Live(s.row, o.parent))
    <3> HIDE DEF Row
    <3> QED  BY <1>2, <1>4, <2>1 DEF RowsFit, Live
  <2>3. PICK x \in Row : /\ x = [o EXCEPT !.val = op.val] /\ x.st = o.st /\ x.parent = o.parent
                         /\ x.order = o.order /\ x.val = op.val
    <3>1. PICK c \in Content : c = op.val
      BY <1>2
    <3>2. [o EXCEPT !.val = c] \in Row
      BY DEF Row
    <3>3. /\ [o EXCEPT !.val = c].st = o.st /\ [o EXCEPT !.val = c].parent = o.parent
          /\ [o EXCEPT !.val = c].order = o.order /\ [o EXCEPT !.val = c].val = c
      BY DEF Row
    <3> QED  BY <3>1, <3>2, <3>3
  <2>4. PICK r : r = [s.row EXCEPT ![n] = x]
    OBVIOUS
  <2>5. r \in [ServerId -> Row]
    <3> HIDE DEF Row
    <3> QED  BY <1>2, <2>1, <2>4 DEF RowsFit
  <2>6. PICK v \in Applying : /\ v = [s EXCEPT !.row = r]
                              /\ v.row = r /\ v.refs = s.refs /\ v.ops = s.ops
    BY <2>1, <2>5, WithRows
  <2>7. v = [s EXCEPT !.row[n].val = s.ops[k + 1].val]
    BY <1>1, <2>2, <2>3, <2>4, <2>6
  <2>8. PICK u : u = Done(v, k + 1, n)
    OBVIOUS
  <2>9. v.row = [s.row EXCEPT ![n] = x] /\ v.refs = s.refs /\ v.ops = s.ops
    BY <2>4, <2>6
  <2>10. Carried(ops, rows, u, k + 1)
    <3>1. /\ s.row[n].st = "live" /\ x.st = "live" /\ MayHold(x.parent, n)
          /\ x.parent = s.row[n].parent /\ (x.parent = Root \/ Live(s.row, x.parent))
      BY <2>2, <2>3
    <3> QED  BY <1>2, <2>8, <2>9, <3>1, SetRowCarries
  <2>11. ApplyUpdate(s, k + 1) = u
    BY <1>1, <1>2, <1>4, <2>7, <2>8 DEF ApplyUpdate
  <2>12. Stepped(s, u, k + 1)
    <3>1. v.row = r /\ v.refs = s.refs /\ v.ops = s.ops /\ k + 1 \in DOMAIN v.ops
      BY <2>6, AtHand
    <3>2. /\ u.row = r /\ u.refs = s.refs /\ Ticked(s.ops, u.ops, k + 1)
          /\ u.ops[k + 1].st = "applied" /\ u.ops[k + 1].made = n
      BY <2>8, <3>1, DoneTicks
    <3>3. \A m \in ServerId : r[m] = IF m = n THEN x ELSE s.row[m]
      BY <2>1, <2>4 DEF RowsFit
    <3>4. Updating(s, u, k + 1)
      BY <1>1, <1>2, <2>2, <2>3, <3>2, <3>3 DEF Updating, Others
    <3> QED  BY <3>2, <3>4 DEF Stepped
  <2> QED  BY <2>10, <2>11, <2>12
<1> QED  BY <1>3, <1>4

\* What a deletion leaves.
LEMMA DeletedFits ==
  ASSUME NEW rows, RowsFit(rows), NEW d \in ServerId, Live(rows, d),
         NEW x \in Row, x.st = "gone",
         NEW r, r = [m \in ServerId |-> IF m \in Below(rows, d) THEN x ELSE rows[m]]
  PROVE  /\ RowsFit(r)
         /\ \A m \in ServerId : m \in Below(rows, d) => Live(rows, m)
<1> DEFINE kids == {m \in ServerId : Live(rows, m) /\ rows[m].parent = d}
           grandkids == {m \in ServerId : Live(rows, m) /\ rows[m].parent \in kids}
           gone == Below(rows, d)
<1>1. gone = {d} \cup kids \cup grandkids
  BY DEF Below
<1>2. \A m \in gone : Live(rows, m) /\ m \in ServerId
  BY <1>1
<1>3. r \in [ServerId -> Row] /\ \A m \in ServerId : r[m] = IF m \in gone THEN x ELSE rows[m]
  <2>1. \A m \in ServerId : rows[m] \in Row
    BY DEF RowsFit
  <2> HIDE DEF Row
  <2> QED  BY <2>1
<1>4. ASSUME NEW m \in ServerId, Live(rows, m), rows[m].parent \in gone PROVE m \in gone
  <2>1. CASE rows[m].parent = d
    BY <1>1, <1>4, <2>1
  <2>2. CASE rows[m].parent \in kids
    BY <1>1, <1>4, <2>2
  <2>3. CASE rows[m].parent \in grandkids
    <3>1. PICK g \in ServerId : g = rows[m].parent /\ Live(rows, g) /\ rows[g].parent \in kids
      BY <2>3
    <3>2. PICK c \in ServerId : c = rows[g].parent /\ Live(rows, c) /\ rows[c].parent = d
      BY <3>1
    <3>3. MayHold(d, c) /\ MayHold(c, g) /\ MayHold(g, m)
      BY <1>4, <3>1, <3>2 DEF RowsFit, Live
    <3>4. d # Root
      BY NodesAreNumbers
    <3> HIDE DEF kids, grandkids, gone
    <3> QED  BY <3>3, <3>4, NodesAreNumbers DEF MayHold
  <2> QED  BY <1>1, <1>4, <2>1, <2>2, <2>3
<1> HIDE DEF gone
<1>5. ASSUME NEW m \in ServerId, r[m].st = "live"
      PROVE  MayHold(r[m].parent, m) /\ (r[m].parent = Root \/ Live(r, r[m].parent))
  <2>1. m \notin gone /\ r[m] = rows[m] /\ Live(rows, m)
    BY <1>3, <1>5 DEF Live
  <2>2. MayHold(rows[m].parent, m) /\ (rows[m].parent = Root \/ Live(rows, rows[m].parent))
    BY <2>1 DEF RowsFit, Live
  <2>3. rows[m].parent \notin gone
    BY <1>4, <2>1
  <2>4. Live(rows, rows[m].parent) => Live(r, rows[m].parent)
    BY <1>3, <2>3 DEF Live
  <2> QED  BY <2>1, <2>2, <2>4
<1> QED  BY <1>2, <1>3, <1>5 DEF RowsFit, gone

LEMMA DeleteCarries ==
  ASSUME NEW ops, NEW rows, Applicable(ops, rows),
         NEW k \in Nat, k + 1 \in DOMAIN ops, NEW s, Carried(ops, rows, s, k),
         s.ops[k + 1].type = "delete"
  PROVE  /\ Carried(ops, rows, ApplyDelete(s, k + 1), k + 1)
         /\ Stepped(s, ApplyDelete(s, k + 1), k + 1)
<1>1. PICK op \in Op : /\ op = s.ops[k + 1] /\ OpFits(op) /\ op.type = "delete"
                       /\ SameRequest(op, ops[k + 1])
  BY AtHand
<1>2. PICK n \in Node : n = op.target /\ n \in ServerId
  BY <1>1 DEF OpFits, Op
<1>3. CASE ~ Live(s.row, n)
  BY <1>1, <1>2, <1>3, FailCarries DEF ApplyDelete
<1>4. CASE Live(s.row, n)
  <2>1. RowsFit(s.row) /\ s \in Applying
    BY DEF Carried
  <2>2. PICK x \in Row : x = [NoRow EXCEPT !.st = "gone"] /\ x.st = "gone"
    <3>1. [NoRow EXCEPT !.st = "gone"] \in Row /\ [NoRow EXCEPT !.st = "gone"].st = "gone"
      BY NodesAreNumbers DEF NoRow, Row, Content
    <3> QED  BY <3>1
  <2>3. PICK r : r = [m \in ServerId |-> IF m \in Below(s.row, n) THEN x ELSE s.row[m]]
    OBVIOUS
  <2>4. RowsFit(r) /\ \A m \in ServerId : m \in Below(s.row, n) => Live(s.row, m)
    BY <1>2, <1>4, <2>1, <2>2, <2>3, DeletedFits
  <2>5. \A m \in ServerId : r[m] = IF m \in Below(s.row, n) THEN x ELSE s.row[m]
    BY <2>3
  <2>6. PICK v \in Applying : /\ v = [s EXCEPT !.row = r]
                              /\ v.row = r /\ v.refs = s.refs /\ v.ops = s.ops
    BY <2>1, <2>4, WithRows DEF RowsFit
  <2>7. PICK u : u = Done(v, k + 1, n)
    OBVIOUS
  <2>8. /\ u.ops[k + 1].st = "applied" /\ u.ops[k + 1].made = n
        /\ u.ops[k + 1].type = "delete" /\ u.ops[k + 1].target = n
        /\ u.row = r /\ u.refs = s.refs /\ Ticked(s.ops, u.ops, k + 1)
    <3>1. k + 1 \in DOMAIN v.ops
      BY <2>6, AtHand
    <3>2. /\ u.ops[k + 1].st = "applied" /\ u.ops[k + 1].made = n
          /\ Ticked(v.ops, u.ops, k + 1) /\ u.row = v.row /\ u.refs = v.refs
      BY <2>7, <3>1, DoneTicks
    <3> QED  BY <1>1, <1>2, <2>6, <3>1, <3>2 DEF Ticked, SameRequest
  <2>9. ASSUME NEW m \in ServerId, r[m] # s.row[m]
        PROVE  s.row[m] # rows[m] \/ Explained(u.ops[k + 1], m, rows)
    <3>1. m \in Below(s.row, n) /\ Live(s.row, m)
      BY <2>4, <2>5, <2>9
    <3>2. SUFFICES ASSUME s.row[m] = rows[m], m # n PROVE m \in Below(rows, n)
      BY <2>8 DEF Explained, Below
    <3>3. Doomed(ops, n)
      BY <1>1, <1>2 DEF Doomed, SameRequest
    <3>4. \A c \in ServerId : Live(s.row, c) /\ s.row[c].parent = n =>
            Live(rows, c) /\ rows[c].parent = n
      BY <3>3 DEF Carried, Live
    <3>5. CASE s.row[m].parent = n
      BY <3>1, <3>4, <3>5 DEF Below
    <3>6. CASE s.row[m].parent # n
      <4>1. PICK c \in ServerId : Live(s.row, c) /\ s.row[c].parent = n /\ s.row[m].parent = c
        BY <3>1, <3>2, <3>6 DEF Below
      <4>2. Live(rows, c) /\ rows[c].parent = n /\ Live(rows, m) /\ rows[m].parent = c
        BY <3>1, <3>2, <3>4, <4>1 DEF Live
      <4> QED  BY <4>2 DEF Below
    <3> QED  BY <3>5, <3>6
  <2>10. /\ \A m \in ServerId : r[m].st = "unborn" <=> s.row[m].st = "unborn"
         /\ \A m \in ServerId : r[m].st = "live" =>
              \/ s.row[m].st = "live" /\ r[m].parent = s.row[m].parent
              \/ ~ Doomed(ops, r[m].parent)
    BY <2>2, <2>4, <2>5 DEF Live
  <2>11. Carried(ops, rows, u, k + 1)
    <3>1. RowsFit(r) /\ (u = Done(v, k + 1, n) \/ u = Fail(v, k + 1))
      BY <2>4, <2>7
    <3>2. v \in Applying /\ v.row = r /\ v.refs = s.refs /\ v.ops = s.ops
      BY <2>6
    <3>3. \A m \in ServerId : r[m] # s.row[m] =>
            s.row[m] # rows[m] \/ Explained(u.ops[k + 1], m, rows)
      BY <2>9
    <3>4. Moves(ops, rows, s, r, u.ops[k + 1])
      BY <2>10, <3>3 DEF Moves
    <3> QED  BY <3>1, <3>2, <3>4, RowsCarry
  <2>12. ApplyDelete(s, k + 1) = u
    BY <1>1, <1>2, <1>4, <2>2, <2>3, <2>6, <2>7 DEF ApplyDelete
  <2>13. Deleting(s, u, k + 1)
    BY <1>1, <1>2, <1>4, <2>2, <2>5, <2>8 DEF Deleting, Live
  <2>14. Stepped(s, u, k + 1)
    BY <2>8, <2>13 DEF Stepped
  <2> QED  BY <2>11, <2>12, <2>14
<1> QED  BY <1>3, <1>4

\* The parent that an operation names: a node of the course, or what was created for a key.
LEMMA ResolvedFits ==
  ASSUME NEW ops, NEW rows, Applicable(ops, rows), NEW k \in Nat,
         NEW s, Carried(ops, rows, s, k),
         NEW p \in Node, p # Root, ~ Doomed(ops, p),
         NEW q, q = ResolveRef(s, p), q # Unresolved
  PROVE  q \in ServerId /\ SameKind(p, q) /\ ~ Doomed(ops, q)
<1>1. CASE IsNewKey(p)
  <2>1. p \in NewKey /\ q = s.refs[p]
    BY <1>1 DEF NewKey, ResolveRef
  <2>2. q \in ServerId /\ SameKind(p, q) /\ rows[q].st = "unborn"
    BY <2>1 DEF Carried
  <2>3. ~ Doomed(ops, q)
    BY <2>2 DEF Applicable, Doomed
  <2> QED  BY <2>2, <2>3
<1>2. CASE ~ IsNewKey(p)
  <2>1. q = p
    BY <1>2 DEF ResolveRef
  <2>2. p \in ServerId
    BY <1>2, NodesAreNumbers DEF IsNewKey
  <2> QED  BY <2>1, <2>2 DEF SameKind
<1> QED  BY <1>1, <1>2

LEMMA SameLevels ==
  ASSUME NEW p, NEW n, MayHold(p, n), NEW q, (p # Root /\ SameKind(p, q)) \/ (p = Root /\ q = Root),
         NEW m, SameKind(n, m)
  PROVE  MayHold(q, m)
  BY NodesAreNumbers DEF MayHold, SameKind

LEMMA ReorderCarries ==
  ASSUME NEW ops, NEW rows, Applicable(ops, rows),
         NEW k \in Nat, k + 1 \in DOMAIN ops, NEW s, Carried(ops, rows, s, k),
         s.ops[k + 1].type = "reorder"
  PROVE  \/ ApplyReorder(s, k + 1).broken
         \/ /\ Carried(ops, rows, ApplyReorder(s, k + 1), k + 1)
            /\ Stepped(s, ApplyReorder(s, k + 1), k + 1)
<1>1. PICK op \in Op : /\ op = s.ops[k + 1] /\ OpFits(op) /\ op.type = "reorder"
                       /\ ~ Doomed(ops, op.parent)
  BY AtHand
<1>2. PICK n \in Node : n = op.target /\ n \in ServerId /\ op.order \in Nat /\ op.parent \in Node
                        /\ (op.parent # Root => MayHold(op.parent, n))
  BY <1>1 DEF OpFits, Op
<1>3. RowsFit(s.row) /\ s \in Applying
  BY DEF Carried
<1>4. CASE ~ Live(s.row, n)
  BY <1>1, <1>2, <1>4, FailCarries DEF ApplyReorder
<1>5. CASE Live(s.row, n)
  <2>1. PICK o \in Row : o = s.row[n] /\ o.st = "live" /\ MayHold(o.parent, n)
                         /\ (o.parent = Root \/ Live(s.row, o.parent))
    <3> HIDE DEF Row
    <3> QED  BY <1>2, <1>3, <1>5 DEF RowsFit, Live
  <2>2. PICK y \in Row : /\ y = [o EXCEPT !.order = op.order] /\ y.st = o.st
                         /\ y.parent = o.parent /\ y.order = op.order /\ y.val = o.val
    <3>1. PICK c \in Nat : c = op.order
      BY <1>2
    <3>2. [o EXCEPT !.order = c] \in Row
      BY DEF Row
    <3>3. /\ [o EXCEPT !.order = c].st = o.st /\ [o EXCEPT !.order = c].parent = o.parent
          /\ [o EXCEPT !.order = c].order = c /\ [o EXCEPT !.order = c].val = o.val
      BY DEF Row
    <3> QED  BY <3>1, <3>2, <3>3
  <2>3. PICK r : r = [s.row EXCEPT ![n] = y]
    OBVIOUS
  <2>4. r \in [ServerId -> Row]
    <3> HIDE DEF Row
    <3> QED  BY <1>2, <1>3, <2>3 DEF RowsFit
  <2>5. PICK v \in Applying : /\ v = [s EXCEPT !.row = r]
                              /\ v.row = r /\ v.refs = s.refs /\ v.ops = s.ops
    BY <1>3, <2>4, WithRows
  <2>6. v = [s EXCEPT !.row[n].order = s.ops[k + 1].order]
    BY <1>1, <2>1, <2>2, <2>3, <2>5
  <2>7. /\ s.row[n].st = "live" /\ y.st = "live" /\ MayHold(y.parent, n)
        /\ y.parent = s.row[n].parent /\ (y.parent = Root \/ Live(s.row, y.parent))
        /\ v.row = [s.row EXCEPT ![n] = y] /\ v.refs = s.refs /\ v.ops = s.ops
    BY <2>1, <2>2, <2>3, <2>5
  <2>8. PICK q : q = ResolveRef(s, op.parent)
    OBVIOUS
  <2> DEFINE Now(u) == /\ u.refs = s.refs /\ Ticked(s.ops, u.ops, k + 1)
                       /\ u.ops[k + 1].st = "applied" /\ u.ops[k + 1].made = n
  <2>13. \A t \in Applying : t.ops = s.ops /\ t.refs = s.refs =>
           Now(Done(t, k + 1, n)) /\ Done(t, k + 1, n).row = t.row
    BY <1>2, AtHand, DoneTicks
  <2>14. \A m \in ServerId : r[m] = IF m = n THEN y ELSE s.row[m]
    BY <1>3, <2>3 DEF RowsFit
  <2> HIDE DEF Now
  <2>9. CASE op.parent = Root
    <3>1. PICK u : u = Done(v, k + 1, n)
      OBVIOUS
    <3>2. Carried(ops, rows, u, k + 1)
      BY <1>2, <2>7, <3>1, SetRowCarries
    <3>3. ApplyReorder(s, k + 1) = u
      BY <1>1, <1>2, <1>5, <2>6, <2>9, <3>1 DEF ApplyReorder
    <3>4. Now(u) /\ u.row = r
      BY <2>5, <2>13, <3>1
    <3>5. Moving(s, u, k + 1)
      BY <1>1, <1>2, <2>1, <2>2, <2>9, <2>14, <3>4 DEF Moving, Others, Now
    <3> QED  BY <3>2, <3>3, <3>4, <3>5 DEF Stepped, Now
  <2>10. CASE op.parent # Root /\ q = Unresolved
    <3>1. PICK u : u = Fail(v, k + 1)
      OBVIOUS
    <3>2. s.ops[k + 1].type = "reorder" /\ s.ops[k + 1].target = n
      BY <1>1, <1>2
    <3>3. Carried(ops, rows, u, k + 1)
      BY <1>2, <2>7, <3>1, <3>2, SetRowCarries
    <3>4. ApplyReorder(s, k + 1) = u
      BY <1>1, <1>2, <1>5, <2>6, <2>8, <2>10, <3>1 DEF ApplyReorder
    <3>5. k + 1 \in DOMAIN v.ops
      BY <2>5, AtHand
    <3>6. /\ u.row = r /\ u.refs = s.refs /\ Ticked(s.ops, u.ops, k + 1)
          /\ u.ops[k + 1].st = "failed"
      BY <2>5, <3>1, <3>5, FailTicks
    <3>7. Failing(s, u, k + 1)
      BY <1>1, <1>2, <2>1, <2>2, <2>14, <3>6 DEF Failing
    <3> QED  BY <3>3, <3>4, <3>6, <3>7 DEF Stepped
  <2>11. CASE op.parent # Root /\ q # Unresolved /\ ~ Live(s.row, q)
    <3>1. ApplyReorder(s, k + 1) = Break(s)
      BY <1>1, <1>2, <1>5, <2>8, <2>11 DEF ApplyReorder
    <3>2. Break(s).broken
      BY <1>3 DEF Break, Applying
    <3> QED  BY <3>1, <3>2
  <2>12. CASE op.parent # Root /\ q # Unresolved /\ Live(s.row, q)
    <3>1. q \in Node /\ SameKind(op.parent, q) /\ ~ Doomed(ops, q)
      BY <1>1, <1>2, <2>8, <2>12, ResolvedFits, NodesAreNumbers
    <3>2. MayHold(q, n)
      <4>1. MayHold(op.parent, n) /\ op.parent # Root /\ SameKind(n, n)
        BY <1>2, <2>12 DEF SameKind
      <4> QED  BY <3>1, <4>1, SameLevels
    <3>3. PICK z \in Row : /\ z = [y EXCEPT !.parent = q] /\ z.st = y.st /\ z.parent = q
                           /\ z.order = y.order /\ z.val = y.val
      <4>1. [y EXCEPT !.parent = q] \in Row
        BY <3>1 DEF Row
      <4>2. /\ [y EXCEPT !.parent = q].st = y.st /\ [y EXCEPT !.parent = q].parent = q
            /\ [y EXCEPT !.parent = q].order = y.order /\ [y EXCEPT !.parent = q].val = y.val
        BY DEF Row
      <4> QED  BY <4>1, <4>2
    <3>4. PICK w : w = [s.row EXCEPT ![n] = z]
      OBVIOUS
    <3>5. w \in [ServerId -> Row]
      <4> HIDE DEF Row
      <4> QED  BY <1>2, <1>3, <3>4 DEF RowsFit
    <3>6. PICK t \in Applying : /\ t = [s EXCEPT !.row = w]
                                /\ t.row = w /\ t.refs = s.refs /\ t.ops = s.ops
      BY <1>3, <3>5, WithRows
    <3>7. t = [v EXCEPT !.row[n].parent = q]
      <4>1. w = [r EXCEPT ![n] = [r[n] EXCEPT !.parent = q]]
        BY <1>2, <1>3, <2>3, <3>3, <3>4 DEF RowsFit
      <4>2. t = [v EXCEPT !.row = w]
        BY <1>3, <2>5, <3>6 DEF Applying
      <4> QED  BY <2>5, <4>1, <4>2
    <3>8. PICK u : u = Done(t, k + 1, n)
      OBVIOUS
    <3>9. Carried(ops, rows, u, k + 1)
      <4>1. /\ s.row[n].st = "live" /\ z.st = "live" /\ MayHold(z.parent, n)
            /\ Live(s.row, z.parent) /\ ~ Doomed(ops, z.parent)
            /\ t.row = [s.row EXCEPT ![n] = z] /\ t.refs = s.refs /\ t.ops = s.ops
        BY <2>7, <2>12, <3>1, <3>2, <3>3, <3>4, <3>6
      <4> QED  BY <1>2, <3>8, <4>1, SetRowCarries
    <3>10. ApplyReorder(s, k + 1) = u
      BY <1>1, <1>2, <1>5, <2>6, <2>8, <2>12, <3>7, <3>8 DEF ApplyReorder
    <3>11. Now(u) /\ u.row = w
      <4>1. t \in Applying /\ t.row = w /\ t.refs = s.refs /\ t.ops = s.ops
        BY <3>6
      <4> QED  BY <2>13, <3>8, <4>1
    <3>12. \A m \in ServerId : w[m] = IF m = n THEN z ELSE s.row[m]
      BY <1>3, <3>4 DEF RowsFit
    <3>13. Moving(s, u, k + 1)
      <4>1. /\ z.st = "live" /\ z.order = op.order /\ z.val = s.row[n].val /\ z.parent = q
            /\ s.row[n].st = "live" /\ q = ResolveRef(s, op.parent)
        BY <2>1, <2>2, <2>8, <3>3
      <4>2. Others(s, u, n) /\ u.row[n] = z
        BY <1>2, <3>11, <3>12 DEF Others
      <4>3. op = s.ops[k + 1] /\ op.type = "reorder" /\ op.target = n
        BY <1>1, <1>2
      <4> QED  BY <1>2, <2>12, <3>11, <4>1, <4>2, <4>3 DEF Moving, Now
    <3> QED  BY <3>9, <3>10, <3>11, <3>13 DEF Stepped, Now
  <2> QED  BY <2>9, <2>10, <2>11, <2>12
<1> QED  BY <1>4, <1>5

\* There is an id left for a create.
LEMMA NextIdIsUnborn ==
  ASSUME NEW ops, NEW rows, Applicable(ops, rows), NEW k \in Nat, k + 1 \in DOMAIN ops,
         NEW s, Carried(ops, rows, s, k), ops[k + 1].type = "create",
         NEW n \in Chapter \cup Lesson \cup Tab, n = ops[k + 1].ref
  PROVE  /\ NextId(s.row, KindOf(n)) \in ServerId
         /\ s.row[NextId(s.row, KindOf(n))].st = "unborn"
         /\ SameKind(n, NextId(s.row, KindOf(n)))
<1>1. PICK kind \in {Chapter, Lesson, Tab} : kind = KindOf(n) /\ n \in kind
  BY DEF KindOf
<1>2. PICK m \in Nat : m = Len(ops) /\ DOMAIN ops = 1 .. m
  BY DEF Applicable, OpsFit
<1>3. PICK C : C = Creates(ops, kind, k) /\ IsFiniteSet(C) /\ k + 1 \in C
  <2>1. Creates(ops, kind, k) \in SUBSET (1 .. m)
    BY <1>2 DEF Creates
  <2>2. IsFiniteSet(1 .. m)
    BY FS_Interval
  <2>3. k + 1 \in Creates(ops, kind, k)
    BY <1>1 DEF Creates
  <2> QED  BY <2>1, <2>2, <2>3, FS_Subset
<1>4. PICK U : U = Unborn(s.row, kind) /\ IsFiniteSet(U)
  <2>1. Unborn(s.row, kind) \in SUBSET Node
    BY NodesAreNumbers DEF Unborn
  <2> QED  BY <2>1, IdsAreFinite
<1>5. Cardinality(C) <= Cardinality(U)
  BY <1>3, <1>4 DEF Carried
<1>6. Cardinality(C) \in Nat /\ Cardinality(C) # 0
  BY <1>3, FS_CardinalityType, FS_EmptySet
<1>7. U # {}
  BY <1>5, <1>6, FS_EmptySet
<1>8. U \in SUBSET Nat
  BY <1>4, NodesAreNumbers DEF Unborn
<1>9. PICK i \in U : \A j \in U : i <= j
  BY <1>7, <1>8, LeastNat
<1>10. NextId(s.row, kind) \in U
  BY <1>4, <1>9 DEF NextId, Unborn
<1>11. PICK id : id = NextId(s.row, kind) /\ id \in kind /\ id \in ServerId /\ s.row[id].st = "unborn"
  BY <1>4, <1>10 DEF Unborn
<1>12. SameKind(n, id)
  BY <1>1, <1>11, NodesAreNumbers DEF SameKind
<1> QED  BY <1>1, <1>11, <1>12

\* A create takes one of the ids.
LEMMA CreatedLeaves ==
  ASSUME NEW ops, NEW rows, Applicable(ops, rows), NEW k \in Nat, k + 1 \in DOMAIN ops,
         NEW s, Carried(ops, rows, s, k), ops[k + 1].type = "create",
         NEW id \in ServerId, s.row[id].st = "unborn", SameKind(ops[k + 1].ref, id),
         NEW r, \A n \in ServerId : r[n].st = "unborn" <=> s.row[n].st = "unborn" /\ n # id,
         NEW kind \in {Chapter, Lesson, Tab}
  PROVE  Cardinality(Creates(ops, kind, k + 1)) <= Cardinality(Unborn(r, kind))
<1>1. PICK m \in Nat : m = Len(ops) /\ DOMAIN ops = 1 .. m
  BY DEF Applicable, OpsFit
<1>2. PICK C : C = Creates(ops, kind, k) /\ IsFiniteSet(C)
  <2>1. Creates(ops, kind, k) \in SUBSET (1 .. m)
    BY <1>1 DEF Creates
  <2>2. IsFiniteSet(1 .. m)
    BY FS_Interval
  <2> QED  BY <2>1, <2>2, FS_Subset
<1>3. PICK U : U = Unborn(s.row, kind) /\ IsFiniteSet(U)
  <2>1. Unborn(s.row, kind) \in SUBSET Node
    BY NodesAreNumbers DEF Unborn
  <2> QED  BY <2>1, IdsAreFinite
<1>4. Cardinality(C) <= Cardinality(U) /\ Cardinality(C) \in Nat /\ Cardinality(U) \in Nat
  BY <1>2, <1>3, FS_CardinalityType DEF Carried
<1>5. Creates(ops, kind, k + 1) = C \ {k + 1}
  <2>1. \A j \in DOMAIN ops : j > k + 1 <=> j > k /\ j # k + 1
    BY <1>1
  <2> QED  BY <1>2, <2>1 DEF Creates
<1>6. Unborn(r, kind) = U \ {id}
  BY <1>3 DEF Unborn
<1>7. CASE ops[k + 1].ref \in kind
  <2>1. k + 1 \in C
    BY <1>2, <1>7 DEF Creates
  <2>2. id \in U
    BY <1>3, <1>7 DEF Unborn, SameKind
  <2>3. Cardinality(C \ {k + 1}) = Cardinality(C) - 1
    BY <1>2, <2>1, FS_RemoveElement
  <2>4. Cardinality(U \ {id}) = Cardinality(U) - 1
    BY <1>3, <2>2, FS_RemoveElement
  <2>5. Cardinality(C \ {k + 1}) <= Cardinality(U \ {id})
    BY <1>4, <2>3, <2>4
  <2> QED  BY ONLY <1>5, <1>6, <2>5, Zenon
<1>8. CASE ops[k + 1].ref \notin kind
  <2>1. k + 1 \notin C
    BY <1>2, <1>8 DEF Creates
  <2>2. id \notin U
    BY <1>3, <1>8 DEF Unborn, SameKind
  <2>3. C \ {k + 1} = C /\ U \ {id} = U
    BY <2>1, <2>2
  <2> QED  BY <1>4, <1>5, <1>6, <2>3
<1> QED  BY <1>7, <1>8

LEMMA CreateCarries ==
  ASSUME NEW ops, NEW rows, Applicable(ops, rows),
         NEW k \in Nat, k + 1 \in DOMAIN ops, NEW s, Carried(ops, rows, s, k),
         s.ops[k + 1].type = "create"
  PROVE  \/ ApplyCreate(s, k + 1).broken
         \/ /\ Carried(ops, rows, ApplyCreate(s, k + 1), k + 1)
            /\ Stepped(s, ApplyCreate(s, k + 1), k + 1)
<1>1. PICK op \in Op : /\ op = s.ops[k + 1] /\ OpFits(op) /\ op.type = "create"
                       /\ ~ Doomed(ops, op.parent) /\ SameRequest(op, ops[k + 1])
  BY AtHand
<1>2. /\ op.ref < 0 /\ MayHold(op.parent, op.ref) /\ op.order \in Nat /\ op.val \in Content
      /\ op.parent \in Node /\ op.ref \in Chapter \cup Lesson \cup Tab
      /\ op.ref \in NewKey /\ op.ref # Root
      /\ (op.ref \in Chapter <=> op.parent = Root)
  <2>1. op.ref < 0 /\ MayHold(op.parent, op.ref) /\ op.order \in Nat /\ op.val \in Content
    BY <1>1 DEF OpFits, Op
  <2>2. /\ op.ref \in Node /\ op.ref # Root /\ op.parent \in Node
        /\ op.ref \in Chapter <=> op.parent = Root
    BY <2>1, Levels
  <2>3. op.ref \in Chapter \cup Lesson \cup Tab
    BY <2>2, NodesAreNumbers
  <2> QED  BY <2>1, <2>2, <2>3 DEF NewKey, IsNewKey
<1>3. RowsFit(s.row) /\ s \in Applying
  BY DEF Carried
<1>4. PICK parent : parent = IF op.ref \in Chapter THEN Root ELSE ResolveRef(s, op.parent)
  OBVIOUS
<1>5. CASE op.ref \notin Chapter /\ parent = Unresolved
  <2>1. ApplyCreate(s, k + 1) = Fail(s, k + 1)
    BY <1>1, <1>4, <1>5 DEF ApplyCreate
  <2> QED  BY <2>1, FailCarries
<1>6. CASE op.ref \notin Chapter /\ parent # Unresolved /\ ~ Live(s.row, parent)
  <2>1. ApplyCreate(s, k + 1) = Break(s)
    BY <1>1, <1>4, <1>6 DEF ApplyCreate
  <2>2. Break(s).broken
    BY <1>3 DEF Break, Applying
  <2> QED  BY <2>1, <2>2
<1>7. CASE op.ref \in Chapter \/ (parent # Unresolved /\ Live(s.row, parent))
  <2>1. PICK id \in ServerId : /\ id = NextId(s.row, KindOf(op.ref))
                               /\ s.row[id].st = "unborn" /\ SameKind(op.ref, id)
    BY <1>1, <1>2, NextIdIsUnborn DEF SameRequest
  <2>2. /\ parent \in Node /\ ~ Doomed(ops, parent)
        /\ (parent = Root \/ Live(s.row, parent)) /\ MayHold(parent, id)
    <3>1. CASE op.ref \in Chapter
      <4>1. parent = Root /\ op.parent = Root
        BY <1>2, <1>4, <3>1
      <4>2. MayHold(parent, id)
        BY <1>2, <2>1, <4>1, SameLevels
      <4> QED  BY <1>1, <4>1, <4>2, NodesAreNumbers
    <3>2. CASE op.ref \notin Chapter
      <4>1. parent = ResolveRef(s, op.parent) /\ parent # Unresolved /\ op.parent # Root
            /\ Live(s.row, parent)
        BY <1>2, <1>4, <1>7, <3>2
      <4>2. parent \in ServerId /\ SameKind(op.parent, parent) /\ ~ Doomed(ops, parent)
        BY <1>1, <1>2, <4>1, ResolvedFits
      <4>3. MayHold(parent, id)
        BY <1>2, <2>1, <4>1, <4>2, SameLevels
      <4> QED  BY <4>1, <4>2, <4>3, NodesAreNumbers
    <3> QED  BY <3>1, <3>2
  <2>3. PICK x \in Row : /\ x = [st |-> "live", parent |-> parent, order |-> op.order, val |-> op.val]
                         /\ x.st = "live" /\ x.parent = parent
                         /\ x.order = op.order /\ x.val = op.val
    <3>1. PICK c \in Nat, d \in Content : c = op.order /\ d = op.val
      BY <1>2
    <3>2. [st |-> "live", parent |-> parent, order |-> c, val |-> d] \in Row
      BY <2>2 DEF Row
    <3> QED  BY <3>1, <3>2
  <2>4. PICK r : r = [s.row EXCEPT ![id] = x]
    OBVIOUS
  <2>5. RowsFit(r)
    BY <1>3, <2>2, <2>3, <2>4, SetRowFits
  <2>6. \A m \in ServerId : r[m] = IF m = id THEN x ELSE s.row[m]
    BY <1>3, <2>4 DEF RowsFit
  <2>7. PICK f : f = [s.refs EXCEPT ![op.ref] = id]
    OBVIOUS
  <2>8. /\ f \in [NewKey -> Node]
        /\ \A n \in NewKey : f[n] = IF n = op.ref THEN id ELSE s.refs[n]
    <3>1. s.refs \in [NewKey -> Node] /\ id \in Node
      BY <1>3, NodesAreNumbers DEF Applying
    <3> QED  BY <2>7, <3>1
  <2>9. PICK v \in Applying : /\ v = [s EXCEPT !.row = r, !.refs = f]
                              /\ v.row = r /\ v.refs = f /\ v.ops = s.ops
    <3>1. r \in [ServerId -> Row]
      BY <2>5 DEF RowsFit
    <3> HIDE DEF Row, Op
    <3>2. [s EXCEPT !.row = r, !.refs = f] \in Applying
      BY <1>3, <2>8, <3>1 DEF Applying
    <3>3. /\ [s EXCEPT !.row = r, !.refs = f].row = r
          /\ [s EXCEPT !.row = r, !.refs = f].refs = f
          /\ [s EXCEPT !.row = r, !.refs = f].ops = s.ops
      BY <1>3 DEF Applying
    <3> QED  BY <3>2, <3>3
  <2>10. PICK u \in Applying :
           /\ u = Done(v, k + 1, id) /\ u.row = r /\ u.refs = f
           /\ Ticked(s.ops, u.ops, k + 1)
           /\ u.ops[k + 1].st = "applied" /\ u.ops[k + 1].made = id
    <3>1. /\ k + 1 \in DOMAIN v.ops /\ id \in Node
          /\ v.row = r /\ v.refs = f /\ v.ops = s.ops
      BY <2>9, AtHand, NodesAreNumbers
    <3> QED  BY <3>1, DoneTicks
  <2>11. ApplyCreate(s, k + 1) = u
    <3>1. v = [s EXCEPT !.row[id] = [st |-> "live", parent |-> parent,
                                     order |-> op.order, val |-> op.val],
                        !.refs[op.ref] = id]
      BY <1>3, <2>3, <2>4, <2>7, <2>9 DEF Applying
    <3>2. u = Done(v, k + 1, id)
      BY <2>10
    <3> QED  BY <1>1, <1>4, <1>7, <2>1, <3>1, <3>2 DEF ApplyCreate
  <2>12. \A n \in NewKey : u.refs[n] # Unresolved =>
           u.refs[n] \in ServerId /\ SameKind(n, u.refs[n]) /\ rows[u.refs[n]].st = "unborn"
    <3>1. rows[id].st = "unborn"
      BY <2>1 DEF Carried
    <3> QED  BY <2>1, <2>8, <2>10, <3>1 DEF Carried
  <2>13. \A n \in ServerId : r[n].st = "unborn" <=> s.row[n].st = "unborn" /\ n # id
    BY <2>3, <2>6
  <2>14. \A kind \in {Chapter, Lesson, Tab} :
           Cardinality(Creates(ops, kind, k + 1)) <= Cardinality(Unborn(u.row, kind))
    <3>1. ops[k + 1].type = "create" /\ SameKind(ops[k + 1].ref, id)
      BY <1>1, <2>1 DEF SameRequest
    <3> QED  BY <2>1, <2>10, <2>13, <3>1, CreatedLeaves
  <2>15. \A n \in ServerId : u.row[n] # s.row[n] =>
           s.row[n] # rows[n] \/ Explained(u.ops[k + 1], n, rows)
    BY <2>6, <2>10 DEF Explained
  <2>16. \A n \in ServerId : u.row[n].st = "live" =>
           \/ s.row[n].st = "live" /\ u.row[n].parent = s.row[n].parent
           \/ ~ Doomed(ops, u.row[n].parent)
    BY <2>2, <2>3, <2>6, <2>10
  <2>17. /\ RowsFit(u.row)
         /\ \A n \in ServerId : u.row[n].st = "unborn" => s.row[n].st = "unborn"
    BY <2>5, <2>10, <2>13
  <2>18. Carried(ops, rows, u, k + 1)
    BY <2>10, <2>12, <2>14, <2>15, <2>16, <2>17, Advance
  <2>19. /\ parent = ResolveRef(s, op.parent)
         /\ op.parent # Root => ResolveRef(s, op.parent) # Unresolved
    <3>1. ~ IsNewKey(Root)
      BY DEF IsNewKey, Root
    <3> QED  BY <1>2, <1>4, <1>7, <3>1 DEF ResolveRef
  <2>20. Creating(s, u, k + 1)
    <3>1. Others(s, u, id) /\ u.row[id] = x
      BY <2>1, <2>6, <2>10 DEF Others
    <3>2. /\ u.ops[k + 1].made = id /\ u.ops[k + 1].st = "applied"
          /\ \A n \in NewKey : u.refs[n] = IF n = op.ref THEN id ELSE s.refs[n]
      BY <2>8, <2>10
    <3>3. op = s.ops[k + 1] /\ op.type = "create"
      BY <1>1
    <3> QED  BY <2>1, <2>3, <2>19, <3>1, <3>2, <3>3 DEF Creating
  <2>21. Stepped(s, u, k + 1)
    BY <2>10, <2>20 DEF Stepped
  <2> QED  BY <2>11, <2>18, <2>21
<1> QED  BY <1>5, <1>6, <1>7

LEMMA StepCarries ==
  ASSUME NEW ops, NEW rows, Applicable(ops, rows),
         NEW k \in Nat, k + 1 \in DOMAIN ops, NEW s, Carried(ops, rows, s, k)
  PROVE  \/ ApplyOne(s, k + 1).broken
         \/ /\ Carried(ops, rows, ApplyOne(s, k + 1), k + 1)
            /\ Stepped(s, ApplyOne(s, k + 1), k + 1)
<1>1. s.ops[k + 1].type \in {"create", "update", "delete", "reorder"}
  BY AtHand DEF Op
<1>2. CASE s.ops[k + 1].type = "create"
  BY <1>2, CreateCarries DEF ApplyOne
<1>3. CASE s.ops[k + 1].type = "update"
  BY <1>3, UpdateCarries DEF ApplyOne
<1>4. CASE s.ops[k + 1].type = "delete"
  BY <1>4, DeleteCarries DEF ApplyOne
<1>5. CASE s.ops[k + 1].type = "reorder"
  BY <1>5, ReorderCarries DEF ApplyOne
<1> QED  BY <1>1, <1>2, <1>3, <1>4, <1>5

-----------------------------------------------------------------------------
(* What is applied lasts *)

\* x is the node p, or the key for which p was created.
Names(o, x, p) ==
  IF IsNewKey(x) THEN p # Unresolved /\ \E i \in DOMAIN o : o[i].ref = x /\ o[i].made = p
  ELSE x = p

\* The nodes under which an applied operation may have left its own.
Holds(o, rows, op, p) ==
  IF op.type = "create" \/ op.parent # Root THEN Names(o, op.parent, p)
  ELSE \/ p = rows[op.made].parent
       \/ \E i \in DOMAIN o : /\ o[i].st = "applied" /\ o[i].target = op.target
                              /\ Names(o, o[i].parent, p)

\* An applied operation shows in the row of its node, or that row went with its holder.
Lasts(rows, s, j) ==
  LET op == s.ops[j]
      n == op.made
      now == s.row[n]
  IN  /\ n \in ServerId
      /\ op.type = "create" => rows[n].st = "unborn"
      /\ op.type # "create" => n = op.target
      /\ op.type = "delete" => now.st = "gone"
      /\ op.type # "delete" =>
           \/ /\ now.st = "live"
              /\ op.type \in {"create", "update"} => now.val = op.val
              /\ op.type \in {"create", "reorder"} => now.order = op.order
              /\ op.type = "create" \/ op.parent # Root => Names(s.ops, op.parent, now.parent)
           \/ /\ now.st = "gone"
              /\ \E p \in ServerId : s.row[p].st = "gone" /\ Holds(s.ops, rows, op, p)

\* A node that was there hangs where it hung, or where an applied operation put it.
Hangs(rows, s, n) ==
  \/ s.row[n].parent = rows[n].parent
  \/ \E i \in DOMAIN s.ops : /\ s.ops[i].st = "applied" /\ s.ops[i].target = n
                             /\ Names(s.ops, s.ops[i].parent, s.row[n].parent)

\* After operation k: those up to k are decided and the others as they were, references are
\* what was created for them, and what was applied lasts.
Effective(ops, rows, approved, s, k) ==
  /\ \A j \in DOMAIN ops : j > k =>
       s.ops[j].made = 0 /\ s.ops[j].st = IF j \in approved THEN "pending" ELSE "rejected"
  /\ \A j \in DOMAIN ops : j <= k => s.ops[j].st # "pending"
  /\ \A x \in NewKey : s.refs[x] # Unresolved => Names(s.ops, x, s.refs[x])
  /\ \A n \in ServerId : s.row[n].st = "live" /\ rows[n].st # "unborn"
                         /\ s.row[n].parent \in ServerId => Hangs(rows, s, n)
  /\ \A j \in DOMAIN ops : s.ops[j].st = "applied" => Lasts(rows, s, j)

\* Deciding one more operation takes away no name.
LEMMA NamesGrow ==
  ASSUME NEW o, NEW p, NEW k \in DOMAIN o, Ticked(o, p, k), o[k].made = 0,
         NEW x, NEW q, Names(o, x, q)
  PROVE  Names(p, x, q)
<1>1. CASE IsNewKey(x)
  <2>1. PICK i \in DOMAIN o : o[i].ref = x /\ o[i].made = q /\ q # Unresolved
    BY <1>1 DEF Names
  <2>2. i # k /\ p[i] = o[i] /\ i \in DOMAIN p
    BY <2>1 DEF Ticked, Unresolved
  <2> QED  BY <1>1, <2>1, <2>2 DEF Names
<1>2. CASE ~ IsNewKey(x)
  BY <1>2 DEF Names
<1> QED  BY <1>1, <1>2

LEMMA HoldsGrow ==
  ASSUME NEW o, NEW p, NEW k \in DOMAIN o, Ticked(o, p, k), o[k].made = 0,
         o[k].st # "applied", NEW rows, NEW j \in DOMAIN o, j # k,
         NEW q, Holds(o, rows, o[j], q)
  PROVE  Holds(p, rows, p[j], q)
<1>1. p[j] = o[j] /\ DOMAIN p = DOMAIN o
  BY DEF Ticked
<1>2. \A x : Names(o, x, q) => Names(p, x, q)
  BY NamesGrow
<1>3. CASE o[j].type = "create" \/ o[j].parent # Root
  BY <1>1, <1>2, <1>3 DEF Holds
<1>4. CASE ~ (o[j].type = "create" \/ o[j].parent # Root)
  <2>1. CASE q = rows[o[j].made].parent
    BY <1>1, <1>4, <2>1 DEF Holds
  <2>2. CASE q # rows[o[j].made].parent
    <3>1. PICK i \in DOMAIN o : /\ o[i].st = "applied" /\ o[i].target = o[j].target
                                /\ Names(o, o[i].parent, q)
      BY <1>4, <2>2 DEF Holds
    <3>2. p[i] = o[i]
      BY <3>1 DEF Ticked
    <3>3. Names(p, p[i].parent, q)
      BY <1>2, <3>1, <3>2
    <3> QED  BY <1>1, <1>4, <3>1, <3>2, <3>3 DEF Holds
  <2> QED  BY <2>1, <2>2
<1> QED  BY <1>3, <1>4

\* What one step must leave for operation j to last.
Spared(rows, s, u, j) ==
  LET op == s.ops[j]
      n == op.made
  IN  s.row[n].st = "live" /\ op.type # "delete" =>
        \/ /\ u.row[n].st = "live"
           /\ op.type \in {"create", "update"} => u.row[n].val = s.row[n].val
           /\ op.type \in {"create", "reorder"} => u.row[n].order = s.row[n].order
           /\ op.type = "create" \/ op.parent # Root => u.row[n].parent = s.row[n].parent
        \/ /\ u.row[n].st = "gone"
           /\ \E p \in ServerId : u.row[p].st = "gone" /\ Holds(s.ops, rows, op, p)

LEMMA Lasting ==
  ASSUME NEW rows, NEW s, NEW u, NEW k \in DOMAIN s.ops, Ticked(s.ops, u.ops, k),
         s.ops[k].made = 0, s.ops[k].st # "applied",
         \A p \in ServerId : s.row[p].st = "gone" => u.row[p].st = "gone",
         NEW j \in DOMAIN s.ops, j # k, Lasts(rows, s, j), Spared(rows, s, u, j),
         NEW n, n = s.ops[j].made
  PROVE  Lasts(rows, u, j)
<1>1. PICK op : op = s.ops[j] /\ op = u.ops[j] /\ n = op.made
  BY DEF Ticked
<1>2. /\ n \in ServerId /\ (op.type = "create" => rows[n].st = "unborn")
      /\ (op.type # "create" => n = op.target)
  BY <1>1 DEF Lasts
<1>3. \A p : Holds(s.ops, rows, op, p) => Holds(u.ops, rows, op, p)
  <2> SUFFICES ASSUME NEW p, Holds(s.ops, rows, s.ops[j], p)
               PROVE  Holds(u.ops, rows, u.ops[j], p)
    BY <1>1
  <2> QED  BY HoldsGrow
<1>4. \A x, q : Names(s.ops, x, q) => Names(u.ops, x, q)
  BY NamesGrow
<1>5. CASE op.type = "delete"
  <2>1. u.row[n].st = "gone"
    BY <1>1, <1>2, <1>5 DEF Lasts
  <2> QED  BY <1>1, <1>2, <1>5, <2>1 DEF Lasts
<1>6. CASE op.type # "delete" /\ s.row[n].st = "gone"
  <2>1. PICK p \in ServerId : s.row[p].st = "gone" /\ Holds(s.ops, rows, op, p)
    BY <1>1, <1>6 DEF Lasts
  <2>2. u.row[n].st = "gone" /\ u.row[p].st = "gone" /\ Holds(u.ops, rows, op, p)
    BY <1>2, <1>3, <1>6, <2>1
  <2> QED  BY <1>1, <1>2, <1>6, <2>2 DEF Lasts
<1>7. CASE op.type # "delete" /\ s.row[n].st # "gone"
  <2>1. /\ s.row[n].st = "live"
        /\ op.type \in {"create", "update"} => s.row[n].val = op.val
        /\ op.type \in {"create", "reorder"} => s.row[n].order = op.order
        /\ op.type = "create" \/ op.parent # Root => Names(s.ops, op.parent, s.row[n].parent)
    BY <1>1, <1>7 DEF Lasts
  <2>2. CASE u.row[n].st = "live"
    <3>1. /\ op.type \in {"create", "update"} => u.row[n].val = op.val
          /\ op.type \in {"create", "reorder"} => u.row[n].order = op.order
          /\ op.type = "create" \/ op.parent # Root => u.row[n].parent = s.row[n].parent
      BY <1>1, <1>7, <2>1, <2>2 DEF Spared
    <3>2. op.type = "create" \/ op.parent # Root => Names(u.ops, op.parent, u.row[n].parent)
      BY <1>4, <2>1, <3>1
    <3> QED  BY <1>1, <1>2, <1>7, <2>2, <3>1, <3>2 DEF Lasts
  <2>3. CASE u.row[n].st # "live"
    <3>1. /\ u.row[n].st = "gone"
          /\ \E p \in ServerId : u.row[p].st = "gone" /\ Holds(s.ops, rows, op, p)
      BY <1>1, <1>7, <2>1, <2>3 DEF Spared
    <3>2. PICK p \in ServerId : u.row[p].st = "gone" /\ Holds(u.ops, rows, op, p)
      BY <1>3, <3>1
    <3> QED  BY <1>1, <1>2, <1>7, <3>1, <3>2 DEF Lasts
  <2> QED  BY <2>2, <2>3
<1> QED  BY <1>5, <1>6, <1>7

\* The parent of a node that is there is one under which its operation may have left it.
LEMMA HoldsNow ==
  ASSUME NEW ops, NEW rows, Applicable(ops, rows), NEW approved, NEW k \in Nat,
         NEW s, Carried(ops, rows, s, k), Effective(ops, rows, approved, s, k),
         NEW j \in DOMAIN ops, s.ops[j].st = "applied", s.ops[j].type # "delete",
         NEW n, n = s.ops[j].made, s.row[n].st = "live",
         NEW p \in ServerId, p = s.row[n].parent
  PROVE  Holds(s.ops, rows, s.ops[j], p)
<1>1. PICK op : op = s.ops[j] /\ SameRequest(op, ops[j])
  BY DEF Carried
<1>2. Lasts(rows, s, j)
  BY DEF Effective
<1>3. CASE op.type = "create" \/ op.parent # Root
  <2>1. Names(s.ops, op.parent, p)
    BY <1>1, <1>2, <1>3 DEF Lasts
  <2> QED  BY <1>1, <1>3, <2>1 DEF Holds
<1>4. CASE ~ (op.type = "create" \/ op.parent # Root)
  <2>1. n \in ServerId /\ n = op.target /\ n = op.made /\ rows[n].st # "unborn"
    BY <1>1, <1>2, <1>4 DEF Lasts, Applicable, SameRequest
  <2>2. Hangs(rows, s, n)
    BY <2>1 DEF Effective
  <2>3. \/ p = rows[n].parent
        \/ \E i \in DOMAIN s.ops : /\ s.ops[i].st = "applied" /\ s.ops[i].target = n
                                   /\ Names(s.ops, s.ops[i].parent, p)
    BY <2>2 DEF Hangs
  <2> QED  BY <1>1, <1>4, <2>1, <2>3 DEF Holds
<1> QED  BY <1>3, <1>4

\* A parent that is found is named by the reference.
LEMMA ResolvedIsNamed ==
  ASSUME NEW ops, NEW rows, NEW approved, NEW k, NEW s,
         Effective(ops, rows, approved, s, k),
         NEW p \in Node, p = Root \/ ResolveRef(s, p) # Unresolved
  PROVE  Names(s.ops, p, ResolveRef(s, p))
<1>1. CASE IsNewKey(p)
  <2>1. p \in NewKey /\ ResolveRef(s, p) = s.refs[p] /\ s.refs[p] # Unresolved
    BY <1>1 DEF NewKey, ResolveRef, IsNewKey, Root
  <2> QED  BY <2>1 DEF Effective
<1>2. CASE ~ IsNewKey(p)
  BY <1>2 DEF ResolveRef, Names
<1> QED  BY <1>1, <1>2

\* No step harms what another operation of the request has done, except that a deletion
\* takes what hangs from the deleted node along.
LEMMA StepSpares ==
  ASSUME NEW ops, NEW rows, Applicable(ops, rows), Coherent(ops), NEW approved,
         NEW k \in Nat, k + 1 \in DOMAIN ops, NEW s, Carried(ops, rows, s, k),
         Effective(ops, rows, approved, s, k),
         NEW u, Stepped(s, u, k + 1),
         NEW j \in DOMAIN ops, j # k + 1, s.ops[j].st = "applied"
  PROVE  Spared(rows, s, u, j)
<1>1. PICK op : op = s.ops[j] /\ SameRequest(op, ops[j])
  BY DEF Carried
<1>2. PICK n \in ServerId : /\ n = op.made /\ (op.type = "create" => rows[n].st = "unborn")
                            /\ (op.type # "create" => n = op.target)
  <2>1. Lasts(rows, s, j)
    BY DEF Effective
  <2> QED  BY <1>1, <2>1 DEF Lasts
<1>3. SUFFICES ASSUME s.row[n].st = "live", op.type # "delete", u.row[n] # s.row[n]
               PROVE  Spared(rows, s, u, j)
  BY <1>1, <1>2 DEF Spared
<1>4. PICK it : it = s.ops[k + 1] /\ SameRequest(it, ops[k + 1])
  BY DEF Carried
<1>5. it.type # "create" => rows[it.target].st # "unborn"
  BY <1>4 DEF Applicable, SameRequest
<1>6. /\ op.type \in {"update", "reorder"} /\ op.type = it.type /\ op.target = it.target => FALSE
      /\ it.type = "delete" /\ op.type \in {"update", "reorder"} => it.target # op.target
      /\ op.type = "update" => op.parent = Root
  BY <1>1, <1>4 DEF Coherent, SameRequest
<1>7. op.type \in {"create", "update", "delete", "reorder"}
  <2>1. PICK o \in Seq(Op) : o = ops
    BY DEF Applicable, OpsFit
  <2>2. o[j] \in Op
    BY <2>1
  <2> QED  BY <1>1, <2>1, <2>2 DEF Op, SameRequest
<1>8. CASE Failing(s, u, k + 1)
  <2>1. /\ it.type = "reorder" /\ n = it.target
        /\ u.row[n].st = s.row[n].st /\ u.row[n].parent = s.row[n].parent
        /\ u.row[n].val = s.row[n].val
    BY <1>2, <1>3, <1>4, <1>8 DEF Failing
  <2>2. op.type = "update"
    BY <1>2, <1>3, <1>5, <1>6, <1>7, <2>1
  <2> QED  BY <1>1, <1>2, <1>3, <2>1, <2>2 DEF Spared
<1>9. CASE Updating(s, u, k + 1)
  <2>1. /\ it.type = "update" /\ n = it.target /\ u.row[n].st = "live"
        /\ u.row[n].parent = s.row[n].parent /\ u.row[n].order = s.row[n].order
    BY <1>2, <1>3, <1>4, <1>9 DEF Updating, Others
  <2>2. op.type = "reorder"
    BY <1>2, <1>3, <1>5, <1>6, <1>7, <2>1
  <2> QED  BY <1>1, <1>2, <1>3, <2>1, <2>2 DEF Spared
<1>10. CASE Moving(s, u, k + 1)
  <2>1. /\ it.type = "reorder" /\ n = it.target /\ u.row[n].st = "live"
        /\ u.row[n].val = s.row[n].val
    BY <1>2, <1>3, <1>4, <1>10 DEF Moving, Others
  <2>2. op.type = "update" /\ op.parent = Root
    BY <1>2, <1>3, <1>5, <1>6, <1>7, <2>1
  <2> QED  BY <1>1, <1>2, <1>3, <2>1, <2>2 DEF Spared
<1>11. CASE Deleting(s, u, k + 1)
  <2>1. PICK d \in ServerId : /\ d = it.target /\ it.type = "delete"
                              /\ \A m \in ServerId : IF m \in Below(s.row, d)
                                   THEN u.row[m].st = "gone" ELSE u.row[m] = s.row[m]
    BY <1>4, <1>11 DEF Deleting
  <2>2. n \in Below(s.row, d) /\ u.row[n].st = "gone"
    BY <1>2, <1>3, <2>1
  <2>3. n # d
    BY <1>2, <1>3, <1>5, <1>6, <1>7, <2>1
  <2>4. s.row[n].parent \in Below(s.row, d) /\ s.row[n].parent \in ServerId
    BY <1>2, <2>1, <2>2, <2>3 DEF Below
  <2>5. PICK p \in ServerId : p = s.row[n].parent /\ u.row[p].st = "gone"
    BY <2>1, <2>4
  <2>6. Holds(s.ops, rows, s.ops[j], p)
    BY <1>1, <1>2, <1>3, <2>5, HoldsNow
  <2> QED  BY <1>1, <1>2, <2>2, <2>5, <2>6 DEF Spared
<1>12. CASE Creating(s, u, k + 1)
  BY <1>2, <1>3, <1>12 DEF Creating, Others
<1> QED  BY <1>8, <1>9, <1>10, <1>11, <1>12 DEF Stepped

\* What is deleted stays deleted.
LEMMA GoneStaysGone ==
  ASSUME NEW s, NEW u, NEW k, Stepped(s, u, k), NEW p \in ServerId, s.row[p].st = "gone"
  PROVE  u.row[p].st = "gone"
<1>1. CASE Failing(s, u, k)
  BY <1>1 DEF Failing
<1>2. CASE Updating(s, u, k)
  BY <1>2 DEF Updating, Others
<1>3. CASE Moving(s, u, k)
  BY <1>3 DEF Moving, Others
<1>4. CASE Deleting(s, u, k)
  BY <1>4 DEF Deleting
<1>5. CASE Creating(s, u, k)
  BY <1>5 DEF Creating, Others
<1> QED  BY <1>1, <1>2, <1>3, <1>4, <1>5 DEF Stepped

\* An operation that is applied lasts at first.
LEMMA AppliedLasts ==
  ASSUME NEW ops, NEW rows, Applicable(ops, rows), Coherent(ops), NEW approved,
         NEW k \in Nat, k + 1 \in DOMAIN ops, NEW s, Carried(ops, rows, s, k),
         Effective(ops, rows, approved, s, k), s.ops[k + 1].made = 0,
         NEW u, Stepped(s, u, k + 1), u.ops[k + 1].st = "applied"
  PROVE  Lasts(rows, u, k + 1)
<1>1. PICK it : /\ it = s.ops[k + 1] /\ SameRequest(it, ops[k + 1])
                /\ k + 1 \in DOMAIN s.ops /\ it.parent \in Node
  BY AtHand DEF Op
<1>2. PICK op : op = u.ops[k + 1] /\ SameRequest(op, it)
  BY <1>1 DEF Stepped, Ticked
<1>3. Ticked(s.ops, u.ops, k + 1)
  BY DEF Stepped
<1>4. it.parent = Root \/ ResolveRef(s, it.parent) # Unresolved =>
        Names(u.ops, it.parent, ResolveRef(s, it.parent))
  <2>1. it.parent = Root \/ ResolveRef(s, it.parent) # Unresolved =>
          Names(s.ops, it.parent, ResolveRef(s, it.parent))
    BY <1>1, ResolvedIsNamed
  <2> QED  BY <1>1, <1>3, <2>1, NamesGrow
<1>5. CASE Failing(s, u, k + 1)
  BY <1>5 DEF Failing
<1>6. CASE Updating(s, u, k + 1)
  <2>1. PICK n \in ServerId :
          /\ n = it.target /\ n = op.made /\ it.type = "update" /\ u.row[n].st = "live"
          /\ u.row[n].val = it.val
    BY <1>1, <1>2, <1>6 DEF Updating
  <2>2. it.parent = Root
    BY <1>1, <2>1 DEF Coherent, SameRequest
  <2> QED  BY <1>2, <2>1, <2>2 DEF Lasts, SameRequest
<1>7. CASE Moving(s, u, k + 1)
  <2>1. PICK n \in ServerId :
          /\ n = it.target /\ n = op.made /\ it.type = "reorder" /\ u.row[n].st = "live"
          /\ u.row[n].order = it.order
          /\ it.parent # Root => /\ u.row[n].parent = ResolveRef(s, it.parent)
                                 /\ ResolveRef(s, it.parent) # Unresolved
    BY <1>1, <1>2, <1>7 DEF Moving
  <2>2. it.parent # Root => Names(u.ops, it.parent, u.row[n].parent)
    BY <1>4, <2>1
  <2> QED  BY <1>2, <2>1, <2>2 DEF Lasts, SameRequest
<1>8. CASE Deleting(s, u, k + 1)
  <2>1. PICK n \in ServerId :
          n = it.target /\ n = op.made /\ it.type = "delete" /\ u.row[n].st = "gone"
    BY <1>1, <1>2, <1>8 DEF Deleting, Below
  <2> QED  BY <1>2, <2>1 DEF Lasts, SameRequest
<1>9. CASE Creating(s, u, k + 1)
  <2>1. PICK n \in ServerId :
          /\ n = op.made /\ it.type = "create" /\ u.row[n].st = "live" /\ s.row[n].st = "unborn"
          /\ u.row[n].order = it.order /\ u.row[n].val = it.val
          /\ u.row[n].parent = ResolveRef(s, it.parent)
          /\ it.parent # Root => ResolveRef(s, it.parent) # Unresolved
    BY <1>1, <1>2, <1>9 DEF Creating
  <2>2. Names(u.ops, it.parent, u.row[n].parent)
    BY <1>4, <2>1
  <2>3. rows[n].st = "unborn"
    BY <2>1 DEF Carried
  <2> QED  BY <1>2, <2>1, <2>2, <2>3 DEF Lasts, SameRequest
<1> QED  BY <1>5, <1>6, <1>7, <1>8, <1>9 DEF Stepped

\* One more operation is handled.
LEMMA StepLasts ==
  ASSUME NEW ops, NEW rows, Applicable(ops, rows), Coherent(ops), NEW approved,
         NEW k \in Nat, k + 1 \in DOMAIN ops, k + 1 \in approved,
         NEW s, Carried(ops, rows, s, k), Effective(ops, rows, approved, s, k),
         NEW u, Stepped(s, u, k + 1)
  PROVE  Effective(ops, rows, approved, u, k + 1)
<1>1. /\ DOMAIN ops \subseteq Int /\ DOMAIN s.ops = DOMAIN ops
      /\ k + 1 > k /\ k + 1 \in DOMAIN s.ops
  BY DEF Applicable, OpsFit, Carried
<1>2. s.ops[k + 1].made = 0 /\ s.ops[k + 1].st = "pending"
  BY <1>1 DEF Effective
<1>3. Ticked(s.ops, u.ops, k + 1) /\ \A j \in DOMAIN ops : j # k + 1 => u.ops[j] = s.ops[j]
  BY <1>1 DEF Stepped, Ticked
<1>4. u.ops[k + 1].st \in {"applied", "failed"}
  BY DEF Stepped, Failing, Updating, Moving, Deleting, Creating
<1>5. \A x, q : Names(s.ops, x, q) => Names(u.ops, x, q)
  BY <1>1, <1>2, <1>3, NamesGrow
<1>6. ASSUME NEW j \in DOMAIN ops
      PROVE  /\ j > k + 1 => /\ u.ops[j].made = 0
                             /\ u.ops[j].st = IF j \in approved THEN "pending" ELSE "rejected"
             /\ j <= k + 1 => u.ops[j].st # "pending"
  <2>1. CASE j = k + 1
    BY <1>1, <1>4, <2>1
  <2>2. CASE j # k + 1
    <3>1. u.ops[j] = s.ops[j] /\ (j > k + 1 => j > k) /\ (j <= k + 1 => j <= k)
      BY <1>1, <1>3, <2>2
    <3> QED  BY <3>1 DEF Effective
  <2> QED  BY <2>1, <2>2
<1>7. ASSUME NEW x \in NewKey, u.refs[x] # Unresolved PROVE Names(u.ops, x, u.refs[x])
  <2>1. CASE u.refs[x] = s.refs[x]
    BY <1>5, <1>7, <2>1 DEF Effective
  <2>2. CASE u.refs[x] # s.refs[x]
    <3>1. Creating(s, u, k + 1)
      BY <2>2 DEF Stepped, Failing, Updating, Moving, Deleting
    <3>2. x = s.ops[k + 1].ref /\ u.refs[x] = u.ops[k + 1].made
      BY <2>2, <3>1 DEF Creating
    <3>3. u.ops[k + 1].ref = x /\ k + 1 \in DOMAIN u.ops /\ IsNewKey(x)
      BY <1>1, <1>3, <3>2 DEF Ticked, SameRequest, NewKey
    <3> QED  BY <1>7, <3>2, <3>3 DEF Names
  <2> QED  BY <2>1, <2>2
<1>8. ASSUME NEW n \in ServerId, u.row[n].st = "live", rows[n].st # "unborn",
             u.row[n].parent \in ServerId
      PROVE  Hangs(rows, u, n)
  <2>1. CASE s.row[n].st = "live" /\ u.row[n].parent = s.row[n].parent
    <3>1. Hangs(rows, s, n)
      BY <1>8, <2>1 DEF Effective
    <3>2. CASE s.row[n].parent = rows[n].parent
      BY <2>1, <3>2 DEF Hangs
    <3>3. CASE s.row[n].parent # rows[n].parent
      <4>1. PICK i \in DOMAIN s.ops :
              /\ s.ops[i].st = "applied" /\ s.ops[i].target = n
              /\ Names(s.ops, s.ops[i].parent, s.row[n].parent)
        BY <3>1, <3>3 DEF Hangs
      <4>2. i # k + 1 /\ u.ops[i] = s.ops[i] /\ i \in DOMAIN u.ops
        BY <1>1, <1>2, <1>3, <4>1 DEF Ticked
      <4>3. Names(u.ops, u.ops[i].parent, u.row[n].parent)
        BY <1>5, <2>1, <4>1, <4>2
      <4> QED  BY <4>1, <4>2, <4>3 DEF Hangs
    <3> QED  BY <3>2, <3>3
  <2>2. CASE ~ (s.row[n].st = "live" /\ u.row[n].parent = s.row[n].parent)
    <3>1. ~ (Creating(s, u, k + 1) /\ n = u.ops[k + 1].made)
      BY <1>8 DEF Creating, Carried
    <3>2. Moving(s, u, k + 1)
      <4>1. CASE Failing(s, u, k + 1)
        BY <1>8, <2>2, <4>1 DEF Failing
      <4>2. CASE Updating(s, u, k + 1)
        BY <1>8, <2>2, <4>2 DEF Updating, Others
      <4>3. CASE Deleting(s, u, k + 1)
        BY <1>8, <2>2, <4>3 DEF Deleting
      <4>4. CASE Creating(s, u, k + 1)
        BY <1>8, <2>2, <3>1, <4>4 DEF Creating, Others
      <4> QED  BY <4>1, <4>2, <4>3, <4>4 DEF Stepped
    <3>3. /\ n = s.ops[k + 1].target /\ u.ops[k + 1].st = "applied"
          /\ s.ops[k + 1].parent # Root
          /\ u.row[n].parent = ResolveRef(s, s.ops[k + 1].parent)
          /\ ResolveRef(s, s.ops[k + 1].parent) # Unresolved
      BY <1>8, <2>2, <3>2 DEF Moving, Others
    <3>4. s.ops[k + 1].parent \in Node
      BY AtHand DEF Op
    <3>5. Names(s.ops, s.ops[k + 1].parent, u.row[n].parent)
      BY <3>3, <3>4, ResolvedIsNamed
    <3>6. /\ u.ops[k + 1].target = n /\ u.ops[k + 1].parent = s.ops[k + 1].parent
          /\ k + 1 \in DOMAIN u.ops
      BY <1>1, <1>3, <3>3 DEF Ticked, SameRequest
    <3>7. Names(u.ops, u.ops[k + 1].parent, u.row[n].parent)
      BY <1>5, <3>5, <3>6
    <3> QED  BY <3>3, <3>6, <3>7 DEF Hangs
  <2> QED  BY <2>1, <2>2
<1>9. ASSUME NEW j \in DOMAIN ops, u.ops[j].st = "applied" PROVE Lasts(rows, u, j)
  <2>1. CASE j = k + 1
    BY <1>2, <1>9, <2>1, AppliedLasts
  <2>2. CASE j # k + 1
    <3>1. s.ops[j].st = "applied"
      BY <1>3, <1>9, <2>2
    <3>2. Spared(rows, s, u, j)
      BY <2>2, <3>1, StepSpares
    <3>3. Lasts(rows, s, j)
      BY <3>1 DEF Effective
    <3>4. s.ops[k + 1].st # "applied"
      BY <1>2
    <3>5. \A p \in ServerId : s.row[p].st = "gone" => u.row[p].st = "gone"
      BY GoneStaysGone
    <3>6. j \in DOMAIN s.ops
      BY <1>1
    <3> QED  BY <1>1, <1>2, <1>3, <2>2, <3>2, <3>3, <3>4, <3>5, <3>6, Lasting
  <2> QED  BY <2>1, <2>2
<1> QED  BY <1>6, <1>7, <1>8, <1>9 DEF Effective

\* One more operation was rejected.
LEMMA SkipLasts ==
  ASSUME NEW ops, NEW rows, Applicable(ops, rows), NEW approved,
         NEW k \in Nat, k + 1 \in DOMAIN ops, k + 1 \notin approved,
         NEW s, Effective(ops, rows, approved, s, k)
  PROVE  Effective(ops, rows, approved, s, k + 1)
<1>1. DOMAIN ops \subseteq Int
  BY DEF Applicable, OpsFit
<1>2. s.ops[k + 1].st = "rejected"
  BY DEF Effective
<1>3. \A j \in DOMAIN ops : /\ j > k + 1 => j > k
                            /\ j <= k + 1 => j <= k \/ j = k + 1
  BY <1>1
<1> QED  BY <1>2, <1>3 DEF Effective

\* What the handlers carry along, one operation after the other.
Applied(start, approved, n, f) ==
  f = [k \in 0 .. n |->
         IF k = 0 THEN start
         ELSE IF f[k - 1].broken \/ k \notin approved THEN f[k - 1]
         ELSE ApplyOne(f[k - 1], k)]

LEMMA ApplyingEnds ==
  ASSUME NEW start, NEW approved, NEW n \in Nat
  PROVE  \E f : Applied(start, approved, n, f)
<1> DEFINE Step(t, k) == IF t.broken \/ k \notin approved THEN t ELSE ApplyOne(t, k)
           T == {k \in Nat : \E f : Applied(start, approved, k, f)}
<1>1. 0 \in T
  <2> DEFINE e == [i \in 0 .. 0 |-> start]
  <2>1. e = [i \in 0 .. 0 |-> IF i = 0 THEN start ELSE Step(e[i - 1], i)]
    <3>1. \A i \in 0 .. 0 : i = 0
      OBVIOUS
    <3> QED  BY <3>1
  <2> HIDE DEF e
  <2>2. Applied(start, approved, 0, e)
    BY <2>1 DEF Applied
  <2> QED  BY <2>2
<1>2. ASSUME NEW k \in Nat, k \in T PROVE k + 1 \in T
  <2>1. PICK f : Applied(start, approved, k, f)
    BY <1>2
  <2>2. \A i \in 0 .. k : f[i] = IF i = 0 THEN start ELSE Step(f[i - 1], i)
    BY <2>1 DEF Applied
  <2> HIDE DEF Step
  <2> DEFINE g == [i \in 0 .. k + 1 |-> IF i = k + 1 THEN Step(f[k], i) ELSE f[i]]
  <2>3. \A i \in 0 .. k + 1 : g[i] = IF i = 0 THEN start ELSE Step(g[i - 1], i)
    <3> SUFFICES ASSUME NEW i \in 0 .. k + 1
                 PROVE  g[i] = IF i = 0 THEN start ELSE Step(g[i - 1], i)
      OBVIOUS
    <3>1. CASE i = k + 1
      <4>1. i # 0 /\ i - 1 \in 0 .. k + 1 /\ i - 1 # k + 1 /\ i - 1 = k
        BY <3>1
      <4> QED  BY <3>1, <4>1
    <3>2. CASE i # k + 1
      <4>1. /\ i \in 0 .. k
            /\ i # 0 => i - 1 \in 0 .. k + 1 /\ i - 1 # k + 1
        BY <3>2
      <4> QED  BY <2>2, <3>2, <4>1
    <3> QED  BY <3>1, <3>2
  <2>4. g = [i \in 0 .. k + 1 |-> g[i]]
    OBVIOUS
  <2> HIDE DEF g
  <2>5. g = [i \in 0 .. k + 1 |-> IF i = 0 THEN start ELSE Step(g[i - 1], i)]
    BY <2>3, <2>4
  <2>6. Applied(start, approved, k + 1, g)
    BY <2>5 DEF Applied, Step
  <2> QED  BY <2>6
<1> HIDE DEF T
<1>3. Nat \subseteq T
  BY <1>1, <1>2, SetInduction
<1> QED  BY <1>3 DEF T

\* A review starts from the rows as they are and handles one operation after the other.
LEMMA ReviewUnfolds ==
  ASSUME NEW ops, Applicable(ops, row), IdsLeft(ops), NEW approved,
         NEW after, after = ApplyChangeOperations(ops, approved)
  PROVE  \E n, f :
           /\ n \in Nat /\ n = Len(ops) /\ DOMAIN ops = 1 .. n /\ after = f[n]
           /\ ~ f[0].broken /\ f[0].row = row /\ Carried(ops, row, f[0], 0)
           /\ Coherent(ops) => Effective(ops, row, approved, f[0], 0)
           /\ \A k \in 1 .. n : f[k] = IF f[k - 1].broken \/ k \notin approved THEN f[k - 1]
                                      ELSE ApplyOne(f[k - 1], k)
<1>1. PICK n \in Nat : n = Len(ops) /\ DOMAIN ops = 1 .. n
  BY DEF Applicable, OpsFit
<1>2. PICK decided \in Seq(Op) :
        /\ decided = [k \in DOMAIN ops |-> IF k \in approved THEN ops[k]
                                           ELSE [ops[k] EXCEPT !.st = "rejected"]]
        /\ DOMAIN decided = DOMAIN ops
        /\ \A k \in DOMAIN ops :
             /\ SameRequest(decided[k], ops[k]) /\ decided[k].made = ops[k].made
             /\ decided[k].st = IF k \in approved THEN ops[k].st ELSE "rejected"
  <2> DEFINE D(k) == IF k \in approved THEN ops[k] ELSE [ops[k] EXCEPT !.st = "rejected"]
         Undecided(k) == /\ SameRequest(D(k), ops[k]) /\ D(k).made = ops[k].made
                         /\ D(k).st = IF k \in approved THEN ops[k].st ELSE "rejected"
  <2>1. ASSUME NEW k \in DOMAIN ops PROVE D(k) \in Op /\ Undecided(k)
    <3>1. PICK op \in Op : op = ops[k]
      BY DEF Applicable, OpsFit
    <3>2. /\ [op EXCEPT !.st = "rejected"] \in Op /\ SameRequest([op EXCEPT !.st = "rejected"], op)
          /\ [op EXCEPT !.st = "rejected"].st = "rejected"
          /\ [op EXCEPT !.st = "rejected"].made = op.made
      BY DEF Op, OpStatus, SameRequest
    <3>3. SameRequest(op, op)
      BY DEF SameRequest
    <3> QED  BY <3>1, <3>2, <3>3
  <2> HIDE DEF D, Op, Undecided
  <2>2. [k \in 1 .. n |-> D(k)] \in Seq(Op)
    BY <1>1, <2>1
  <2>3. PICK d : d = [k \in DOMAIN ops |-> D(k)]
    OBVIOUS
  <2>4. d \in Seq(Op) /\ DOMAIN d = DOMAIN ops /\ \A k \in DOMAIN ops : d[k] = D(k) /\ Undecided(k)
    BY <1>1, <2>1, <2>2, <2>3
  <2>5. \A k \in DOMAIN ops : /\ SameRequest(d[k], ops[k]) /\ d[k].made = ops[k].made
                              /\ d[k].st = IF k \in approved THEN ops[k].st ELSE "rejected"
    BY <2>4 DEF Undecided
  <2>6. d = [k \in DOMAIN ops |-> IF k \in approved THEN ops[k]
                                  ELSE [ops[k] EXCEPT !.st = "rejected"]]
    BY <2>3 DEF D
  <2> QED  BY <2>4, <2>5, <2>6
<1>3. PICK start : start = [row |-> row, refs |-> [m \in NewKey |-> Unresolved],
                            ops |-> decided, broken |-> FALSE]
  OBVIOUS
<1>4. PICK f : f = CHOOSE g : Applied(start, approved, n, g)
  OBVIOUS
<1>5. after = f[n]
  BY <1>1, <1>2, <1>3, <1>4 DEF ApplyChangeOperations, Applied, NewKey
<1>6. Applied(start, approved, n, f)
  BY <1>4, ApplyingEnds
<1>7. /\ f[0] = start
      /\ \A k \in 1 .. n : f[k] = IF f[k - 1].broken \/ k \notin approved THEN f[k - 1]
                                  ELSE ApplyOne(f[k - 1], k)
  <2>1. \A k \in 0 .. n : f[k] = IF k = 0 THEN start
                                 ELSE IF f[k - 1].broken \/ k \notin approved THEN f[k - 1]
                                 ELSE ApplyOne(f[k - 1], k)
    BY <1>6 DEF Applied
  <2>2. 0 \in 0 .. n /\ \A k \in 1 .. n : k \in 0 .. n /\ k # 0
    OBVIOUS
  <2> QED  BY <2>1, <2>2
<1>8. Carried(ops, row, start, 0)
  <2>1. /\ start.row = row /\ start.ops = decided
        /\ start.refs = [m \in NewKey |-> Unresolved]
    BY <1>3
  <2>2. RowsFit(row) /\ row \in [ServerId -> Row]
    BY DEF Applicable, RowsFit
  <2>3. start \in Applying
    <3>1. [m \in NewKey |-> Unresolved] \in [NewKey -> Node]
      BY NodesAreNumbers DEF Unresolved
    <3> HIDE DEF Op, Row
    <3> QED  BY <1>3, <2>2, <3>1 DEF Applying
  <2>4. \A x \in NewKey : start.refs[x] = Unresolved
    BY <2>1
  <2>5. ASSUME NEW kind \in {Chapter, Lesson, Tab}
        PROVE  Cardinality(Creates(ops, kind, 0)) <= Cardinality(Unborn(row, kind))
    <3>1. Creates(ops, kind, 0) = {k \in DOMAIN ops : ops[k].type = "create" /\ ops[k].ref \in kind}
      BY <1>1 DEF Creates
    <3>2. Unborn(row, kind) = {m \in kind \cap ServerId : row[m].st = "unborn"}
      BY DEF Unborn
    <3> QED  BY <3>1, <3>2 DEF IdsLeft
  <2> QED  BY <1>2, <2>1, <2>2, <2>3, <2>4, <2>5 DEF Carried
<1>9. Coherent(ops) => Effective(ops, row, approved, start, 0)
  <2> SUFFICES ASSUME Coherent(ops) PROVE Effective(ops, row, approved, start, 0)
    OBVIOUS
  <2>1. start.row = row /\ start.ops = decided /\ \A x \in NewKey : start.refs[x] = Unresolved
    BY <1>3
  <2>2. \A j \in DOMAIN ops :
          /\ j > 0 /\ ~ (j <= 0) /\ start.ops[j].made = 0
          /\ start.ops[j].st = IF j \in approved THEN "pending" ELSE "rejected"
    BY <1>1, <1>2, <2>1 DEF Coherent
  <2>3. \A m : Hangs(row, start, m)
    BY <2>1 DEF Hangs
  <2> QED  BY <2>1, <2>2, <2>3 DEF Effective
<1>10. ~ start.broken /\ start.row = row
  BY <1>3
<1> QED  BY <1>1, <1>5, <1>7, <1>8, <1>9, <1>10

\* What a review carries from its first operation to its last.
LEMMA ReviewCarries ==
  ASSUME NEW ops, Applicable(ops, row), IdsLeft(ops), NEW approved,
         NEW after, after = ApplyChangeOperations(ops, approved), ~ after.broken
  PROVE  /\ Carried(ops, row, after, Len(ops)) /\ Len(ops) \in Nat
         /\ Coherent(ops) => Effective(ops, row, approved, after, Len(ops))
<1>1. PICK n, f :
        /\ n \in Nat /\ n = Len(ops) /\ DOMAIN ops = 1 .. n /\ after = f[n]
        /\ ~ f[0].broken /\ f[0].row = row /\ Carried(ops, row, f[0], 0)
        /\ Coherent(ops) => Effective(ops, row, approved, f[0], 0)
        /\ \A k \in 1 .. n : f[k] = IF f[k - 1].broken \/ k \notin approved THEN f[k - 1]
                                   ELSE ApplyOne(f[k - 1], k)
  BY ReviewUnfolds
<1> DEFINE Good(s, k) == /\ Carried(ops, row, s, k)
                         /\ Coherent(ops) => Effective(ops, row, approved, s, k)
           T == {k \in Nat : k <= n => f[k].broken \/ Good(f[k], k)}
<1>2. 0 \in T
  BY <1>1
<1>3. ASSUME NEW k \in Nat, k \in T PROVE k + 1 \in T
  <2> SUFFICES ASSUME k + 1 <= n PROVE f[k + 1].broken \/ Good(f[k + 1], k + 1)
    OBVIOUS
  <2>1. /\ k + 1 \in 1 .. n /\ k + 1 \in DOMAIN ops /\ (k + 1) - 1 = k
        /\ f[k].broken \/ Good(f[k], k)
    BY <1>1, <1>3
  <2>2. f[k + 1] = IF f[k].broken \/ k + 1 \notin approved THEN f[k] ELSE ApplyOne(f[k], k + 1)
    BY <1>1, <2>1
  <2>3. CASE f[k].broken
    BY <2>2, <2>3
  <2>4. CASE ~ f[k].broken /\ k + 1 \notin approved
    BY <2>1, <2>2, <2>4, SkipCarries, SkipLasts
  <2>5. CASE ~ f[k].broken /\ k + 1 \in approved
    BY <2>1, <2>2, <2>5, StepCarries, StepLasts
  <2> QED  BY <2>3, <2>4, <2>5
<1> HIDE DEF T
<1>4. Nat \subseteq T
  BY <1>2, <1>3, SetInduction
<1>5. f[n].broken \/ Good(f[n], n)
  BY <1>1, <1>4 DEF T
<1> QED  BY <1>1, <1>5

-----------------------------------------------------------------------------
(* The invariant *)

Requests == [st : RequestStatus, ops : Seq(Op), current : BOOLEAN, proposal : Tree]
Boards == [stage : {"closed", "loading", "ready"}, edit : {0} \cup Request, ops : Seq(Op),
           current : BOOLEAN, original : Tree, working : Tree]

\* A request that waits for its review can be applied to the rows as they are.
Reviewable(q, rows) == q.st = "pending" => Applicable(q.ops, rows) /\ Coherent(q.ops)

\* The rows fit; requests hold trees and operations that fit, and a pending one can be
\* applied to the rows as they are; the page shows trees.
StudioInv ==
  /\ RowsFit(row)
  /\ req \in [Request -> Requests]
  /\ \A r \in Request : /\ OpsFit(req[r].ops) /\ Sound(req[r].proposal)
                        /\ Reviewable(req[r], row)
  /\ board \in Boards
  /\ OpsFit(board.ops) /\ Sound(board.original) /\ Sound(board.working)
  /\ edits \in 0 .. MaxEdits

LEMMA EmptyOps == OpsFit(<<>>) /\ <<>> \in Seq(Op)
  BY DEF OpsFit

LEMMA InitHolds == Init => StudioInv
<1> SUFFICES ASSUME Init PROVE StudioInv
  OBVIOUS
<1>1. RowsFit(row)
  <2>1. \A n \in DOMAIN Course :
          /\ n \in ServerId /\ Course[n].st = "live" /\ Course[n].order \in Nat
          /\ Course[n].parent \in {Root} \cup DOMAIN Course /\ MayHold(Course[n].parent, n)
          /\ Course[n] \in Row
    <3> SUFFICES ASSUME NEW n \in DOMAIN Course
                 PROVE  /\ n \in ServerId /\ Course[n].st = "live" /\ Course[n].order \in Nat
                        /\ Course[n].parent \in {Root} \cup DOMAIN Course
                        /\ MayHold(Course[n].parent, n) /\ Course[n] \in Row
      OBVIOUS
    <3>1. /\ Course[n] \in [st : {"live"}, parent : {Root} \cup DOMAIN Course,
                            order : Nat, val : {Course[n].val}]
          /\ n \in ServerId /\ MayHold(Course[n].parent, n) /\ DOMAIN Course \subseteq ServerId
      BY StudioCourse
    <3>2. Course[n].val \in Content
      BY DEF Content
    <3>3. Course[n].parent \in Node
      BY <3>1, NodesAreNumbers
    <3>4. Course[n] \in Row
      BY <3>1, <3>2, <3>3 DEF Row
    <3> QED  BY <3>1, <3>4
  <2>2. NoRow \in Row /\ NoRow.st = "unborn"
    BY NodesAreNumbers DEF NoRow, Row, Content
  <2>3. \A n \in ServerId : row[n] = IF n \in DOMAIN Course THEN Course[n] ELSE NoRow
    BY DEF Init
  <2>4. row \in [ServerId -> Row]
    <3>1. row = [n \in ServerId |-> row[n]]
      BY DEF Init
    <3>2. \A n \in ServerId : row[n] \in Row
      BY <2>1, <2>2, <2>3
    <3> HIDE DEF Row
    <3> QED  BY <3>1, <3>2
  <2>5. ASSUME NEW n \in ServerId, row[n].st = "live"
        PROVE  MayHold(row[n].parent, n) /\ (row[n].parent = Root \/ Live(row, row[n].parent))
    <3>1. n \in DOMAIN Course /\ row[n] = Course[n]
      BY <2>2, <2>3, <2>5
    <3>2. \A p \in DOMAIN Course : Live(row, p)
      BY <2>1, <2>3 DEF Live
    <3> QED  BY <2>1, <3>1, <3>2
  <2> QED  BY <2>4, <2>5 DEF RowsFit
<1>2. EmptyTree \in Tree /\ Sound(EmptyTree)
  BY EmptyIsSound DEF Sound, Arranged
<1>3. NoRequest \in Requests /\ NoRequest.ops = <<>> /\ NoRequest.st = "none"
      /\ NoRequest.proposal = EmptyTree
  <2> HIDE DEF Tree, Op
  <2> QED  BY <1>2, EmptyOps DEF NoRequest, Requests, RequestStatus
<1>4. Closed \in Boards /\ Closed.ops = <<>> /\ Closed.original = EmptyTree
      /\ Closed.working = EmptyTree
  <2> HIDE DEF Tree, Op
  <2> QED  BY <1>2, EmptyOps DEF Closed, Boards
<1>5. req \in [Request -> Requests]
      /\ \A r \in Request : /\ OpsFit(req[r].ops) /\ Sound(req[r].proposal)
                            /\ req[r].st # "pending"
  <2> HIDE DEF Requests
  <2> QED  BY <1>2, <1>3, EmptyOps DEF Init
<1>6. board \in Boards /\ OpsFit(board.ops) /\ Sound(board.original) /\ Sound(board.working)
  BY <1>2, <1>4, EmptyOps DEF Init
<1>7. edits \in 0 .. MaxEdits
  BY StudioCourse DEF Init
<1> QED  BY <1>1, <1>5, <1>6, <1>7 DEF StudioInv, Reviewable

\* The page and the number of edits may change as long as the page still fits.
BoardFits(b) ==
  b \in Boards /\ OpsFit(b.ops) /\ Sound(b.original) /\ Sound(b.working)

LEMMA ClosedFits == BoardFits(Closed) /\ NoRequest \in Requests
                    /\ OpsFit(NoRequest.ops) /\ Sound(NoRequest.proposal)
<1>1. EmptyTree \in Tree /\ Sound(EmptyTree)
  BY EmptyIsSound DEF Sound, Arranged
<1> HIDE DEF Tree, Op
<1> QED  BY <1>1, EmptyOps DEF NoRequest, Requests, RequestStatus, Closed, Boards, BoardFits

LEMMA OnlyBoard ==
  StudioInv /\ UNCHANGED <<row, req>> /\ BoardFits(board') /\ edits' \in 0 .. MaxEdits
    => StudioInv'
  BY DEF StudioInv, BoardFits

\* The page shows the tree of the course and a tree to work on.
LEMMA ShownFits ==
  ASSUME StudioInv, NEW t, Sound(t)
  PROVE  BoardFits(Shown(t))
<1>1. PICK o \in Tree : o = ServerTree(row) /\ Sound(o)
  BY ServerTreeIsSound DEF StudioInv, Sound, Arranged
<1>2. PICK w \in Tree : w = t /\ Sound(w)
  BY DEF Sound, Arranged
<1>3. board \in Boards /\ OpsFit(board.ops)
  BY DEF StudioInv
<1>4. PICK b : b = [board EXCEPT !.stage = "ready", !.current = TRUE, !.original = o, !.working = w]
  OBVIOUS
<1>5. b \in Boards /\ b.ops = board.ops /\ b.original = o /\ b.working = w
  <2> HIDE DEF Tree, Op
  <2> QED  BY <1>3, <1>4 DEF Boards
<1>6. Shown(t) = b
  BY <1>1, <1>2, <1>4 DEF Shown
<1> QED  BY <1>1, <1>2, <1>3, <1>5, <1>6 DEF BoardFits

LEMMA OpenStudioKeeps == StudioInv /\ OpenStudio => StudioInv'
<1> SUFFICES ASSUME StudioInv, OpenStudio PROVE StudioInv'
  OBVIOUS
<1>1. Sound(ServerTree(row))
  BY ServerTreeIsSound DEF StudioInv
<1>2. BoardFits(Shown(ServerTree(row)))
  BY <1>1, ShownFits
<1>3. BoardFits(board')
  BY <1>2 DEF OpenStudio
<1> QED  BY <1>3, OnlyBoard DEF OpenStudio, StudioInv

LEMMA OpenRequestKeeps ==
  ASSUME StudioInv, NEW r \in Request, OpenRequest(r) PROVE StudioInv'
<1>1. PICK o \in Seq(Op) : o = req[r].ops /\ OpsFit(o)
  BY DEF StudioInv, OpsFit
<1>2. PICK b : b = [Closed EXCEPT !.stage = "loading", !.edit = r, !.ops = o]
  OBVIOUS
<1>3. b \in Boards /\ b.ops = o /\ b.original = Closed.original /\ b.working = Closed.working
  <2>1. Closed \in Boards
    BY ClosedFits DEF BoardFits
  <2> HIDE DEF Tree, Op, Request
  <2> QED  BY <1>2, <2>1 DEF Boards
<1>4. BoardFits(b)
  BY <1>1, <1>3, ClosedFits DEF BoardFits
<1>5. board' = b
  BY <1>1, <1>2 DEF OpenRequest
<1> QED  BY <1>4, <1>5, OnlyBoard DEF OpenRequest, StudioInv

LEMMA LoadTreeKeeps == StudioInv /\ LoadTree => StudioInv'
<1> SUFFICES ASSUME StudioInv, LoadTree PROVE StudioInv'
  OBVIOUS
<1>1. PICK t : t = ServerTree(row) /\ Sound(t) /\ \A n \in Nodes(t) : n > 0
  BY ServerTreeIsSound, NodesAreNumbers DEF StudioInv
<1>2. Sound(ProjectOperations(t, board.ops))
  BY <1>1, ReplayIsSound DEF StudioInv
<1>3. BoardFits(Shown(ProjectOperations(t, board.ops)))
  BY <1>2, ShownFits
<1>4. BoardFits(board')
  BY <1>1, <1>3 DEF LoadTree
<1> QED  BY <1>4, OnlyBoard DEF LoadTree, StudioInv

LEMMA LeaveKeeps == StudioInv /\ Leave => StudioInv'
  BY ClosedFits, OnlyBoard DEF Leave, StudioInv

\* An edit changes the working tree only, in which no node of the server appears.
Edited ==
  /\ SeenIn(board'.working) \subseteq SeenIn(board.working)
  /\ board'.stage = board.stage /\ board'.current = board.current
  /\ board'.original = board.original /\ UNCHANGED <<row, req>>

LEMMA EditKeeps ==
  ASSUME StudioInv, NEW t, Sound(t), SeenIn(t) \subseteq SeenIn(board.working), Edit(t)
  PROVE  StudioInv' /\ Edited
<1>1. PICK w \in Tree : w = t /\ Sound(w)
  BY DEF Sound, Arranged
<1>2. PICK b : b = [board EXCEPT !.working = w]
  OBVIOUS
<1>3. /\ b \in Boards /\ b.ops = board.ops /\ b.original = board.original /\ b.working = w
      /\ b.stage = board.stage /\ b.current = board.current
  <2>1. board \in Boards
    BY DEF StudioInv
  <2> HIDE DEF Tree, Op
  <2> QED  BY <1>2, <2>1 DEF Boards
<1>4. BoardFits(b)
  BY <1>1, <1>3 DEF BoardFits, StudioInv
<1>5. board' = b /\ edits' \in 0 .. MaxEdits
  BY <1>1, <1>2, StudioCourse DEF Edit, StudioInv
<1>6. StudioInv'
  BY <1>4, <1>5, OnlyBoard DEF Edit
<1>7. SeenIn(w) \subseteq SeenIn(board.working) /\ UNCHANGED <<row, req>>
  BY <1>1 DEF Edit
<1> QED  BY <1>3, <1>5, <1>6, <1>7 DEF Edited

LEMMA AddNodeKeeps ==
  ASSUME StudioInv, NEW kind \in {Chapter, Lesson, Tab}, NEW p \in Node, AddNode(kind, p)
  PROVE  StudioInv' /\ Edited
<1>1. PICK t : t = board.working /\ Sound(t)
  BY DEF StudioInv
<1>2. PICK free : free = {n \in kind : IsNewKey(n) /\ n \notin Nodes(t)} /\ free # {}
  BY <1>1 DEF AddNode
<1>3. PICK n : n = CHOOSE k \in free : \A j \in free : j <= k
  OBVIOUS
<1>4. n \in kind /\ n \notin Nodes(t) /\ IsNewKey(n)
  <2>1. free \in SUBSET Node /\ \A i \in free : IsNewKey(i)
    BY <1>2, NodesAreNumbers
  <2>2. n \in free
    BY <1>2, <1>3, <2>1, FreeKey
  <2> QED  BY <1>2, <2>2
<1>5. MayHold(p, n) /\ (p = Root \/ p \in Nodes(t))
  <2>1. \/ kind = Chapter /\ p = Root
        \/ kind = Lesson /\ p \in Nodes(t) \cap Chapter
        \/ kind = Tab /\ p \in Nodes(t) \cap Lesson
    BY <1>1 DEF AddNode
  <2> QED  BY <1>4, <2>1 DEF MayHold
<1>6. PICK u : u = Grown(t, p, n) /\ Sound(u) /\ Nodes(u) = Nodes(t) \cup {n}
  BY <1>1, <1>4, <1>5, AddedIsSound
<1>7. Edit(u)
  BY <1>1, <1>2, <1>3, <1>6 DEF AddNode, Grown
<1>8. SeenIn(u) \subseteq SeenIn(board.working)
  BY <1>1, <1>4, <1>6 DEF SeenIn
<1> QED  BY <1>6, <1>7, <1>8, EditKeeps

LEMMA UpdateSelectedKeeps ==
  ASSUME StudioInv, NEW n \in Node, NEW v \in Value, UpdateSelected(n, v) PROVE StudioInv' /\ Edited
<1>1. PICK t : t = board.working /\ Sound(t)
  BY DEF StudioInv
<1>2. n \in Nodes(t) /\ v \in Content
  BY <1>1 DEF UpdateSelected, Content
<1>3. PICK u : u = [t EXCEPT !.val[n] = v] /\ Sound(u) /\ Nodes(u) = Nodes(t)
  BY <1>1, <1>2, UpdatedIsSound
<1>4. Edit(u)
  BY <1>1, <1>3 DEF UpdateSelected
<1>5. SeenIn(u) \subseteq SeenIn(board.working)
  BY <1>1, <1>3 DEF SeenIn
<1> QED  BY <1>3, <1>4, <1>5, EditKeeps

LEMMA RemoveSelectedKeeps ==
  ASSUME StudioInv, NEW n \in Node, RemoveSelected(n) PROVE StudioInv' /\ Edited
<1>1. PICK t : t = board.working /\ Sound(t)
  BY DEF StudioInv
<1>2. PICK u : u = Prune(Without(t, n)) /\ Sound(u) /\ Nodes(u) \subseteq Nodes(t)
  BY <1>1, RemovedIsSound
<1>3. Edit(u)
  BY <1>1, <1>2 DEF RemoveSelected
<1>4. SeenIn(u) \subseteq SeenIn(board.working)
  BY <1>1, <1>2 DEF SeenIn
<1> QED  BY <1>2, <1>3, <1>4, EditKeeps

LEMMA MoveSelectedKeeps ==
  ASSUME StudioInv, NEW n \in Node, NEW p \in Node, MoveSelected(n, p) PROVE StudioInv' /\ Edited
<1>1. PICK t : t = board.working /\ Sound(t)
  BY DEF StudioInv
<1>2. n \in Nodes(t) /\ p \in Nodes(t) /\ MayHold(p, n)
  BY <1>1 DEF MoveSelected, MayHold
<1>3. PICK u : u = [Without(t, n) EXCEPT !.kids[p] = Append(@, n)] /\ Sound(u)
               /\ Nodes(u) = Nodes(t)
  BY <1>1, <1>2, MovedToIsSound
<1>4. Edit(u)
  BY <1>1, <1>3 DEF MoveSelected
<1>5. SeenIn(u) \subseteq SeenIn(board.working)
  BY <1>1, <1>3 DEF SeenIn
<1> QED  BY <1>3, <1>4, <1>5, EditKeeps

LEMMA DragEndKeeps ==
  ASSUME StudioInv, NEW n \in Node, NEW over \in Node, DragEnd(n, over) PROVE StudioInv' /\ Edited
<1>1. PICK t : t = board.working /\ Sound(t)
  BY DEF StudioInv
<1>2. n \in Nodes(t) /\ over \in Nodes(t)
  BY <1>1 DEF DragEnd
<1>3. PICK kind \in {Chapter, Lesson, Tab} : n \in kind /\ over \in kind
  BY DEF DragEnd
<1>4. PICK u : u = DroppedOn(t, n, over) /\ Sound(u) /\ Nodes(u) = Nodes(t)
  BY <1>1, <1>2, <1>3, DroppedIsSound
<1>5. Edit(u)
  BY <1>1, <1>4 DEF DragEnd, DroppedOn
<1>6. SeenIn(u) \subseteq SeenIn(board.working)
  BY <1>1, <1>4 DEF SeenIn
<1> QED  BY <1>4, <1>5, <1>6, EditKeeps

LEMMA SubmitKeeps ==
  ASSUME StudioInv, NEW r \in Request, Submit(r) PROVE StudioInv'
<1>1. PICK raw : raw = BuildOperations(board.original, board.working)
  OBVIOUS
<1>2. \A k \in DOMAIN raw : raw[k].type = "create" \/ Live(row, raw[k].target)
  BY <1>1 DEF Submit, ValidTargets
<1>3. Sound(board.original) /\ Sound(board.working) /\ Arranged(board.original)
  BY DEF StudioInv, Sound
<1>4. OpsFit(Pending(raw)) /\ Separate(Pending(raw)) /\ Coherent(Pending(raw))
  BY <1>1, <1>2, <1>3, SubmittedFits DEF Live
<1>5. PICK ops \in Seq(Op) : ops = Pending(raw) /\ OpsFit(ops) /\ Separate(ops) /\ Coherent(ops)
  BY <1>4 DEF OpsFit
<1>6. \A k \in DOMAIN ops : ops[k].type # "create" => row[ops[k].target].st # "unborn"
  BY <1>2, <1>5 DEF Pending, Live
<1>7. Applicable(ops, row)
  BY <1>5, <1>6 DEF Applicable, StudioInv
<1>8. PICK q : q = [st |-> "pending", ops |-> ops, current |-> board.current,
                    proposal |-> board.working]
  OBVIOUS
<1>9. /\ q \in Requests /\ q.ops = ops /\ q.proposal = board.working
  <2>1. board \in Boards
    BY DEF StudioInv
  <2> HIDE DEF Tree, Op
  <2> QED  BY <1>8, <2>1 DEF Requests, RequestStatus, Boards
<1>10. req' = [req EXCEPT ![r] = q]
  BY <1>1, <1>5, <1>8 DEF Submit, Stored
<1>11. /\ req' \in [Request -> Requests]
       /\ \A i \in Request : req'[i] = IF i = r THEN q ELSE req[i]
  <2> HIDE DEF Requests, Request
  <2> QED  BY <1>9, <1>10 DEF StudioInv
<1>12. \A i \in Request : /\ OpsFit(req'[i].ops) /\ Sound(req'[i].proposal)
                          /\ Reviewable(req'[i], row)
  BY <1>3, <1>5, <1>7, <1>9, <1>11 DEF StudioInv, Reviewable
<1>13. BoardFits(board')
  <2>1. CASE board.edit = 0
    BY <2>1, ClosedFits DEF Submit
  <2>2. CASE board.edit # 0
    <3>1. PICK e \in {0} \cup Request : e = board.edit
      BY DEF StudioInv, Boards
    <3>2. PICK b : b = [Closed EXCEPT !.stage = "loading", !.edit = e, !.ops = ops]
      OBVIOUS
    <3>3. b \in Boards /\ b.ops = ops /\ b.original = Closed.original /\ b.working = Closed.working
      <4>1. Closed \in Boards
        BY ClosedFits DEF BoardFits
      <4> HIDE DEF Tree, Op, Request
      <4> QED  BY <3>2, <4>1 DEF Boards
    <3>4. board' = b
      BY <1>1, <1>5, <2>2, <3>1, <3>2 DEF Submit
    <3> QED  BY <1>5, <3>3, <3>4, ClosedFits DEF BoardFits
  <2> QED  BY <2>1, <2>2
<1>14. row' = row /\ edits' = edits
  BY DEF Submit
<1> QED  BY <1>11, <1>12, <1>13, <1>14 DEF StudioInv, BoardFits

LEMMA WithdrawKeeps ==
  ASSUME StudioInv, NEW r \in Request, Withdraw(r) PROVE StudioInv'
<1>1. PICK q : q = [NoRequest EXCEPT !.st = "withdrawn"]
  OBVIOUS
<1>2. /\ q \in Requests /\ q.ops = NoRequest.ops /\ q.proposal = NoRequest.proposal
      /\ q.st = "withdrawn"
  <2>1. NoRequest \in Requests
    BY ClosedFits
  <2> HIDE DEF Tree, Op
  <2> QED  BY <1>1, <2>1 DEF Requests, RequestStatus
<1>3. req' = [req EXCEPT ![r] = q]
  BY <1>1 DEF Withdraw
<1>4. /\ req' \in [Request -> Requests]
      /\ \A i \in Request : req'[i] = IF i = r THEN q ELSE req[i]
  <2> HIDE DEF Requests, Request
  <2> QED  BY <1>2, <1>3 DEF StudioInv
<1>5. \A i \in Request : /\ OpsFit(req'[i].ops) /\ Sound(req'[i].proposal)
                         /\ Reviewable(req'[i], row)
  BY <1>2, <1>4, ClosedFits DEF StudioInv, Reviewable
<1> QED  BY <1>4, <1>5 DEF StudioInv, Withdraw

\* What a review leaves for the other requests.
LEMMA StillApplicable ==
  ASSUME NEW ops, Applicable(ops, row), NEW done, NEW n \in Nat, NEW after,
         Carried(done, row, after, n)
  PROVE  Applicable(ops, after.row)
<1>1. RowsFit(after.row) /\ \A m \in ServerId : after.row[m].st = "unborn" => row[m].st = "unborn"
  BY DEF Carried
<1>2. \A k \in DOMAIN ops : ops[k].type # "create" => ops[k].target \in ServerId
  BY DEF Applicable, OpsFit, OpFits
<1> QED  BY <1>1, <1>2 DEF Applicable

LEMMA CarriedOpsFit ==
  ASSUME NEW ops, OpsFit(ops), NEW rows, NEW s, NEW k, Carried(ops, rows, s, k)
  PROVE  OpsFit(s.ops) /\ s.ops \in Seq(Op)
<1>1. s.ops \in Seq(Op) /\ DOMAIN s.ops = DOMAIN ops
      /\ \A j \in DOMAIN ops : SameRequest(s.ops[j], ops[j])
  BY DEF Carried, Applying
<1> QED  BY <1>1 DEF OpsFit, OpFits, SameRequest

LEMMA ReviewKeeps ==
  ASSUME StudioInv, NEW r \in Request, NEW approved, Review(r, approved) PROVE StudioInv'
<1>1. PICK ops : /\ ops = req[r].ops /\ Applicable(ops, row) /\ Coherent(ops)
                 /\ OpsFit(ops) /\ IdsLeft(ops)
  BY DEF StudioInv, Reviewable, Review
<1>2. PICK after : after = ApplyChangeOperations(ops, approved) /\ ~ after.broken
  BY <1>1 DEF Review
<1>3. PICK n \in Nat : /\ n = Len(ops) /\ Carried(ops, row, after, n)
                      /\ Effective(ops, row, approved, after, n)
  BY <1>1, <1>2, ReviewCarries
<1>4. PICK o \in Seq(Op) : o = after.ops /\ OpsFit(o)
  BY <1>1, <1>3, CarriedOpsFit
<1>5. PICK touched \in BOOLEAN : touched = (after.row # row)
  OBVIOUS
<1>6. row' = after.row /\ RowsFit(row') /\ edits' = edits
  BY <1>1, <1>2, <1>3 DEF Review, Carried
<1>7. PICK mine : mine = [NoRequest EXCEPT !.st = StatusOf(o), !.ops = o]
  OBVIOUS
<1>8. /\ mine \in Requests /\ mine.ops = o /\ mine.proposal = NoRequest.proposal
      /\ mine.st = StatusOf(o)
  <2>1. NoRequest \in Requests
    BY ClosedFits
  <2>2. StatusOf(o) \in RequestStatus
    BY DEF StatusOf, RequestStatus
  <2> HIDE DEF Tree, Op, RequestStatus
  <2> QED  BY <1>7, <2>1, <2>2 DEF Requests
<1>9. req' = [q \in Request |-> IF q = r THEN mine
                                ELSE [req[q] EXCEPT !.current = @ /\ ~ touched]]
  BY <1>1, <1>2, <1>4, <1>5, <1>7 DEF Review
<1>10. ASSUME NEW q \in Request, q # r
       PROVE  /\ req'[q] \in Requests /\ req'[q].ops = req[q].ops
              /\ req'[q].proposal = req[q].proposal /\ req'[q].st = req[q].st
  <2>1. PICK e \in Requests : e = req[q]
    BY DEF StudioInv
  <2>2. PICK c \in BOOLEAN : c = (e.current /\ ~ touched)
    OBVIOUS
  <2>3. req'[q] = [e EXCEPT !.current = c]
    BY <1>9, <1>10, <2>1, <2>2
  <2> HIDE DEF Tree, Op, RequestStatus
  <2> QED  BY <2>1, <2>3 DEF Requests
<1>11. req'[r] = mine
  BY <1>9
<1>12. req' \in [Request -> Requests]
  <2>1. \A q \in Request : req'[q] \in Requests
    BY <1>8, <1>10, <1>11
  <2> HIDE DEF Requests, Request
  <2> QED  BY <1>9, <2>1
<1>13. mine.st # "pending"
  <2>1. \A j \in DOMAIN o : j <= n /\ j \in DOMAIN ops
    <3>1. DOMAIN o = DOMAIN ops /\ DOMAIN ops = 1 .. n
      BY <1>1, <1>3, <1>4 DEF Carried, OpsFit
    <3> QED  BY <3>1
  <2>2. \A j \in DOMAIN o : o[j].st # "pending"
    BY <1>3, <1>4, <2>1 DEF Effective
  <2> QED  BY <1>8, <2>2 DEF StatusOf
<1>14. ASSUME NEW q \in Request
       PROVE  /\ OpsFit(req'[q].ops) /\ Sound(req'[q].proposal)
              /\ Reviewable(req'[q], row')
  <2>1. CASE q = r
    BY <1>4, <1>8, <1>11, <1>13, <2>1, ClosedFits DEF Reviewable
  <2>2. CASE q # r
    <3>1. req[q].st = "pending" => Applicable(req[q].ops, row') /\ Coherent(req[q].ops)
      BY <1>3, <1>6, StillApplicable DEF StudioInv, Reviewable
    <3> QED  BY <1>10, <2>2, <3>1 DEF StudioInv, Reviewable
  <2> QED  BY <2>1, <2>2
<1>15. BoardFits(board')
  <2>1. PICK e \in Boards : e = board
    BY DEF StudioInv
  <2>2. PICK c \in BOOLEAN : c = (e.current /\ ~ touched)
    OBVIOUS
  <2>3. board' = [e EXCEPT !.current = c]
    BY <1>1, <1>2, <1>5, <2>1, <2>2 DEF Review
  <2>4. /\ board' \in Boards /\ board'.ops = board.ops /\ board'.original = board.original
        /\ board'.working = board.working
    <3> HIDE DEF Tree, Op, Request
    <3> QED  BY <2>1, <2>3 DEF Boards
  <2> QED  BY <2>4 DEF BoardFits, StudioInv
<1> QED  BY <1>6, <1>12, <1>14, <1>15 DEF StudioInv, BoardFits

LEMMA StepKeeps == StudioInv /\ [Next]_vars => StudioInv'
<1> SUFFICES ASSUME StudioInv, [Next]_vars PROVE StudioInv'
  OBVIOUS
<1>1. CASE OpenStudio
  BY <1>1, OpenStudioKeeps
<1>2. CASE \E r \in Request : OpenRequest(r)
  BY <1>2, OpenRequestKeeps
<1>3. CASE LoadTree
  BY <1>3, LoadTreeKeeps
<1>4. CASE \E p \in Node : AddNode(Chapter, p) \/ AddNode(Lesson, p) \/ AddNode(Tab, p)
  <2>1. PICK kind \in {Chapter, Lesson, Tab}, p \in Node : AddNode(kind, p)
    BY <1>4
  <2> QED  BY <2>1, AddNodeKeeps
<1>5. CASE \E n \in Node : \E v \in Value : UpdateSelected(n, v)
  BY <1>5, UpdateSelectedKeeps
<1>6. CASE \E n \in Node : RemoveSelected(n)
  BY <1>6, RemoveSelectedKeeps
<1>7. CASE \E n \in Node : \E p \in Node : MoveSelected(n, p)
  BY <1>7, MoveSelectedKeeps
<1>8. CASE \E n \in Node : \E over \in Node : DragEnd(n, over)
  BY <1>8, DragEndKeeps
<1>9. CASE \E r \in Request : Submit(r)
  BY <1>9, SubmitKeeps
<1>10. CASE \E r \in Request : Withdraw(r)
  BY <1>10, WithdrawKeeps
<1>11. CASE \E r \in Request : \E approved \in SUBSET (DOMAIN req[r].ops) : Review(r, approved)
  BY <1>11, ReviewKeeps
<1>12. CASE Leave
  BY <1>12, LeaveKeeps
<1>13. CASE UNCHANGED vars
  BY <1>13 DEF StudioInv, vars
<1> QED  BY <1>1, <1>2, <1>3, <1>4, <1>5, <1>6, <1>7, <1>8, <1>9, <1>10, <1>11, <1>12, <1>13 DEF Next

\* Rows, requests and the page fit, in every course: whatever the professor edits, submits
\* and withdraws and whatever part of a request is approved (StudioBoard.tsx, studioDiff.ts,
\* studioProject.ts, professor_change_apply.py).
THEOREM StudioInvariant == Spec => []StudioInv
<1>1. Init => StudioInv
  BY InitHolds
<1>2. StudioInv /\ [Next]_vars => StudioInv'
  BY StepKeeps
<1> QED  BY <1>1, <1>2, PTL DEF Spec

\* The trees that are shown are trees in which every node hangs in one place from a node of
\* the level above, and no row hangs from a row that is gone.
THEOREM StudioTypes == Spec => []TypeOK
<1>1. StudioInv => TypeOK
  <2> SUFFICES ASSUME StudioInv PROVE TypeOK
    OBVIOUS
  <2>1. ASSUME NEW n \in ServerId
        PROVE  /\ row[n].st \in {"unborn", "live", "gone"}
               /\ Live(row, n) => row[n].parent = Root \/ Live(row, row[n].parent)
    BY DEF StudioInv, RowsFit, Row, Live
  <2>2. ASSUME NEW r \in Request
        PROVE  /\ req[r].st \in RequestStatus
               /\ \A k \in DOMAIN req[r].ops : req[r].ops[k].st \in OpStatus
               /\ WellFormed(req[r].proposal)
    <3>1. req[r].st \in RequestStatus
      BY DEF StudioInv, Requests
    <3>2. \A k \in DOMAIN req[r].ops : req[r].ops[k].st \in OpStatus
      <4>1. PICK o \in Seq(Op) : o = req[r].ops
        BY DEF StudioInv, OpsFit
      <4>2. \A k \in DOMAIN o : o[k] \in Op
        BY <4>1
      <4> QED  BY <4>1, <4>2 DEF Op
    <3>3. WellFormed(req[r].proposal)
      BY SoundIsWellFormed DEF StudioInv
    <3> QED  BY <3>1, <3>2, <3>3
  <2>3. board.stage \in {"closed", "loading", "ready"} /\ board.edit \in {0} \cup Request
    BY DEF StudioInv, Boards
  <2>4. WellFormed(board.original) /\ WellFormed(board.working)
    BY SoundIsWellFormed DEF StudioInv
  <2> QED  BY <2>1, <2>2, <2>3, <2>4 DEF TypeOK, StudioInv
<1> QED  BY <1>1, StudioInvariant, PTL

\* Only a review decides about a request, ...
LEMMA ReviewedBy ==
  ASSUME StudioInv, [Next]_vars, NEW r \in Request, Reviewed(r)
  PROVE  \E approved : Review(r, approved)
<1>1. req' # req /\ req[r].st = "pending" /\ req'[r].st \notin {"pending", "withdrawn"}
  BY DEF Reviewed
<1>2. \/ \E q \in Request : Submit(q)
      \/ \E q \in Request : Withdraw(q)
      \/ \E q \in Request : \E approved \in SUBSET (DOMAIN req[q].ops) : Review(q, approved)
  BY <1>1 DEF Next, vars, OpenStudio, OpenRequest, LoadTree, AddNode, UpdateSelected,
     RemoveSelected, MoveSelected, DragEnd, Edit, Leave
<1>3. DOMAIN req = Request /\ req[r] \in Requests
  BY DEF StudioInv
<1>4. ASSUME NEW q \in Request, Submit(q) PROVE FALSE
  <2>1. PICK ops : req' = Stored(q, ops)
    BY <1>4 DEF Submit
  <2>2. PICK x : x = [st |-> "pending", ops |-> Pending(ops), current |-> board.current,
                      proposal |-> board.working]
    OBVIOUS
  <2>3. x.st = "pending" /\ req' = [req EXCEPT ![q] = x]
    BY <2>1, <2>2 DEF Stored
  <2> QED  BY <1>1, <1>3, <2>3
<1>5. ASSUME NEW q \in Request, Withdraw(q) PROVE FALSE
  <2>1. PICK x : x = [NoRequest EXCEPT !.st = "withdrawn"]
    OBVIOUS
  <2>2. x.st = "withdrawn" /\ req' = [req EXCEPT ![q] = x]
    BY <1>5, <2>1 DEF Withdraw, NoRequest
  <2> QED  BY <1>1, <1>3, <2>2
<1>6. PICK q \in Request : \E approved : Review(q, approved)
  BY <1>2, <1>4, <1>5
<1>7. q = r
  <2> SUFFICES ASSUME q # r PROVE FALSE
    OBVIOUS
  <2>1. PICK c : req'[r] = [req[r] EXCEPT !.current = c]
    <3>1. PICK approved : Review(q, approved)
      BY <1>6
    <3> QED  BY <3>1 DEF Review
  <2>2. req'[r].st = req[r].st
    BY <1>3, <2>1 DEF Requests
  <2> QED  BY <1>1, <2>2
<1> QED  BY <1>6, <1>7

\* ... and it leaves what its last operation leaves.
LEMMA ReviewLeaves ==
  ASSUME StudioInv, NEW r \in Request, NEW approved, Review(r, approved)
  PROVE  \E after : /\ row' = after.row /\ req'[r].ops = after.ops
                    /\ Carried(req[r].ops, row, after, Len(req[r].ops))
                    /\ Effective(req[r].ops, row, approved, after, Len(req[r].ops))
<1>1. PICK ops : ops = req[r].ops /\ Applicable(ops, row) /\ Coherent(ops) /\ IdsLeft(ops)
  BY DEF StudioInv, Reviewable, Review
<1>2. PICK after : after = ApplyChangeOperations(ops, approved) /\ ~ after.broken
  BY <1>1 DEF Review
<1>3. /\ Carried(ops, row, after, Len(ops))
      /\ Effective(ops, row, approved, after, Len(ops))
  BY <1>1, <1>2, ReviewCarries
<1>4. row' = after.row
  BY <1>1, <1>2 DEF Review
<1>5. req'[r].ops = after.ops
  <2>1. req'[r] = [NoRequest EXCEPT !.st = StatusOf(after.ops), !.ops = after.ops]
    BY <1>1, <1>2 DEF Review
  <2> QED  BY <2>1 DEF NoRequest
<1> QED  BY <1>1, <1>3, <1>4, <1>5

\* A review changes only what approved operations are about: whatever the course, the
\* request and the part of it that is approved (apply_change_operations and its handlers,
\* professor_change_apply.py).
THEOREM ReviewsChangeWhatIsApproved == Spec => ChangesAreApproved
<1> DEFINE A == \A r \in Request : Reviewed(r) =>
                  \A n \in ServerId : row'[n] # row[n] =>
                    \E k \in DOMAIN req'[r].ops :
                      LET op == req'[r].ops[k]
                      IN  \/ op.st = "applied" /\ op.made = n
                          \/ op.st = "applied" /\ op.type = "delete" /\ n \in Below(row, op.target)
                          \/ op.st = "failed" /\ op.type = "reorder" /\ op.target = n
<1>1. StudioInv /\ [Next]_vars => A
  <2> SUFFICES ASSUME StudioInv, [Next]_vars, NEW r \in Request, Reviewed(r),
                      NEW n \in ServerId, row'[n] # row[n]
               PROVE  \E k \in DOMAIN req'[r].ops : Explained(req'[r].ops[k], n, row)
    BY DEF Explained
  <2>1. PICK approved : Review(r, approved)
    BY ReviewedBy
  <2>2. PICK after : /\ row' = after.row /\ req'[r].ops = after.ops
                     /\ Carried(req[r].ops, row, after, Len(req[r].ops))
    BY <2>1, ReviewLeaves
  <2>3. PICK k \in DOMAIN after.ops : Explained(after.ops[k], n, row)
    BY <2>2 DEF Carried
  <2> QED  BY <2>2, <2>3
<1>2. Spec => [][A]_vars
  BY <1>1, StudioInvariant, PTL DEF Spec
<1> QED  BY <1>2 DEF ChangesAreApproved

\* The nodes that Holds speaks of are those of Holding.
LEMMA HoldersAreHolding ==
  ASSUME NEW o, NEW j \in DOMAIN o, NEW op, op = o[j],
         NEW p \in ServerId, Holds(o, row, op, p)
  PROVE  p \in Holding(o, op)
<1> DEFINE named == {o[k].parent : k \in {i \in DOMAIN o :
                       o[i].st = "applied" /\ o[i].target = op.target}}
           parents == IF op.parent = Root THEN named \cup {row[op.made].parent} ELSE {op.parent}
           made == {k \in DOMAIN o : o[k].ref \in {q \in parents : IsNewKey(q)}}
<1>1. Holding(o, op) = {q \in parents : q > 0} \cup {o[k].made : k \in made}
  BY DEF Holding
<1>2. p > 0 /\ p # Root /\ ~ IsNewKey(Root)
  BY DEF ServerId, Root, IsNewKey
<1>3. ASSUME NEW x \in parents, Names(o, x, p) PROVE p \in Holding(o, op)
  <2>1. CASE IsNewKey(x)
    <3>1. PICK i \in DOMAIN o : o[i].ref = x /\ o[i].made = p
      BY <1>3, <2>1 DEF Names
    <3>2. i \in made
      BY <2>1, <3>1
    <3> QED  BY <1>1, <3>1, <3>2
  <2>2. CASE ~ IsNewKey(x)
    <3>1. x = p
      BY <1>3, <2>2 DEF Names
    <3> QED  BY <1>1, <1>2, <3>1
  <2> QED  BY <2>1, <2>2
<1>4. CASE op.parent # Root
  BY <1>3, <1>4 DEF Holds
<1>5. CASE op.parent = Root
  <2>1. op.type # "create"
    BY <1>2, <1>5 DEF Holds, Names
  <2>2. CASE p = row[op.made].parent
    BY <1>1, <1>2, <1>5, <2>2
  <2>3. CASE p # row[op.made].parent
    <3>1. PICK i \in DOMAIN o : /\ o[i].st = "applied" /\ o[i].target = op.target
                                /\ Names(o, o[i].parent, p)
      BY <1>5, <2>1, <2>3 DEF Holds
    <3>2. o[i].parent \in parents
      BY <1>5, <3>1
    <3> QED  BY <1>3, <3>1, <3>2
  <2> QED  BY <2>2, <2>3
<1> QED  BY <1>4, <1>5

\* What a review reports as applied is so in the tables when it commits, or went with the
\* node it was under: no operation of a request undoes another, whatever else was rejected
\* (buildOperations, studioDiff.ts, against the handlers of professor_change_apply.py).
THEOREM AppliedOperationsHold == Spec => AppliedHasEffect
<1> DEFINE A == \A r \in Request : Reviewed(r) =>
                  \A k \in DOMAIN req'[r].ops :
                    LET op == req'[r].ops[k]
                    IN  op.st = "applied" =>
                          HasEffect(op, row'[op.made]) \/ WentWithHolder(req'[r].ops, op)
<1>1. StudioInv /\ [Next]_vars => A
  <2> SUFFICES ASSUME StudioInv, [Next]_vars, NEW r \in Request, Reviewed(r),
                      NEW k \in DOMAIN req'[r].ops, req'[r].ops[k].st = "applied"
               PROVE  \/ HasEffect(req'[r].ops[k], row'[req'[r].ops[k].made])
                      \/ WentWithHolder(req'[r].ops, req'[r].ops[k])
    OBVIOUS
  <2>1. PICK approved : Review(r, approved)
    BY ReviewedBy
  <2>2. PICK after : /\ row' = after.row /\ req'[r].ops = after.ops
                     /\ Carried(req[r].ops, row, after, Len(req[r].ops))
                     /\ Effective(req[r].ops, row, approved, after, Len(req[r].ops))
    BY <2>1, ReviewLeaves
  <2>3. Lasts(row, after, k)
    BY <2>2 DEF Carried, Effective
  <2>4. PICK op : op = after.ops[k] /\ op.type \in {"create", "update", "delete", "reorder"}
    <3>1. PICK o \in Seq(Op) : o = after.ops
      BY <2>2 DEF Carried, Applying
    <3>2. o[k] \in Op
      BY <2>2, <3>1
    <3> QED  BY <3>1, <3>2 DEF Op
  <2>5. PICK now : now = after.row[op.made]
    OBVIOUS
  <2>6. CASE op.type = "delete" \/ now.st = "live"
    <3>1. HasEffect(op, now)
      BY <2>3, <2>4, <2>5, <2>6 DEF Lasts, HasEffect
    <3> QED  BY <2>2, <2>4, <2>5, <3>1
  <2>7. CASE ~ (op.type = "delete" \/ now.st = "live")
    <3>1. PICK p \in ServerId : /\ now.st = "gone" /\ after.row[p].st = "gone"
                                /\ Holds(after.ops, row, op, p)
      BY <2>3, <2>4, <2>5, <2>7 DEF Lasts
    <3>2. p \in Holding(after.ops, op)
      BY <2>2, <2>4, <3>1, HoldersAreHolding
    <3>3. WentWithHolder(after.ops, op)
      BY <2>2, <2>5, <3>1, <3>2 DEF WentWithHolder
    <3> QED  BY <2>2, <2>4, <3>3
  <2> QED  BY <2>6, <2>7
<1>2. Spec => [][A]_vars
  BY <1>1, StudioInvariant, PTL DEF Spec
<1> QED  BY <1>2 DEF AppliedHasEffect

-----------------------------------------------------------------------------
(* What the operations of a page say *)

\* The entry of n in t.
Old(t, n) == CHOOSE d \in EntryOf(t) : d.node = n

\* Every child has an entry.
LEMMA KinEntry ==
  ASSUME NEW t, Arranged(t), NEW p \in Node, NEW n \in Kin(t, p)
  PROVE  \E e \in EntryOf(t) : e.node = n /\ e.parent = p
<1>1. PICK k \in DOMAIN t.kids[p] : t.kids[p][k] = n
  BY DEF Kin, ToSet
<1> QED  BY <1>1, EntryIsOf

LEMMA OldIs ==
  ASSUME NEW t, Sound(t)
  PROVE  /\ DOMAIN IndexOriginal(t) = Nodes(t)
         /\ \A n \in Nodes(t) :
              /\ Old(t, n) \in EntryOf(t) /\ Old(t, n).node = n
              /\ IndexOriginal(t)[n] = Old(t, n)
         /\ \A e \in EntryOf(t) : e.node \in Nodes(t) /\ Old(t, e.node) = e
<1>1. Arranged(t) /\ Nodes(t) = Hung(t) /\ Rooted(t)
  BY NodesHang DEF Sound
<1>2. ToSet(Entries(t)) = EntryOf(t)
  <2>1. Entries(t) \in Seq(EntryOf(t)) /\ EntryOf(t) \subseteq ToSet(Entries(t))
    BY <1>1, EntriesAreOf
  <2>2. PICK s \in Seq(EntryOf(t)) : s = Entries(t)
    BY <2>1
  <2>3. ToSet(s) \subseteq EntryOf(t)
    BY DEF ToSet
  <2> QED  BY <2>1, <2>2, <2>3
<1>3. ASSUME NEW n \in Nodes(t)
      PROVE  /\ Old(t, n) \in EntryOf(t) /\ Old(t, n).node = n
             /\ IndexOriginal(t)[n] = Old(t, n)
  <2>1. PICK p \in Node : n \in Kin(t, p)
    BY <1>1 DEF Hung
  <2>2. \E e \in EntryOf(t) : e.node = n
    BY <1>1, <2>1, KinEntry
  <2> QED  BY <1>2, <2>2 DEF Old, IndexOriginal
<1>4. ASSUME NEW e \in EntryOf(t) PROVE e.node \in Nodes(t) /\ Old(t, e.node) = e
  <2>1. e.node \in Nodes(t)
    BY <1>1, EntryIsOne DEF Hung
  <2> QED  BY <1>1, <1>3, <2>1, EntryIsOne
<1> QED  BY <1>3, <1>4 DEF IndexOriginal

LEMMA InToSet ==
  ASSUME NEW s, NEW v PROVE v \in ToSet(s) <=> \E i \in DOMAIN s : s[i] = v
  BY DEF ToSet

LEMMA JoinedLists ==
  ASSUME NEW S, NEW x \in Seq(S), NEW y \in Seq(S), Unrepeated(x), Unrepeated(y),
         ToSet(x) \cap ToSet(y) = {}
  PROVE  x \o y \in Seq(S) /\ Unrepeated(x \o y) /\ ToSet(x \o y) = ToSet(x) \cup ToSet(y)
<1>1. PICK a, b \in Nat : /\ a = Len(x) /\ DOMAIN x = 1 .. a
                          /\ b = Len(y) /\ DOMAIN y = 1 .. b
  OBVIOUS
<1>2. PICK z : z = x \o y
  OBVIOUS
<1>3. /\ z \in Seq(S) /\ DOMAIN z = 1 .. a + b
      /\ \A i \in 1 .. a : z[i] = x[i]
      /\ \A i \in 1 .. b : z[a + i] = y[i]
  BY <1>1, <1>2
<1>4. ASSUME NEW i \in DOMAIN z
      PROVE  \/ i \in 1 .. a /\ z[i] = x[i] /\ z[i] \in ToSet(x)
             \/ \E j \in 1 .. b : i = a + j /\ z[i] = y[j] /\ z[i] \in ToSet(y)
  <2>1. CASE i \in 1 .. a
    <3>1. z[i] = x[i] /\ i \in DOMAIN x
      BY <1>1, <1>3, <2>1
    <3> QED  BY <2>1, <3>1, InToSet
  <2>2. CASE i \notin 1 .. a
    <3>1. PICK j \in 1 .. b : i = a + j
      <4>1. i - a \in 1 .. b /\ i = a + (i - a)
        BY <1>1, <1>3, <2>2
      <4> QED  BY <4>1
    <3>2. z[i] = y[j] /\ j \in DOMAIN y
      BY <1>1, <1>3, <3>1
    <3> QED  BY <3>1, <3>2, InToSet
  <2> QED  BY <2>1, <2>2
<1>5. ToSet(z) = ToSet(x) \cup ToSet(y)
  <2>1. /\ \A i \in 1 .. a : i \in DOMAIN z
        /\ \A i \in 1 .. b : a + i \in DOMAIN z
    BY <1>1, <1>3
  <2>2. ASSUME NEW v \in ToSet(z) PROVE v \in ToSet(x) \cup ToSet(y)
    BY <1>4, <2>2, InToSet
  <2>3. ASSUME NEW v \in ToSet(x) PROVE v \in ToSet(z)
    <3>1. PICK i \in 1 .. a : x[i] = v
      BY <1>1, <2>3, InToSet
    <3>2. i \in DOMAIN z /\ z[i] = v
      BY <1>3, <2>1, <3>1
    <3> QED  BY <3>2, InToSet
  <2>4. ASSUME NEW v \in ToSet(y) PROVE v \in ToSet(z)
    <3>1. PICK i \in 1 .. b : y[i] = v
      BY <1>1, <2>4, InToSet
    <3>2. a + i \in DOMAIN z /\ z[a + i] = v
      BY <1>3, <2>1, <3>1
    <3> QED  BY <3>2, InToSet
  <2> QED  BY <2>2, <2>3, <2>4
<1>6. Unrepeated(z)
  <2> SUFFICES ASSUME NEW i \in DOMAIN z, NEW j \in DOMAIN z, z[i] = z[j] PROVE i = j
    BY DEF Unrepeated
  <2>1. CASE z[i] \in ToSet(x)
    <3>1. z[i] \notin ToSet(y) /\ z[j] \notin ToSet(y)
      BY <2>1
    <3>2. /\ i \in DOMAIN x /\ z[i] = x[i]
          /\ j \in DOMAIN x /\ z[j] = x[j]
      BY <1>1, <1>4, <3>1
    <3> QED  BY <3>2 DEF Unrepeated
  <2>2. CASE z[i] \notin ToSet(x)
    <3>1. PICK k \in 1 .. b : i = a + k /\ z[i] = y[k]
      BY <1>4, <2>2
    <3>2. PICK l \in 1 .. b : j = a + l /\ z[j] = y[l]
      BY <1>4, <2>2
    <3> QED  BY <1>1, <3>1, <3>2 DEF Unrepeated
  <2> QED  BY <2>1, <2>2
<1> QED  BY <1>2, <1>3, <1>5, <1>6

\* The entries of what is deleted: gone from a place that is not gone itself.
TopmostGone(original, work) ==
  {d \in EntryOf(original) : d.node \notin SeenIn(work) /\ d.parent \in SeenIn(work) \cup {Root}}

LEMMA DeletionsAre ==
  ASSUME NEW original, Sound(original), NEW idx, NEW work, NEW dels,
         dels = Deletions(original, idx, SeenIn(work))
  PROVE  /\ \A k \in DOMAIN dels : \E d \in TopmostGone(original, work) :
              dels[k] = DeleteOp(d.node)
         /\ \A d \in TopmostGone(original, work) : \E k \in DOMAIN dels :
              dels[k] = DeleteOp(d.node)
         /\ \A j, k \in DOMAIN dels : dels[j].target = dels[k].target => j = k
<1> DEFINE seen == SeenIn(work)
           G == TopmostGone(original, work)
           E == EntryOf(original)
<1>1. PICK s \in Seq(E) : /\ s = Entries(original)
                          /\ \A l, m \in DOMAIN s : s[l].node = s[m].node => l = m
                          /\ E \subseteq ToSet(s)
  BY EntriesAreOf DEF Sound
<1>2. \A e \in E : e.node \in Chapter \cup Lesson \cup Tab
  <2>1. \A e \in E : MayHold(e.parent, e.node)
    BY EntryIsOne DEF Sound
  <2> QED  BY <2>1 DEF MayHold
<1> DEFINE Gone(kind) == Kept(s, {k \in DOMAIN s : /\ s[k].node \in kind
                                                   /\ s[k].node \notin seen
                                                   /\ s[k].parent \in seen \cup {Root}})
<1>3. ASSUME NEW kind
      PROVE  /\ Gone(kind) \in Seq(E) /\ Unrepeated(Gone(kind))
             /\ ToSet(Gone(kind)) = {e \in G : e.node \in kind}
  <2> DEFINE K == {k \in DOMAIN s : /\ s[k].node \in kind /\ s[k].node \notin seen
                                    /\ s[k].parent \in seen \cup {Root}}
  <2>1. K \in SUBSET DOMAIN s
    OBVIOUS
  <2>2. Unrepeated(s)
    BY <1>1 DEF Unrepeated
  <2>3. {s[i] : i \in K} = {e \in G : e.node \in kind}
    <3>1. \A e \in E : \E i \in DOMAIN s : s[i] = e
      BY <1>1 DEF ToSet
    <3>2. \A i \in DOMAIN s : s[i] \in E
      OBVIOUS
    <3> HIDE DEF E, seen
    <3> QED  BY <3>1, <3>2 DEF TopmostGone, E, seen
  <2> HIDE DEF K, G, E
  <2> QED  BY <2>1, <2>2, <2>3, KeptIsPart DEF K
<1> HIDE DEF Gone, G, E
<1>4. PICK x, y, z \in Seq(E) : x = Gone(Chapter) /\ y = Gone(Lesson) /\ z = Gone(Tab)
  BY <1>3
<1>5. /\ Unrepeated(x) /\ Unrepeated(y) /\ Unrepeated(z)
      /\ ToSet(x) = {e \in G : e.node \in Chapter}
      /\ ToSet(y) = {e \in G : e.node \in Lesson}
      /\ ToSet(z) = {e \in G : e.node \in Tab}
  BY <1>3, <1>4
<1>6. ToSet(x) \cap ToSet(y) = {} /\ (ToSet(x) \cup ToSet(y)) \cap ToSet(z) = {}
  BY <1>5, NodesAreNumbers
<1>7. PICK xy \in Seq(E) : xy = x \o y /\ Unrepeated(xy) /\ ToSet(xy) = ToSet(x) \cup ToSet(y)
  <2>1. Unrepeated(x) /\ Unrepeated(y) /\ ToSet(x) \cap ToSet(y) = {}
    BY <1>5, <1>6
  <2>2. /\ x \o y \in Seq(E) /\ Unrepeated(x \o y)
        /\ ToSet(x \o y) = ToSet(x) \cup ToSet(y)
    BY <2>1, JoinedLists
  <2> QED  BY <2>2
<1>8. PICK all \in Seq(E) : /\ all = xy \o z /\ Unrepeated(all)
                            /\ ToSet(all) = ToSet(xy) \cup ToSet(z)
  <2>1. Unrepeated(xy) /\ Unrepeated(z) /\ ToSet(xy) \cap ToSet(z) = {}
    BY <1>5, <1>6, <1>7
  <2>2. /\ xy \o z \in Seq(E) /\ Unrepeated(xy \o z)
        /\ ToSet(xy \o z) = ToSet(xy) \cup ToSet(z)
    BY <2>1, JoinedLists
  <2> QED  BY <2>2
<1>9. ToSet(all) = G
  <2>1. \A e \in G : e.node \in Chapter \cup Lesson \cup Tab
    BY <1>2 DEF G, TopmostGone, E
  <2>2. ToSet(all) = ToSet(x) \cup ToSet(y) \cup ToSet(z)
    BY <1>7, <1>8
  <2> QED  BY <1>5, <2>1, <2>2
<1>10. dels = [k \in DOMAIN all |-> DeleteOp(all[k].node)]
  <2>1. s = Entries(original)
    BY <1>1
  <2>2. all = (x \o y) \o z
    BY <1>7, <1>8
  <2> QED  BY <1>4, <2>1, <2>2, Zenon DEF Deletions, Gone
<1>11. DOMAIN dels = DOMAIN all /\ \A k \in DOMAIN all : dels[k] = DeleteOp(all[k].node)
  BY <1>10
<1>12. \A k \in DOMAIN all : all[k] \in G
  BY <1>9 DEF ToSet
<1>13. \A d \in G : \E k \in DOMAIN all : all[k] = d
  BY <1>9 DEF ToSet
<1>14. ASSUME NEW j \in DOMAIN all, NEW k \in DOMAIN all, dels[j].target = dels[k].target
       PROVE  j = k
  <2>1. all[j].node = all[k].node
    BY <1>11, <1>14 DEF DeleteOp
  <2>2. all[j] = all[k]
    BY <2>1, EntryIsOne DEF E, Sound
  <2> QED  BY <1>8, <2>2 DEF Unrepeated
<1> QED  BY <1>11, <1>12, <1>13, <1>14 DEF G

\* What changed of the node of entry e.
Moved(original, e) ==
  \/ Old(original, e.node).parent # e.parent
  \/ Old(original, e.node).index # e.index

MoveOp(original, e) ==
  [type |-> "reorder", target |-> e.node, ref |-> Root,
   parent |-> IF Old(original, e.node).parent # e.parent THEN e.parent ELSE Root,
   order |-> e.index, val |-> NoValue]

LEMMA NodeOpsAre ==
  ASSUME NEW original, Sound(original), NEW work, NEW e, SeenIn(work) \subseteq Nodes(original),
         e.node \in Nodes(work), e.node \in Int,
         NEW ops, ops = NodeOps(original, IndexOriginal(original), work, e)
  PROVE  /\ e.node < 0 => 1 \in DOMAIN ops /\ ops[1] = CreateOp(work, e)
         /\ ~ (e.node < 0) /\ work.val[e.node] # original.val[e.node] =>
              \E i \in DOMAIN ops : ops[i] = UpdateOp(work, e)
         /\ ~ (e.node < 0) /\ Moved(original, e) =>
              \E i \in DOMAIN ops : ops[i] = MoveOp(original, e)
         /\ \A i \in DOMAIN ops :
              \/ e.node < 0 /\ ops[i] = CreateOp(work, e)
              \/ /\ ~ (e.node < 0) /\ work.val[e.node] # original.val[e.node]
                 /\ ops[i] = UpdateOp(work, e)
              \/ ~ (e.node < 0) /\ Moved(original, e) /\ ops[i] = MoveOp(original, e)
<1>1. CASE e.node < 0
  <2>1. ops = <<CreateOp(work, e)>>
    BY <1>1 DEF NodeOps, IsNewKey
  <2>2. PICK c : c = CreateOp(work, e)
    OBVIOUS
  <2>3. ops = <<c>>
    BY <2>1, <2>2
  <2>4. 1 \in DOMAIN ops /\ ops[1] = c /\ \A i \in DOMAIN ops : ops[i] = c
    BY <2>3
  <2> QED  BY <1>1, <2>2, <2>4
<1>2. CASE ~ (e.node < 0)
  <2>1. e.node \in Nodes(original)
    BY <1>2 DEF SeenIn, IsNewKey
  <2>2. /\ e.node \in DOMAIN IndexOriginal(original)
        /\ IndexOriginal(original)[e.node] = Old(original, e.node)
    BY <2>1, OldIs
  <2>3. PICK u, m, changed, moved :
          /\ u = UpdateOp(work, e) /\ m = MoveOp(original, e)
          /\ changed = (work.val[e.node] # original.val[e.node])
          /\ moved = Moved(original, e)
          /\ changed \in BOOLEAN /\ moved \in BOOLEAN
    BY DEF Moved
  <2>4. ReorderOp(IndexOriginal(original), e) = m
    BY <2>2, <2>3 DEF ReorderOp, MoveOp
  <2>5. ops = (IF changed THEN <<u>> ELSE <<>>) \o (IF moved THEN <<m>> ELSE <<>>)
    BY <1>2, <2>2, <2>3, <2>4 DEF NodeOps, IsNewKey, Moved
  <2>6. /\ changed => \E i \in DOMAIN ops : ops[i] = u
        /\ moved => \E i \in DOMAIN ops : ops[i] = m
        /\ \A i \in DOMAIN ops : (changed /\ ops[i] = u) \/ (moved /\ ops[i] = m)
    <3>1. CASE changed /\ moved
      <4>1. ops = <<u>> \o <<m>>
        BY <2>5, <3>1
      <4>2. <<m>> \in Seq({u, m}) /\ Len(<<m>>) = 1 /\ <<m>>[1] = m
        OBVIOUS
      <4>3. /\ DOMAIN ops = 1 .. 1 + 1 /\ ops[1] = u
            /\ \A i \in 1 .. 1 + 1 : i # 1 => ops[i] = <<m>>[i - 1]
        BY <4>1, <4>2, HeadedList
      <4>4. DOMAIN ops = {1, 2} /\ ops[1] = u /\ ops[2] = m
        BY <4>2, <4>3
      <4> QED  BY <3>1, <4>4
    <3>2. CASE changed /\ ~ moved
      <4>1. ops = <<u>>
        BY <2>5, <3>2
      <4>2. DOMAIN ops = {1} /\ ops[1] = u
        BY <4>1
      <4> QED  BY <3>2, <4>2
    <3>3. CASE ~ changed /\ moved
      <4>1. ops = <<m>>
        BY <2>5, <3>3
      <4>2. DOMAIN ops = {1} /\ ops[1] = m
        BY <4>1
      <4> QED  BY <3>3, <4>2
    <3>4. CASE ~ changed /\ ~ moved
      <4>1. ops = <<>>
        BY <2>5, <3>4
      <4>2. DOMAIN ops = {}
        BY <4>1
      <4> QED  BY <3>4, <4>2
    <3> QED  BY <2>3, <3>1, <3>2, <3>3, <3>4
  <2> QED  BY <1>2, <2>3, <2>6
<1> QED  BY <1>1, <1>2

-----------------------------------------------------------------------------
(* A request says exactly what changed *)

\* Every operation but a deletion is about what changed of one node of the tree.
SaysOnlyChanges(original, work, ops) ==
  \A k \in DOMAIN ops : ops[k].type # "delete" =>
    \E e \in EntryOf(work) :
      \/ e.node < 0 /\ SameRequest(ops[k], CreateOp(work, e))
      \/ /\ e.node > 0 /\ work.val[e.node] # original.val[e.node]
         /\ SameRequest(ops[k], UpdateOp(work, e))
      \/ e.node > 0 /\ Moved(original, e) /\ SameRequest(ops[k], MoveOp(original, e))

SaysAllChanges(original, work, ops) ==
  \A e \in EntryOf(work) :
    /\ e.node < 0 => \E k \in DOMAIN ops : SameRequest(ops[k], CreateOp(work, e))
    /\ e.node > 0 /\ work.val[e.node] # original.val[e.node] =>
         \E k \in DOMAIN ops : SameRequest(ops[k], UpdateOp(work, e))
    /\ e.node > 0 /\ Moved(original, e) =>
         \E k \in DOMAIN ops : SameRequest(ops[k], MoveOp(original, e))

SaysWhatIsGone(original, work, ops) ==
  /\ \A k \in DOMAIN ops : ops[k].type = "delete" =>
       \E d \in TopmostGone(original, work) : SameRequest(ops[k], DeleteOp(d.node))
  /\ \A d \in TopmostGone(original, work) :
       \E k \in DOMAIN ops : SameRequest(ops[k], DeleteOp(d.node))

\* A node is created before it is named, deletions come last and each once.
SaysInOrder(ops) ==
  /\ \A k \in DOMAIN ops : ops[k].parent < 0 =>
       \E j \in DOMAIN ops : j < k /\ ops[j].type = "create" /\ ops[j].ref = ops[k].parent
  /\ \A j, k \in DOMAIN ops : j < k /\ ops[j].type = "delete" => ops[k].type = "delete"
  /\ \A j, k \in DOMAIN ops : ops[j].type = "delete" /\ ops[k].type = "delete"
                              /\ ops[j].target = ops[k].target => j = k

Diff(original, work, ops) ==
  /\ SaysOnlyChanges(original, work, ops) /\ SaysAllChanges(original, work, ops)
  /\ SaysWhatIsGone(original, work, ops) /\ SaysInOrder(ops)

LEMMA BuiltSaysAll ==
  ASSUME NEW original, Sound(original), NEW work, Sound(work),
         SeenIn(work) \subseteq Nodes(original),
         NEW built, built = BuildOperations(original, work)
  PROVE  Diff(original, work, built)
<1>1. PICK idx : idx = IndexOriginal(original)
  OBVIOUS
<1>2. PICK s \in Seq(EntryOf(work)) :
        /\ s = Entries(work) /\ EntryOf(work) \subseteq ToSet(s)
        /\ \A m \in DOMAIN s : s[m].parent # Root =>
             \E l \in DOMAIN s : l < m /\ s[l].node = s[m].parent
  BY EntriesAreOf DEF Sound
<1>3. \A e \in EntryOf(work) : /\ e.node \in Nodes(work) /\ e.node \in Int /\ e.node # 0
                               /\ e.parent \in Int /\ e.index \in Nat
  <2>1. \A e \in EntryOf(work) :
          /\ e.node \in Node /\ e.parent \in Node /\ e.index \in Nat /\ MayHold(e.parent, e.node)
    BY EntryIsOne DEF Sound
  <2>2. \A e \in EntryOf(work) : e.node # Root
    BY <2>1, Levels
  <2> QED  BY <2>1, <2>2, OldIs, NodesAreNumbers
<1> DEFINE N(k) == NodeOps(original, idx, work, s[k])
           ss == [k \in DOMAIN s |-> N(k)]
<1>4. PICK d \in Seq(RawOp) : d = Deletions(original, idx, SeenIn(work))
  BY DeletionsFit DEF Sound
<1>5. /\ \A k \in DOMAIN d : \E g \in TopmostGone(original, work) : d[k] = DeleteOp(g.node)
      /\ \A g \in TopmostGone(original, work) : \E k \in DOMAIN d : d[k] = DeleteOp(g.node)
      /\ \A j, k \in DOMAIN d : d[j].target = d[k].target => j = k
  BY <1>4, DeletionsAre
<1>6. PICK F : F = FlattenSeq(ss)
  OBVIOUS
<1>7. built = F \o d
  BY <1>1, <1>2, <1>4, <1>6 DEF BuildOperations, SeenIn
<1> DEFINE About(op, e) ==
      \/ e.node < 0 /\ op = CreateOp(work, e)
      \/ e.node > 0 /\ work.val[e.node] # original.val[e.node] /\ op = UpdateOp(work, e)
      \/ e.node > 0 /\ Moved(original, e) /\ op = MoveOp(original, e)
<1>8. ASSUME NEW k \in DOMAIN s
      PROVE  /\ N(k) \in Seq(RawOp)
             /\ s[k].node < 0 => 1 \in DOMAIN N(k) /\ N(k)[1] = CreateOp(work, s[k])
             /\ s[k].node > 0 /\ work.val[s[k].node] # original.val[s[k].node] =>
                  \E i \in DOMAIN N(k) : N(k)[i] = UpdateOp(work, s[k])
             /\ s[k].node > 0 /\ Moved(original, s[k]) =>
                  \E i \in DOMAIN N(k) : N(k)[i] = MoveOp(original, s[k])
             /\ \A i \in DOMAIN N(k) : About(N(k)[i], s[k])
  <2>1. PICK e \in EntryOf(work) : e = s[k]
    OBVIOUS
  <2>2. PICK ops : ops = NodeOps(original, idx, work, e)
    OBVIOUS
  <2>3. ops \in Seq(RawOp)
    BY <2>2, NodeOpsFit
  <2>4. e.node \in Nodes(work) /\ e.node \in Int /\ (~ (e.node < 0) <=> e.node > 0)
    BY <1>3
  <2>5. /\ e.node < 0 => 1 \in DOMAIN ops /\ ops[1] = CreateOp(work, e)
        /\ ~ (e.node < 0) /\ work.val[e.node] # original.val[e.node] =>
             \E i \in DOMAIN ops : ops[i] = UpdateOp(work, e)
        /\ ~ (e.node < 0) /\ Moved(original, e) =>
             \E i \in DOMAIN ops : ops[i] = MoveOp(original, e)
        /\ \A i \in DOMAIN ops :
             \/ e.node < 0 /\ ops[i] = CreateOp(work, e)
             \/ /\ ~ (e.node < 0) /\ work.val[e.node] # original.val[e.node]
                /\ ops[i] = UpdateOp(work, e)
             \/ ~ (e.node < 0) /\ Moved(original, e) /\ ops[i] = MoveOp(original, e)
    BY <1>1, <2>2, <2>4, NodeOpsAre
  <2> QED  BY <2>1, <2>2, <2>3, <2>4, <2>5
<1> HIDE DEF N, About
<1>9. ss \in Seq(Seq(RawOp)) /\ DOMAIN ss = DOMAIN s /\ \A k \in DOMAIN s : ss[k] = N(k)
  <2>1. DOMAIN s = 1 .. Len(s) /\ Len(s) \in Nat
    OBVIOUS
  <2>2. \A k \in DOMAIN s : N(k) \in Seq(RawOp)
    BY <1>8
  <2> QED  BY <2>1, <2>2
<1> HIDE DEF ss
<1>10. F \in Seq(RawOp) /\ Together(RawOp, ss, Len(ss), F) /\ DOMAIN ss = 1 .. Len(ss)
  <2>1. Together(RawOp, ss, Len(ss), F) /\ DOMAIN ss = 1 .. Len(ss)
    BY <1>6, <1>9, FlattenIsList
  <2> QED  BY <2>1 DEF Together
<1>11. PICK part, place \in [DOMAIN F -> Nat] : Placed(ss, Len(ss), F, part, place)
  BY <1>10 DEF Together
<1>12. ASSUME NEW m \in DOMAIN F
       PROVE  part[m] \in DOMAIN s /\ s[part[m]] \in EntryOf(work) /\ About(F[m], s[part[m]])
  <2>1. /\ part[m] \in DOMAIN s /\ place[m] \in DOMAIN ss[part[m]]
        /\ F[m] = ss[part[m]][place[m]]
    BY <1>9, <1>10, <1>11 DEF Placed
  <2> QED  BY <1>8, <1>9, <2>1
<1>13. ASSUME NEW k \in DOMAIN s, NEW i \in DOMAIN N(k)
       PROVE  \E m \in DOMAIN F : part[m] = k /\ F[m] = N(k)[i]
  BY <1>9, <1>10, <1>11, <1>13 DEF Placed
<1>14. PICK n \in Nat : n = Len(F) /\ DOMAIN F = 1 .. n
  BY <1>10
<1>15. PICK ops \in Seq(RawOp) :
         /\ ops = F \o d
         /\ \A k \in DOMAIN ops : \/ k \in DOMAIN F /\ ops[k] = F[k]
                                  \/ /\ k \notin DOMAIN F /\ k - n \in DOMAIN d
                                     /\ ops[k] = d[k - n]
         /\ \A k \in DOMAIN F : k \in DOMAIN ops /\ ops[k] = F[k]
         /\ \A k \in DOMAIN d : n + k \in DOMAIN ops /\ ops[n + k] = d[k]
  <2> HIDE DEF RawOp
  <2>1. F \o d \in Seq(RawOp)
    BY <1>10
  <2>2. \A k \in DOMAIN (F \o d) : \/ k \in DOMAIN F /\ (F \o d)[k] = F[k]
                                   \/ /\ k \notin DOMAIN F /\ k - n \in DOMAIN d
                                      /\ (F \o d)[k] = d[k - n]
    BY <1>10, <1>14
  <2>3. \A k \in DOMAIN F : k \in DOMAIN (F \o d) /\ (F \o d)[k] = F[k]
    BY <1>10, <1>14
  <2>4. \A k \in DOMAIN d : n + k \in DOMAIN (F \o d) /\ (F \o d)[n + k] = d[k]
    BY <1>10, <1>14
  <2> QED  BY <2>1, <2>2, <2>3, <2>4
<1>16. \A k \in DOMAIN F : F[k].type # "delete" /\ SameRequest(F[k], F[k])
  <2>1. \A k \in DOMAIN F : F[k].type # "delete"
    BY <1>12 DEF About, CreateOp, UpdateOp, MoveOp
  <2> QED  BY <2>1 DEF SameRequest
<1>17. \A k \in DOMAIN d : d[k].type = "delete" /\ SameRequest(d[k], d[k]) /\ d[k].parent = Root
  <2>1. \A k \in DOMAIN d : d[k].type = "delete" /\ d[k].parent = Root
    BY <1>5 DEF DeleteOp
  <2> QED  BY <2>1 DEF SameRequest
<1>18. SaysOnlyChanges(original, work, ops)
  <2> SUFFICES ASSUME NEW k \in DOMAIN ops, ops[k].type # "delete"
               PROVE  \E e \in EntryOf(work) :
                        \/ e.node < 0 /\ SameRequest(ops[k], CreateOp(work, e))
                        \/ /\ e.node > 0 /\ work.val[e.node] # original.val[e.node]
                           /\ SameRequest(ops[k], UpdateOp(work, e))
                        \/ /\ e.node > 0 /\ Moved(original, e)
                           /\ SameRequest(ops[k], MoveOp(original, e))
    BY DEF SaysOnlyChanges
  <2>1. k \in DOMAIN F /\ ops[k] = F[k]
    BY <1>15, <1>17
  <2>2. SameRequest(F[k], F[k])
    BY <1>16, <2>1
  <2>3. PICK e \in EntryOf(work) : About(F[k], e)
    BY <1>12, <2>1
  <2> QED  BY <2>1, <2>2, <2>3 DEF About
<1>19. SaysAllChanges(original, work, ops)
  <2> SUFFICES ASSUME NEW e \in EntryOf(work)
               PROVE  /\ e.node < 0 => \E k \in DOMAIN ops : SameRequest(ops[k], CreateOp(work, e))
                      /\ e.node > 0 /\ work.val[e.node] # original.val[e.node] =>
                           \E k \in DOMAIN ops : SameRequest(ops[k], UpdateOp(work, e))
                      /\ e.node > 0 /\ Moved(original, e) =>
                           \E k \in DOMAIN ops : SameRequest(ops[k], MoveOp(original, e))
    BY DEF SaysAllChanges
  <2>1. PICK k \in DOMAIN s : s[k] = e
    BY <1>2, InToSet
  <2>2. ASSUME NEW i \in DOMAIN N(k) PROVE \E m \in DOMAIN ops : SameRequest(ops[m], N(k)[i])
    <3>1. PICK m \in DOMAIN F : F[m] = N(k)[i]
      BY <1>13
    <3> QED  BY <1>15, <1>16, <3>1
  <2> QED  BY <1>8, <2>1, <2>2
<1>20. SaysWhatIsGone(original, work, ops)
  <2>1. ASSUME NEW k \in DOMAIN ops, ops[k].type = "delete"
        PROVE  \E g \in TopmostGone(original, work) : SameRequest(ops[k], DeleteOp(g.node))
    <3>1. k - n \in DOMAIN d /\ ops[k] = d[k - n]
      BY <1>15, <1>16, <2>1
    <3>2. PICK i \in DOMAIN d : ops[k] = d[i]
      BY <3>1
    <3>3. PICK g \in TopmostGone(original, work) : d[i] = DeleteOp(g.node)
      BY <1>5
    <3> QED  BY <1>17, <3>2, <3>3
  <2>2. ASSUME NEW g \in TopmostGone(original, work)
        PROVE  \E k \in DOMAIN ops : SameRequest(ops[k], DeleteOp(g.node))
    <3>1. PICK i \in DOMAIN d : d[i] = DeleteOp(g.node)
      BY <1>5
    <3>2. n + i \in DOMAIN ops /\ ops[n + i] = d[i]
      BY <1>15
    <3> QED  BY <1>17, <3>1, <3>2
  <2> QED  BY <2>1, <2>2 DEF SaysWhatIsGone
<1>21. SaysInOrder(ops)
  <2>1. ASSUME NEW k \in DOMAIN ops, ops[k].parent < 0
        PROVE  \E j \in DOMAIN ops : j < k /\ ops[j].type = "create" /\ ops[j].ref = ops[k].parent
    <3>1. k \in DOMAIN F /\ ops[k] = F[k]
      <4>1. ~ (Root < 0)
        BY NodesAreNumbers
      <4> QED  BY <1>15, <1>17, <2>1, <4>1
    <3>2. PICK a \in DOMAIN s : a = part[k] /\ About(F[k], s[a])
      BY <1>12, <3>1
    <3>3. s[a].parent = ops[k].parent /\ s[a].parent < 0
      <4>1. ops[k].parent \in {s[a].parent, Root} /\ ~ (Root < 0)
        BY <3>1, <3>2, NodesAreNumbers DEF About, CreateOp, UpdateOp, MoveOp
      <4> QED  BY <2>1, <4>1
    <3>4. PICK l \in DOMAIN s : l < a /\ s[l].node = s[a].parent
      BY <1>2, <3>3, NodesAreNumbers
    <3>5. 1 \in DOMAIN N(l) /\ N(l)[1] = CreateOp(work, s[l])
      BY <1>8, <3>3, <3>4
    <3>6. PICK j \in DOMAIN F : part[j] = l /\ F[j] = CreateOp(work, s[l])
      BY <1>13, <3>5
    <3>7. j < k
      <4>1. j \in Nat /\ k \in Nat /\ l \in Nat /\ a \in Nat
        BY <1>14, <3>1
      <4>2. ASSUME k < j PROVE FALSE
        <5>1. part[k] < part[j] \/ part[k] = part[j]
          BY <1>11, <3>1, <4>2 DEF Placed
        <5> QED  BY <3>2, <3>4, <3>6, <4>1, <5>1
      <4>3. j # k
        BY <3>2, <3>4, <3>6, <4>1
      <4> QED  BY <4>1, <4>2, <4>3
    <3>8. ops[j] = F[j] /\ j \in DOMAIN ops /\ F[j].type = "create" /\ F[j].ref = s[l].node
      BY <1>15, <3>6 DEF CreateOp
    <3> QED  BY <3>3, <3>4, <3>7, <3>8
  <2>2. ASSUME NEW j \in DOMAIN ops, NEW k \in DOMAIN ops, j < k, ops[j].type = "delete"
        PROVE  ops[k].type = "delete"
    <3>1. j \notin DOMAIN F
      BY <1>15, <1>16, <2>2
    <3>2. j \in Nat /\ k \in Nat /\ j >= 1
      OBVIOUS
    <3>3. k \notin DOMAIN F
      BY <1>14, <2>2, <3>1, <3>2
    <3> QED  BY <1>15, <1>17, <3>3
  <2>3. ASSUME NEW j \in DOMAIN ops, NEW k \in DOMAIN ops, ops[j].type = "delete",
               ops[k].type = "delete", ops[j].target = ops[k].target
        PROVE  j = k
    <3>1. /\ j - n \in DOMAIN d /\ ops[j] = d[j - n]
          /\ k - n \in DOMAIN d /\ ops[k] = d[k - n]
      BY <1>15, <1>16, <2>3
    <3>2. j - n = k - n
      BY <1>5, <2>3, <3>1
    <3>3. j \in Nat /\ k \in Nat
      OBVIOUS
    <3> QED  BY <3>2, <3>3
  <2> QED  BY <2>1, <2>2, <2>3 DEF SaysInOrder
<1> QED  BY <1>7, <1>15, <1>18, <1>19, <1>20, <1>21 DEF Diff

-----------------------------------------------------------------------------
(* Approving the whole of a request *)

\* What an operation asks of the rows it was made for: a node of the tree is created, gets
\* its fields or gets its place, or a row that the tree no longer has goes.
AsksFor(rows, work, op) ==
  \/ /\ op.type = "create"
     /\ \E e \in EntryOf(work) : /\ e.node < 0 /\ op.ref = e.node /\ op.parent = e.parent
                                 /\ op.order = e.index /\ op.val = work.val[e.node]
  \/ /\ op.type = "update" /\ op.ref = Root /\ op.parent = Root
     /\ \E e \in EntryOf(work) : /\ e.node > 0 /\ op.target = e.node
                                 /\ op.val = work.val[e.node]
  \/ /\ op.type = "reorder" /\ op.ref = Root
     /\ \E e \in EntryOf(work) :
          /\ e.node > 0 /\ op.target = e.node /\ op.order = e.index
          /\ op.parent = IF rows[e.node].parent # e.parent THEN e.parent ELSE Root
  \/ /\ op.type = "delete" /\ op.ref = Root /\ op.parent = Root
     /\ Live(rows, op.target) /\ op.target \notin SeenIn(work)
     /\ rows[op.target].parent \in SeenIn(work) \cup {Root}

\* The operations ask for the tree work where the rows are: nothing more, nothing less, and
\* in an order in which it can be done.
Asked(rows, work, ops) ==
  /\ \A n \in SeenIn(work) : Live(rows, n)
  /\ \A k \in DOMAIN ops : AsksFor(rows, work, ops[k])
  /\ \A e \in EntryOf(work) :
       /\ e.node < 0 => \E k \in DOMAIN ops : ops[k].type = "create" /\ ops[k].ref = e.node
       /\ e.node > 0 /\ work.val[e.node] # rows[e.node].val =>
            \E k \in DOMAIN ops : ops[k].type = "update" /\ ops[k].target = e.node
       /\ e.node > 0 /\ (rows[e.node].parent # e.parent \/ rows[e.node].order # e.index) =>
            \E k \in DOMAIN ops : ops[k].type = "reorder" /\ ops[k].target = e.node
  /\ \A n \in ServerId : Live(rows, n) /\ n \notin SeenIn(work)
                         /\ rows[n].parent \in SeenIn(work) \cup {Root} =>
       \E k \in DOMAIN ops : ops[k].type = "delete" /\ ops[k].target = n
  /\ SaysInOrder(ops)

\* The rows as entries of their tree, when their orders are their places.
LEMMA RowsAsEntries ==
  ASSUME NEW rows, RowsFit(rows), Dense(rows), NEW t, t = ServerTree(rows)
  PROVE  /\ Sound(t)
         /\ \A n : n \in Nodes(t) <=> Live(rows, n)
         /\ \A n \in Nodes(t) : /\ Old(t, n).node = n /\ Old(t, n) \in EntryOf(t)
                                /\ Old(t, n).parent = rows[n].parent
                                /\ Old(t, n).index = rows[n].order
                                /\ t.val[n] = rows[n].val
         /\ \A d \in EntryOf(t) : d.node \in Nodes(t) /\ d = Old(t, d.node)
<1>1. Sound(t) /\ Arranged(t) /\ Nodes(t) = Hung(t)
  BY ServerTreeIsSound, NodesHang DEF Sound
<1>2. \A p \in Node : Kin(t, p) = {n \in ServerId : Live(rows, n) /\ rows[n].parent = p}
  BY ServerTreeIsSound
<1>3. \A n : n \in Nodes(t) <=> Live(rows, n)
  BY ServerTreeIsSound
<1>4. /\ \A n \in Nodes(t) : Old(t, n) \in EntryOf(t) /\ Old(t, n).node = n
      /\ \A d \in EntryOf(t) : d.node \in Nodes(t) /\ Old(t, d.node) = d
  BY <1>1, OldIs
<1>5. ASSUME NEW n \in Nodes(t)
      PROVE  Old(t, n).parent = rows[n].parent /\ Old(t, n).index = rows[n].order
  <2>1. PICK d \in EntryOf(t) : d = Old(t, n) /\ d.node = n
    BY <1>4
  <2>2. /\ d.parent \in Node /\ d.index \in Nat /\ n \in Kin(t, d.parent)
    BY <1>1, <2>1, EntryIsOne
  <2>3. rows[n].parent = d.parent
    BY <1>2, <2>2
  <2>4. d.index + 1 \in DOMAIN t.kids[d.parent] /\ t.kids[d.parent][d.index + 1] = n
    BY <2>1 DEF EntryOf
  <2>5. rows[n].order = (d.index + 1) - 1
    BY <2>2, <2>4 DEF Dense
  <2> QED  BY <2>1, <2>2, <2>3, <2>5
<1>6. \A n \in Nodes(t) : t.val[n] = rows[n].val
  <2>1. \A n \in Node : t.val[n] = IF Live(rows, n) THEN rows[n].val ELSE NoValue
    BY DEF ServerTree
  <2>2. Nodes(t) \subseteq Node
    BY <1>1 DEF Hung
  <2> QED  BY <1>3, <2>1, <2>2
<1> QED  BY <1>1, <1>3, <1>4, <1>5, <1>6

LEMMA PendingAsks ==
  ASSUME NEW rows, RowsFit(rows), Dense(rows), NEW work, Sound(work),
         SeenIn(work) \subseteq Nodes(ServerTree(rows)),
         NEW ops, ops = Pending(BuildOperations(ServerTree(rows), work))
  PROVE  Asked(rows, work, ops)
<1>1. PICK t : t = ServerTree(rows)
  OBVIOUS
<1>2. /\ Sound(t)
      /\ \A n : n \in Nodes(t) <=> Live(rows, n)
      /\ \A n \in Nodes(t) : /\ Old(t, n).node = n /\ Old(t, n) \in EntryOf(t)
                             /\ Old(t, n).parent = rows[n].parent
                             /\ Old(t, n).index = rows[n].order
                             /\ t.val[n] = rows[n].val
      /\ \A d \in EntryOf(t) : d.node \in Nodes(t) /\ d = Old(t, d.node)
  BY <1>1, RowsAsEntries
<1>3. PICK built : built = BuildOperations(t, work) /\ Diff(t, work, built)
  BY <1>1, <1>2, BuiltSaysAll
<1>4. ops = Pending(built)
  BY <1>1, <1>3
<1>5. /\ DOMAIN ops = DOMAIN built
      /\ \A k \in DOMAIN ops : SameRequest(ops[k], built[k])
  BY <1>4 DEF Pending, SameRequest
<1>6. \A e \in EntryOf(work) : e.node > 0 => e.node \in Nodes(t) /\ Live(rows, e.node)
  <2>1. \A e \in EntryOf(work) : e.node \in Nodes(work) /\ e.node \in Node
    BY OldIs, EntryIsOne DEF Sound
  <2>2. \A e \in EntryOf(work) : e.node > 0 => e.node \in SeenIn(work)
    BY <2>1, NodesAreNumbers DEF SeenIn, IsNewKey
  <2> QED  BY <1>1, <1>2, <2>2
<1>7. ASSUME NEW k \in DOMAIN ops PROVE AsksFor(rows, work, ops[k])
  <2>1. PICK op : op = ops[k] /\ SameRequest(op, built[k]) /\ k \in DOMAIN built
    BY <1>5
  <2>2. CASE op.type = "delete"
    <3>1. PICK d \in TopmostGone(t, work) : SameRequest(built[k], DeleteOp(d.node))
      BY <1>3, <2>1, <2>2 DEF Diff, SaysWhatIsGone, SameRequest
    <3>2. /\ d \in EntryOf(t) /\ d.node \notin SeenIn(work)
          /\ d.parent \in SeenIn(work) \cup {Root}
      BY DEF TopmostGone
    <3>3. Live(rows, d.node) /\ d.parent = rows[d.node].parent
      BY <1>2, <3>2
    <3>4. op.target = d.node /\ op.ref = Root /\ op.parent = Root
      BY <2>1, <3>1 DEF SameRequest, DeleteOp
    <3> QED  BY <2>1, <2>2, <3>2, <3>3, <3>4 DEF AsksFor
  <2>3. CASE op.type # "delete"
    <3>1. PICK e \in EntryOf(work) :
            \/ e.node < 0 /\ SameRequest(built[k], CreateOp(work, e))
            \/ /\ e.node > 0 /\ work.val[e.node] # t.val[e.node]
               /\ SameRequest(built[k], UpdateOp(work, e))
            \/ e.node > 0 /\ Moved(t, e) /\ SameRequest(built[k], MoveOp(t, e))
      BY <1>3, <2>1, <2>3 DEF Diff, SaysOnlyChanges, SameRequest
    <3>2. CASE e.node < 0 /\ SameRequest(built[k], CreateOp(work, e))
      <4>1. /\ op.type = "create" /\ op.ref = e.node /\ op.parent = e.parent
            /\ op.order = e.index /\ op.val = work.val[e.node]
        BY <2>1, <3>2 DEF SameRequest, CreateOp
      <4> QED  BY <2>1, <3>2, <4>1 DEF AsksFor
    <3>3. CASE e.node > 0 /\ SameRequest(built[k], UpdateOp(work, e))
      <4>1. /\ op.type = "update" /\ op.ref = Root /\ op.parent = Root
            /\ op.target = e.node /\ op.val = work.val[e.node]
        BY <2>1, <3>3 DEF SameRequest, UpdateOp
      <4> QED  BY <2>1, <3>3, <4>1 DEF AsksFor
    <3>4. CASE e.node > 0 /\ SameRequest(built[k], MoveOp(t, e))
      <4>1. Old(t, e.node).parent = rows[e.node].parent
        BY <1>2, <1>6, <3>4
      <4>2. /\ op.type = "reorder" /\ op.ref = Root /\ op.target = e.node
            /\ op.order = e.index
            /\ op.parent = IF Old(t, e.node).parent # e.parent THEN e.parent ELSE Root
        BY <2>1, <3>4 DEF SameRequest, MoveOp
      <4> QED  BY <2>1, <3>4, <4>1, <4>2 DEF AsksFor
    <3> QED  BY <3>1, <3>2, <3>3, <3>4
  <2> QED  BY <2>2, <2>3
<1>8. ASSUME NEW e \in EntryOf(work)
      PROVE  /\ e.node < 0 => \E k \in DOMAIN ops : ops[k].type = "create" /\ ops[k].ref = e.node
             /\ e.node > 0 /\ work.val[e.node] # rows[e.node].val =>
                  \E k \in DOMAIN ops : ops[k].type = "update" /\ ops[k].target = e.node
             /\ e.node > 0 /\ (rows[e.node].parent # e.parent \/ rows[e.node].order # e.index) =>
                  \E k \in DOMAIN ops : ops[k].type = "reorder" /\ ops[k].target = e.node
  <2>1. CASE e.node < 0
    <3>1. PICK k \in DOMAIN ops : SameRequest(built[k], CreateOp(work, e))
      BY <1>3, <1>5, <2>1 DEF Diff, SaysAllChanges
    <3>2. ops[k].type = "create" /\ ops[k].ref = e.node
      BY <1>5, <3>1 DEF SameRequest, CreateOp
    <3>3. ~ (e.node > 0)
      <4>1. e.node \in Int
        BY EntryIsOne, NodesAreNumbers DEF Sound
      <4> QED  BY <2>1, <4>1
    <3> QED  BY <3>2, <3>3
  <2>2. ASSUME e.node > 0, work.val[e.node] # rows[e.node].val
        PROVE  \E k \in DOMAIN ops : ops[k].type = "update" /\ ops[k].target = e.node
    <3>1. work.val[e.node] # t.val[e.node]
      BY <1>2, <1>6, <2>2
    <3>2. PICK k \in DOMAIN ops : SameRequest(built[k], UpdateOp(work, e))
      BY <1>3, <1>5, <2>2, <3>1 DEF Diff, SaysAllChanges
    <3>3. ops[k].type = "update" /\ ops[k].target = e.node
      BY <1>5, <3>2 DEF SameRequest, UpdateOp
    <3> QED  BY <3>3
  <2>3. ASSUME e.node > 0, rows[e.node].parent # e.parent \/ rows[e.node].order # e.index
        PROVE  \E k \in DOMAIN ops : ops[k].type = "reorder" /\ ops[k].target = e.node
    <3>1. Moved(t, e)
      BY <1>2, <1>6, <2>3 DEF Moved
    <3>2. PICK k \in DOMAIN ops : SameRequest(built[k], MoveOp(t, e))
      BY <1>3, <1>5, <2>3, <3>1 DEF Diff, SaysAllChanges
    <3>3. ops[k].type = "reorder" /\ ops[k].target = e.node
      BY <1>5, <3>2 DEF SameRequest, MoveOp
    <3> QED  BY <3>3
  <2> QED  BY <2>1, <2>2, <2>3
<1>9. ASSUME NEW n \in ServerId, Live(rows, n), n \notin SeenIn(work),
             rows[n].parent \in SeenIn(work) \cup {Root}
      PROVE  \E k \in DOMAIN ops : ops[k].type = "delete" /\ ops[k].target = n
  <2>1. PICK d \in EntryOf(t) : d = Old(t, n) /\ d.node = n /\ d.parent = rows[n].parent
    BY <1>2, <1>9
  <2>2. d \in TopmostGone(t, work)
    BY <1>9, <2>1 DEF TopmostGone
  <2>3. PICK k \in DOMAIN ops : SameRequest(built[k], DeleteOp(d.node))
    BY <1>3, <1>5, <2>2 DEF Diff, SaysWhatIsGone
  <2>4. ops[k].type = "delete" /\ ops[k].target = n
    BY <1>5, <2>1, <2>3 DEF SameRequest, DeleteOp
  <2> QED  BY <2>4
<1>10. SaysInOrder(ops)
  <2>1. \A k \in DOMAIN ops : /\ ops[k].type = built[k].type /\ ops[k].target = built[k].target
                              /\ ops[k].ref = built[k].ref /\ ops[k].parent = built[k].parent
    BY <1>5 DEF SameRequest
  <2>2. SaysInOrder(built)
    BY <1>3 DEF Diff
  <2> QED  BY <1>5, <2>1, <2>2 DEF SaysInOrder
<1> QED  BY <1>1, <1>2, <1>7, <1>8, <1>9, <1>10 DEF Asked

\* An operation whose node and parent are there is applied.
LEMMA DoneIs ==
  ASSUME NEW s \in Applying, NEW k \in DOMAIN s.ops, NEW id,
         NEW v, {"ops", "broken"} \subseteq DOMAIN v, v.ops = s.ops, v.broken = s.broken
  PROVE  Done(v, k, id).ops[k].st = "applied" /\ Done(v, k, id).broken = s.broken
<1>1. PICK o \in Seq(Op) : o = s.ops /\ k \in DOMAIN o
  BY DEF Applying
<1>3. v.ops = o /\ v.broken = s.broken
  BY <1>1
<1>4. Done(v, k, id) = [v EXCEPT !.ops = [o EXCEPT ![k] = [o[k] EXCEPT !.st = "applied", !.made = id]]]
  <2> HIDE DEF Op, Row
  <2> QED  BY <1>1, <1>3 DEF Done
<1>5. [o[k] EXCEPT !.st = "applied", !.made = id].st = "applied"
  <2>1. PICK z \in Op : z = o[k]
    BY <1>1
  <2> QED  BY <2>1 DEF Op
<1>6. PICK y : y = [o[k] EXCEPT !.st = "applied", !.made = id] /\ y.st = "applied"
  BY <1>5
<1>7. PICK p : p = [o EXCEPT ![k] = y] /\ p[k] = y
  <2>1. [o EXCEPT ![k] = y][k] = y
    <3> HIDE DEF Op
    <3> QED  BY <1>1
  <2> QED  BY <2>1
<1>8. Done(v, k, id) = [v EXCEPT !.ops = p]
  BY <1>4, <1>6, <1>7
<1>9. [v EXCEPT !.ops = p].ops = p /\ [v EXCEPT !.ops = p].broken = v.broken
  OBVIOUS
<1> QED  BY <1>3, <1>6, <1>7, <1>8, <1>9

LEMMA RowsAndRefs ==
  ASSUME NEW s \in Applying, NEW r, NEW f, NEW v,
         v = [s EXCEPT !.row = r] \/ v = [s EXCEPT !.row = r, !.refs = f]
  PROVE  {"ops", "broken"} \subseteq DOMAIN v /\ v.ops = s.ops /\ v.broken = s.broken
<1> HIDE DEF Op, Row
<1> QED  BY DEF Applying

LEMMA Succeeds ==
  ASSUME NEW ops, NEW rows, Applicable(ops, rows),
         NEW k \in Nat, k + 1 \in DOMAIN ops, NEW s, Carried(ops, rows, s, k), ~ s.broken,
         NEW op, op = s.ops[k + 1],
         op.type # "create" => Live(s.row, op.target),
         op.type \in {"create", "reorder"} /\ op.parent # Root => Live(s.row, ResolveRef(s, op.parent)),
         NEW u, u = ApplyOne(s, k + 1)
  PROVE  /\ ~ u.broken /\ u.ops[k + 1].st = "applied"
         /\ Carried(ops, rows, u, k + 1) /\ Stepped(s, u, k + 1)
<1>1. s \in Applying /\ k + 1 \in DOMAIN s.ops
  BY AtHand DEF Carried
<1>2. op \in Op /\ OpFits(op)
  BY AtHand
<1>3. op.type \in {"create", "update", "delete", "reorder"}
  BY <1>2 DEF Op
<1>4. ~ Live(s.row, Unresolved)
  BY NodesAreNumbers DEF Live, Unresolved
<1> DEFINE Fine(v) == ~ v.broken /\ v.ops[k + 1].st = "applied"
<1>5. ASSUME op.type = "update" PROVE Fine(u)
  <2>1. u = Done([s EXCEPT !.row[op.target].val = op.val], k + 1, op.target)
    BY <1>5 DEF ApplyOne, ApplyUpdate
  <2>2. PICK r : r = [s.row EXCEPT ![op.target].val = op.val]
    OBVIOUS
  <2>3. PICK v : v = [s EXCEPT !.row = r] /\ u = Done(v, k + 1, op.target)
    BY <2>1, <2>2
  <2>4. {"ops", "broken"} \subseteq DOMAIN v /\ v.ops = s.ops /\ v.broken = s.broken
    BY <1>1, <2>3, RowsAndRefs
  <2> QED  BY <1>1, <2>3, <2>4, DoneIs
<1>6. ASSUME op.type = "delete" PROVE Fine(u)
  <2>1. PICK r : r = [m \in ServerId |-> IF m \in Below(s.row, op.target)
                                          THEN [NoRow EXCEPT !.st = "gone"] ELSE s.row[m]]
    OBVIOUS
  <2>2. PICK v : v = [s EXCEPT !.row = r] /\ u = Done(v, k + 1, op.target)
    BY <1>6, <2>1 DEF ApplyOne, ApplyDelete
  <2>3. {"ops", "broken"} \subseteq DOMAIN v /\ v.ops = s.ops /\ v.broken = s.broken
    BY <1>1, <2>2, RowsAndRefs
  <2> QED  BY <1>1, <2>2, <2>3, DoneIs
<1>7. ASSUME op.type = "reorder" PROVE Fine(u)
  <2>1. PICK q : q = ResolveRef(s, op.parent)
    OBVIOUS
  <2>2. PICK ordered : ordered = [s EXCEPT !.row[op.target].order = op.order]
    OBVIOUS
  <2>3. PICK r : r = [s.row EXCEPT ![op.target].order = op.order]
    OBVIOUS
  <2>4. ordered = [s EXCEPT !.row = r]
    BY <2>2, <2>3
  <2>5. CASE op.parent = Root
    <3>1. u = Done(ordered, k + 1, op.target)
      BY <1>7, <2>2, <2>5 DEF ApplyOne, ApplyReorder
    <3>2. {"ops", "broken"} \subseteq DOMAIN ordered /\ ordered.ops = s.ops
          /\ ordered.broken = s.broken
      BY <1>1, <2>4, RowsAndRefs
    <3> QED  BY <1>1, <3>1, <3>2, DoneIs
  <2>6. CASE op.parent # Root
    <3>1. u = Done([ordered EXCEPT !.row[op.target].parent = q], k + 1, op.target)
      BY <1>4, <1>7, <2>1, <2>2, <2>6 DEF ApplyOne, ApplyReorder
    <3>2. PICK r2 : r2 = [r EXCEPT ![op.target].parent = q]
      OBVIOUS
    <3>3. ordered.row = r
      <4> HIDE DEF Op, Row
      <4> QED  BY <1>1, <2>4 DEF Applying
    <3>4. [ordered EXCEPT !.row[op.target].parent = q] = [ordered EXCEPT !.row = r2]
      BY <3>2, <3>3
    <3>5. [ordered EXCEPT !.row = r2] = [s EXCEPT !.row = r2]
      <4> HIDE DEF Op, Row
      <4> QED  BY <1>1, <2>4 DEF Applying
    <3>6. PICK v : v = [s EXCEPT !.row = r2] /\ u = Done(v, k + 1, op.target)
      BY <3>1, <3>4, <3>5
    <3>7. {"ops", "broken"} \subseteq DOMAIN v /\ v.ops = s.ops /\ v.broken = s.broken
      BY <1>1, <3>6, RowsAndRefs
    <3> QED  BY <1>1, <3>6, <3>7, DoneIs
  <2> QED  BY <2>5, <2>6
<1>8. ASSUME op.type = "create" PROVE Fine(u)
  <2>1. PICK q : q = IF op.ref \in Chapter THEN Root ELSE ResolveRef(s, op.parent)
    OBVIOUS
  <2>2. op.ref \in Chapter <=> op.parent = Root
    BY <1>2, <1>8, Levels DEF OpFits
  <2>3. op.ref \notin Chapter => Live(s.row, q)
    BY <1>8, <2>1, <2>2
  <2>4. PICK id : id = NextId(s.row, KindOf(op.ref))
    OBVIOUS
  <2>5. u = Done([s EXCEPT !.row[id] = [st |-> "live", parent |-> q, order |-> op.order,
                                        val |-> op.val],
                           !.refs[op.ref] = id], k + 1, id)
    <3>1. ~ (op.ref \notin Chapter /\ q = Unresolved)
      BY <1>4, <2>3
    <3> QED  BY <1>8, <2>1, <2>3, <2>4, <3>1 DEF ApplyOne, ApplyCreate
  <2>6. PICK r, f : /\ r = [s.row EXCEPT ![id] = [st |-> "live", parent |-> q,
                                                  order |-> op.order, val |-> op.val]]
                    /\ f = [s.refs EXCEPT ![op.ref] = id]
    OBVIOUS
  <2>7. PICK v : v = [s EXCEPT !.row = r, !.refs = f]
    OBVIOUS
  <2>8. {"ops", "broken"} \subseteq DOMAIN v /\ v.ops = s.ops /\ v.broken = s.broken
    BY <1>1, <2>7, RowsAndRefs, Zenon
  <2>9. u = Done(v, k + 1, id)
    BY <2>5, <2>6, <2>7
  <2> QED  BY <1>1, <2>8, <2>9, DoneIs
<1>9. Fine(u)
  BY <1>3, <1>5, <1>6, <1>7, <1>8
<1>10. Carried(ops, rows, u, k + 1) /\ Stepped(s, u, k + 1)
  BY <1>9, StepCarries
<1> QED  BY <1>9, <1>10

\* A request that can be approved as a whole.
Whole(rows, work, ops) ==
  Sound(work) /\ Applicable(ops, rows) /\ Coherent(ops) /\ Asked(rows, work, ops)

\* Some operation up to k does this to n.
Told(ops, k, type, n) == \E j \in DOMAIN ops : j <= k /\ ops[j].type = type /\ ops[j].target = n

\* A row that the tree keeps is there, as it was but for what the operations up to k say.
Remains(rows, ops, s, k, n) ==
  /\ s.row[n].st = "live"
  /\ ~ Told(ops, k, "update", n) => s.row[n].val = rows[n].val
  /\ ~ Told(ops, k, "reorder", n) => s.row[n].order = rows[n].order
  /\ (\A j \in DOMAIN ops : j <= k /\ ops[j].type = "reorder" /\ ops[j].target = n =>
        ops[j].parent = Root)
     => s.row[n].parent = rows[n].parent

\* While the whole of a request is applied, after operation k: all went well so far, what
\* the tree keeps is there and so is what was created, each in a row of its own; another row
\* is as it was or gone, and what is still to be deleted is there.
Ongoing(rows, work, ops, s, k) ==
  /\ ~ s.broken
  /\ \A j \in DOMAIN ops : j <= k => s.ops[j].st = "applied"
  /\ \A n \in SeenIn(work) : Remains(rows, ops, s, k, n)
  /\ \A j \in DOMAIN ops : j <= k /\ ops[j].type = "create" =>
       s.refs[ops[j].ref] = s.ops[j].made /\ s.row[s.ops[j].made].st = "live"
  /\ \A i, j \in DOMAIN ops :
       i <= k /\ ops[i].type = "create" /\ j <= k /\ ops[j].type = "create"
       /\ s.ops[i].made = s.ops[j].made => i = j
  /\ \A m \in ServerId : m \notin SeenIn(work) =>
       \/ s.row[m] = rows[m]
       \/ s.row[m].st = "gone" /\ Live(rows, m)
       \/ \E j \in DOMAIN ops : j <= k /\ ops[j].type = "create" /\ s.ops[j].made = m
  /\ \A j \in DOMAIN ops : j > k /\ ops[j].type = "delete" => Live(s.row, ops[j].target)

\* Every node of the tree has its row, at its place and with its fields.
Placement(work, s) ==
  \A e \in EntryOf(work) :
    /\ \E p \in ServerId : Names(s.ops, e.node, p)
    /\ \A p : Names(s.ops, e.node, p) =>
         /\ p \in ServerId /\ s.row[p].st = "live"
         /\ s.row[p].order = e.index /\ s.row[p].val = work.val[e.node]
         /\ Names(s.ops, e.parent, s.row[p].parent)

LEMMA SeenIs ==
  ASSUME NEW work, Sound(work)
  PROVE  /\ \A e \in EntryOf(work) :
              /\ e.node \in Node /\ e.node # Root /\ e.node \in Int /\ e.node \in Nodes(work)
              /\ e.node > 0 => e.node \in SeenIn(work) /\ e.node \in ServerId
              /\ e.parent \in Node /\ e.parent \in Int /\ MayHold(e.parent, e.node)
              /\ e.parent > 0 => e.parent \in SeenIn(work)
              /\ e.parent # Root => \E d \in EntryOf(work) : d.node = e.parent
         /\ \A n \in SeenIn(work) :
              n > 0 /\ n \in ServerId /\ \E e \in EntryOf(work) : e.node = n
<1>1. Arranged(work) /\ Nodes(work) = Hung(work) /\ Rooted(work)
  BY NodesHang DEF Sound
<1>2. \A e \in EntryOf(work) :
        /\ e.node \in Node /\ e.node # Root /\ e.node \in Int /\ e.node \in Nodes(work)
        /\ e.parent \in Node /\ e.parent \in Int /\ MayHold(e.parent, e.node)
        /\ e.parent = Root \/ e.parent \in Nodes(work)
  <2>1. \A e \in EntryOf(work) : /\ e.node \in Node /\ e.parent \in Node
                                 /\ e.node \in Kin(work, e.parent)
                                 /\ MayHold(e.parent, e.node)
    BY <1>1, EntryIsOne
  <2> QED  BY <1>1, <2>1, Levels, NodesAreNumbers DEF Hung, Rooted
<1>3. \A n \in Nodes(work) : n \in Node /\ \E e \in EntryOf(work) : e.node = n
  <2>1. \A n \in Nodes(work) : Old(work, n) \in EntryOf(work) /\ Old(work, n).node = n
    BY OldIs
  <2> QED  BY <1>1, <2>1 DEF Hung
<1>4. \A n \in Node : n > 0 => ~ IsNewKey(n) /\ n \in ServerId
  BY NodesAreNumbers DEF IsNewKey
<1>5. \A n \in SeenIn(work) : n \in Nodes(work) /\ n \in Node /\ n > 0 /\ n \in ServerId
  <2>1. \A n \in Nodes(work) : n # Root /\ n \in Node
    BY <1>1, <1>3, <1>2
  <2> QED  BY <2>1, NodesAreNumbers DEF SeenIn, IsNewKey
<1>6. ASSUME NEW m \in Nodes(work), m > 0 PROVE m \in SeenIn(work) /\ m \in ServerId
  BY <1>3, <1>4, <1>6 DEF SeenIn
<1>7. ASSUME NEW e \in EntryOf(work), e.parent > 0 PROVE e.parent \in SeenIn(work)
  <2>1. e.parent # Root
    BY <1>7 DEF Root
  <2> QED  BY <1>2, <1>6, <1>7, <2>1
<1> QED  BY <1>2, <1>3, <1>5, <1>6, <1>7

\* The rows that the tree keeps were there, and those that are created were not.
LEMMA MadeIsNew ==
  ASSUME NEW rows, NEW work, NEW ops, Whole(rows, work, ops), NEW approved, NEW k,
         NEW s, Carried(ops, rows, s, k), Effective(ops, rows, approved, s, k),
         Ongoing(rows, work, ops, s, k), NEW j \in DOMAIN ops, j <= k, ops[j].type = "create"
  PROVE  /\ s.ops[j].made \in ServerId /\ rows[s.ops[j].made].st = "unborn"
         /\ s.ops[j].made \notin SeenIn(work) /\ s.ops[j].made # Unresolved
<1>1. Lasts(rows, s, j) /\ s.ops[j].type = "create"
  BY DEF Ongoing, Effective, Carried, SameRequest
<1>2. s.ops[j].made \in ServerId /\ rows[s.ops[j].made].st = "unborn"
  BY <1>1 DEF Lasts
<1> QED  BY <1>2, NodesAreNumbers DEF Whole, Asked, Live, Unresolved

\* The names of nodes are one each.
LEMMA NamedOnce ==
  ASSUME NEW rows, NEW work, NEW ops, Whole(rows, work, ops),
         NEW k, NEW s, Carried(ops, rows, s, k),
         NEW j \in DOMAIN ops, ops[j].type = "create", NEW p, Names(s.ops, ops[j].ref, p)
  PROVE  p = s.ops[j].made
<1>1. OpsFit(ops) /\ ops[j].ref < 0
  BY DEF Whole, Applicable, OpsFit, OpFits
<1>2. PICK i \in DOMAIN ops : s.ops[i].ref = ops[j].ref /\ s.ops[i].made = p
  BY <1>1 DEF Names, IsNewKey, Carried
<1>3. ops[i].ref = ops[j].ref
  BY <1>2 DEF Carried, SameRequest
<1>4. ops[i].type = "create"
  <2>1. ops[i].ref # Root
    BY <1>1, <1>3 DEF Root
  <2> QED  BY <2>1 DEF Whole, Asked, AsksFor
<1>5. i = j
  BY <1>1, <1>3, <1>4 DEF OpsFit
<1> QED  BY <1>2, <1>5

LEMMA WorkIsPlaced ==
  ASSUME NEW rows, NEW work, NEW ops, Whole(rows, work, ops), NEW approved, NEW k,
         NEW s, Carried(ops, rows, s, k), Effective(ops, rows, approved, s, k),
         Ongoing(rows, work, ops, s, k),
         \A j \in DOMAIN ops : ops[j].type # "delete" => j <= k
  PROVE  Placement(work, s)
<1> SUFFICES ASSUME NEW e \in EntryOf(work)
             PROVE  /\ \E p \in ServerId : Names(s.ops, e.node, p)
                    /\ \A p : Names(s.ops, e.node, p) =>
                         /\ p \in ServerId /\ s.row[p].st = "live"
                         /\ s.row[p].order = e.index /\ s.row[p].val = work.val[e.node]
                         /\ Names(s.ops, e.parent, s.row[p].parent)
  BY DEF Placement
<1>1. /\ e.node \in Node /\ e.node # Root /\ e.node \in Int
      /\ e.node > 0 => e.node \in SeenIn(work) /\ e.node \in ServerId
      /\ e.parent \in Node /\ e.parent \in Int /\ MayHold(e.parent, e.node)
  BY SeenIs DEF Whole
<1>2. \A d \in EntryOf(work) : d.node = e.node => d = e
  BY EntryIsOne DEF Whole, Sound
<1>3. \A j \in DOMAIN ops : ops[j].type # "delete" => s.ops[j].st = "applied" /\ Lasts(rows, s, j)
  BY DEF Ongoing, Effective
<1>4. \A j \in DOMAIN ops : SameRequest(s.ops[j], ops[j]) /\ AsksFor(rows, work, ops[j])
                            /\ j \in DOMAIN s.ops
  BY DEF Carried, Whole, Asked
<1>5. CASE e.node < 0
  <2>1. PICK j \in DOMAIN ops : ops[j].type = "create" /\ ops[j].ref = e.node
    BY <1>5 DEF Whole, Asked
  <2>2. /\ ops[j].parent = e.parent /\ ops[j].order = e.index
        /\ ops[j].val = work.val[e.node]
    BY <1>2, <1>4, <2>1 DEF AsksFor
  <2>3. PICK p : p = s.ops[j].made /\ p \in ServerId /\ p # Unresolved /\ s.row[p].st = "live"
    BY <2>1, MadeIsNew DEF Ongoing
  <2>4. Names(s.ops, e.node, p)
    BY <1>4, <1>5, <2>1, <2>3 DEF Names, IsNewKey, SameRequest
  <2>5. \A q : Names(s.ops, e.node, q) => q = p
    BY <2>1, <2>3, NamedOnce
  <2>6. /\ s.row[p].val = ops[j].val /\ s.row[p].order = ops[j].order
        /\ Names(s.ops, ops[j].parent, s.row[p].parent)
    BY <1>3, <1>4, <2>1, <2>3 DEF Lasts, SameRequest
  <2> QED  BY <2>2, <2>3, <2>4, <2>5, <2>6
<1>6. CASE ~ (e.node < 0)
  <2>1. PICK n \in ServerId : n = e.node /\ n \in SeenIn(work) /\ n > 0
    <3>1. e.node > 0
      BY <1>1, <1>6 DEF Root
    <3> QED  BY <1>1, <3>1
  <2>2. \A p : Names(s.ops, e.node, p) <=> p = n
    BY <1>6, <2>1 DEF Names, IsNewKey
  <2>3. Remains(rows, ops, s, k, n)
    BY <2>1 DEF Ongoing
  <2>4. s.row[n].st = "live"
    BY <2>3 DEF Remains
  <2>5. ASSUME NEW j \in DOMAIN ops, ops[j].target = n, ops[j].type \in {"update", "reorder"}
        PROVE  /\ ops[j].type = "update" => s.row[n].val = ops[j].val
               /\ ops[j].type = "reorder" => s.row[n].order = ops[j].order
               /\ ops[j].type = "reorder" /\ ops[j].parent # Root =>
                    Names(s.ops, ops[j].parent, s.row[n].parent)
    BY <1>3, <1>4, <2>4, <2>5 DEF Lasts, SameRequest
  <2>6. s.row[n].val = work.val[n]
    <3>1. CASE \E j \in DOMAIN ops : ops[j].type = "update" /\ ops[j].target = n
      <4>1. PICK j \in DOMAIN ops : ops[j].type = "update" /\ ops[j].target = n
        BY <3>1
      <4>2. ops[j].val = work.val[n]
        BY <1>4, <4>1 DEF AsksFor
      <4> QED  BY <2>5, <4>1, <4>2
    <3>2. CASE ~ \E j \in DOMAIN ops : ops[j].type = "update" /\ ops[j].target = n
      <4>1. work.val[n] = rows[n].val
        BY <2>1, <3>2 DEF Whole, Asked
      <4>2. ~ Told(ops, k, "update", n)
        BY <3>2 DEF Told
      <4> QED  BY <2>3, <4>1, <4>2 DEF Remains
    <3> QED  BY <3>1, <3>2
  <2>7. s.row[n].order = e.index /\ Names(s.ops, e.parent, s.row[n].parent)
    <3>1. Live(rows, n) /\ MayHold(rows[n].parent, n) /\ rows[n].parent \in Node
      BY <2>1, Levels DEF Whole, Asked, Applicable, RowsFit, Live
    <3>2. rows[n].parent = e.parent => ~ (e.parent < 0)
      <4>1. rows[n].parent = Root \/ Live(rows, rows[n].parent)
        BY <3>1 DEF Whole, Applicable, RowsFit, Live
      <4>2. \A m \in ServerId : m \in Int /\ ~ (m < 0)
        <5>1. \A m \in ServerId : m \in Int /\ m > 0
          BY NodesAreNumbers
        <5> QED  BY <5>1
      <4> QED  BY <4>1, <4>2 DEF Live, Root
    <3>3. CASE \E j \in DOMAIN ops : ops[j].type = "reorder" /\ ops[j].target = n
      <4>1. PICK j \in DOMAIN ops : ops[j].type = "reorder" /\ ops[j].target = n
        BY <3>3
      <4>2. /\ ops[j].order = e.index
            /\ ops[j].parent = IF rows[n].parent # e.parent THEN e.parent ELSE Root
        BY <1>2, <1>4, <2>1, <4>1 DEF AsksFor
      <4>3. s.row[n].order = e.index
        BY <2>5, <4>1, <4>2
      <4>4. CASE ops[j].parent # Root
        BY <2>5, <4>1, <4>2, <4>4
      <4>5. CASE ops[j].parent = Root
        <5>1. rows[n].parent = e.parent
          BY <1>1, <2>1, <3>1, <4>2, <4>5, Levels
        <5>2. \A i \in DOMAIN ops : ops[i].type = "reorder" /\ ops[i].target = n => i = j
          BY <4>1 DEF Whole, Coherent
        <5>3. s.row[n].parent = rows[n].parent
          BY <2>3, <4>5, <5>2 DEF Remains
        <5> QED  BY <3>2, <4>3, <5>1, <5>3 DEF Names, IsNewKey
      <4> QED  BY <4>3, <4>4, <4>5
    <3>4. CASE ~ \E j \in DOMAIN ops : ops[j].type = "reorder" /\ ops[j].target = n
      <4>1. rows[n].parent = e.parent /\ rows[n].order = e.index
        BY <2>1, <3>4 DEF Whole, Asked
      <4>2. s.row[n].order = rows[n].order /\ s.row[n].parent = rows[n].parent
        BY <2>3, <3>4 DEF Remains, Told
      <4> QED  BY <3>2, <4>1, <4>2 DEF Names, IsNewKey
    <3> QED  BY <3>3, <3>4
  <2> QED  BY <2>1, <2>2, <2>4, <2>6, <2>7
<1> QED  BY <1>5, <1>6

\* The next operation goes well too.
LEMMA NextSucceeds ==
  ASSUME NEW rows, NEW work, NEW ops, Whole(rows, work, ops),
         NEW k \in Nat, k + 1 \in DOMAIN ops,
         NEW approved,
         NEW s, Carried(ops, rows, s, k), Effective(ops, rows, approved, s, k),
         Ongoing(rows, work, ops, s, k),
         NEW u, u = ApplyOne(s, k + 1)
  PROVE  /\ ~ u.broken /\ u.ops[k + 1].st = "applied"
         /\ Carried(ops, rows, u, k + 1) /\ Stepped(s, u, k + 1)
<1>1. PICK op : op = s.ops[k + 1] /\ SameRequest(op, ops[k + 1])
  BY DEF Carried
<1>2. AsksFor(rows, work, ops[k + 1]) /\ Applicable(ops, rows) /\ ~ s.broken
  BY DEF Whole, Asked, Ongoing
<1>3. op.type # "create" => Live(s.row, op.target)
  <2>1. CASE op.type \in {"update", "reorder"}
    <3>1. PICK e \in EntryOf(work) : e.node > 0 /\ op.target = e.node
      BY <1>1, <1>2, <2>1 DEF AsksFor, SameRequest
    <3>2. op.target \in SeenIn(work) /\ op.target \in ServerId
      BY <3>1, SeenIs DEF Whole
    <3> QED  BY <3>2 DEF Ongoing, Remains, Live
  <2>2. CASE op.type = "delete"
    <3>1. k + 1 > k
      OBVIOUS
    <3> QED  BY <1>1, <2>2, <3>1 DEF Ongoing, SameRequest
  <2> QED  BY <1>1, <1>2, <2>1, <2>2 DEF AsksFor, SameRequest
<1>4. op.type \in {"create", "reorder"} /\ op.parent # Root => Live(s.row, ResolveRef(s, op.parent))
  <2> SUFFICES ASSUME op.type \in {"create", "reorder"}, op.parent # Root
               PROVE  Live(s.row, ResolveRef(s, op.parent))
    OBVIOUS
  <2>1. PICK e \in EntryOf(work) : e.parent = op.parent
    BY <1>1, <1>2 DEF AsksFor, SameRequest
  <2>2. PICK p \in Int : p = op.parent /\ (p > 0 => p \in SeenIn(work)) /\ p # 0
    BY <2>1, SeenIs DEF Whole, Root
  <2>3. CASE p > 0
    <3>1. ResolveRef(s, p) = p
      BY <2>2, <2>3 DEF ResolveRef, IsNewKey
    <3>2. p \in SeenIn(work) /\ p \in ServerId
      BY <2>2, <2>3, SeenIs DEF Whole
    <3> QED  BY <2>2, <3>1, <3>2 DEF Ongoing, Remains, Live
  <2>4. CASE p < 0
    <3>1. PICK j \in DOMAIN ops : j < k + 1 /\ ops[j].type = "create" /\ ops[j].ref = p
      BY <1>1, <2>2, <2>4 DEF Whole, Asked, SaysInOrder, SameRequest
    <3>2. j <= k
      BY <3>1 DEF Whole, Applicable, OpsFit
    <3>3. s.refs[p] = s.ops[j].made /\ s.row[s.ops[j].made].st = "live"
      BY <3>1, <3>2 DEF Ongoing
    <3>4. p \in NewKey
      BY <2>1, <2>2, <2>4, SeenIs DEF NewKey, IsNewKey, Whole
    <3>5. s.refs[p] # Unresolved => s.refs[p] \in ServerId
      BY <3>4 DEF Carried
    <3>6. s.refs[p] # Unresolved
      BY <3>1, <3>2, <3>3, MadeIsNew
    <3> QED  BY <2>2, <2>4, <3>3, <3>5, <3>6 DEF ResolveRef, IsNewKey, Live
  <2> QED  BY <2>2, <2>3, <2>4
<1> QED  BY <1>1, <1>2, <1>3, <1>4, Succeeds

\* What one more operation has to leave.
LEMMA GoesOn ==
  ASSUME NEW rows, NEW work, NEW ops, Whole(rows, work, ops),
         NEW k \in Nat, k + 1 \in DOMAIN ops,
         NEW s, Carried(ops, rows, s, k), Ongoing(rows, work, ops, s, k),
         NEW u, ~ u.broken, Ticked(s.ops, u.ops, k + 1), u.ops[k + 1].st = "applied",
         NEW op, op = ops[k + 1],
         \A n \in SeenIn(work) :
           /\ u.row[n].st = "live"
           /\ u.row[n].val = s.row[n].val \/ (op.type = "update" /\ op.target = n)
           /\ u.row[n].order = s.row[n].order \/ (op.type = "reorder" /\ op.target = n)
           /\ \/ u.row[n].parent = s.row[n].parent
              \/ op.type = "reorder" /\ op.target = n /\ op.parent # Root,
         \A j \in DOMAIN ops : j <= k /\ ops[j].type = "create" =>
           u.refs[ops[j].ref] = s.refs[ops[j].ref] /\ u.row[s.ops[j].made].st = "live",
         op.type = "create" =>
           /\ u.refs[op.ref] = u.ops[k + 1].made /\ u.row[u.ops[k + 1].made].st = "live"
           /\ s.row[u.ops[k + 1].made].st = "unborn",
         \A m \in ServerId : m \notin SeenIn(work) =>
           \/ u.row[m] = s.row[m]
           \/ u.row[m].st = "gone" /\ Live(s.row, m)
           \/ op.type = "create" /\ u.ops[k + 1].made = m,
         \A j \in DOMAIN ops : j > k + 1 /\ ops[j].type = "delete" => Live(u.row, ops[j].target)
  PROVE  Ongoing(rows, work, ops, u, k + 1)
<1>1. \A j \in DOMAIN ops : j <= k + 1 <=> j <= k \/ j = k + 1
  BY DEF Whole, Applicable, OpsFit
<1>2. \A j \in DOMAIN ops : j # k + 1 => u.ops[j] = s.ops[j]
  BY DEF Ticked, Carried
<1>3. \A j \in DOMAIN ops : j <= k => u.ops[j] = s.ops[j]
  <2>1. \A j \in DOMAIN ops : j <= k => j # k + 1
    OBVIOUS
  <2> QED  BY <1>2, <2>1
<1>4. \A j \in DOMAIN ops : j <= k + 1 => u.ops[j].st = "applied"
  BY <1>1, <1>3 DEF Ongoing
<1>5. ASSUME NEW n \in SeenIn(work) PROVE Remains(rows, ops, u, k + 1, n)
  <2>1. Remains(rows, ops, s, k, n)
    BY DEF Ongoing
  <2>2. ASSUME ~ Told(ops, k + 1, "update", n) PROVE u.row[n].val = rows[n].val
    <3>1. ~ Told(ops, k, "update", n)
      BY <1>1, <2>2 DEF Told
    <3>2. ~ (op.type = "update" /\ op.target = n)
      BY <1>1, <2>2 DEF Told
    <3> QED  BY <2>1, <3>1, <3>2 DEF Remains
  <2>3. ASSUME ~ Told(ops, k + 1, "reorder", n) PROVE u.row[n].order = rows[n].order
    <3>1. ~ Told(ops, k, "reorder", n)
      BY <1>1, <2>3 DEF Told
    <3>2. ~ (op.type = "reorder" /\ op.target = n)
      BY <1>1, <2>3 DEF Told
    <3> QED  BY <2>1, <3>1, <3>2 DEF Remains
  <2>4. ASSUME \A j \in DOMAIN ops : j <= k + 1 /\ ops[j].type = "reorder" /\ ops[j].target = n =>
                 ops[j].parent = Root
        PROVE  u.row[n].parent = rows[n].parent
    <3>1. \A j \in DOMAIN ops : j <= k /\ ops[j].type = "reorder" /\ ops[j].target = n =>
            ops[j].parent = Root
      BY <1>1, <2>4
    <3>2. ~ (op.type = "reorder" /\ op.target = n /\ op.parent # Root)
      BY <1>1, <2>4
    <3> QED  BY <2>1, <3>1, <3>2 DEF Remains
  <2> QED  BY <2>2, <2>3, <2>4 DEF Remains
<1>6. ASSUME NEW j \in DOMAIN ops, j <= k + 1, ops[j].type = "create"
      PROVE  u.refs[ops[j].ref] = u.ops[j].made /\ u.row[u.ops[j].made].st = "live"
  <2>1. CASE j <= k
    BY <1>3, <1>6, <2>1 DEF Ongoing
  <2>2. CASE j = k + 1
    BY <1>6, <2>2
  <2> QED  BY <1>1, <1>6, <2>1, <2>2
<1>7. ASSUME NEW i \in DOMAIN ops, i <= k, ops[i].type = "create", op.type = "create"
      PROVE  u.ops[i].made # u.ops[k + 1].made
  <2>1. s.row[s.ops[i].made].st = "live"
    BY <1>7 DEF Ongoing
  <2> QED  BY <1>3, <1>7, <2>1
<1>8. ASSUME NEW i \in DOMAIN ops, NEW j \in DOMAIN ops, i <= k + 1, ops[i].type = "create",
             j <= k + 1, ops[j].type = "create", u.ops[i].made = u.ops[j].made
      PROVE  i = j
  <2>1. CASE i <= k /\ j <= k
    BY <1>3, <1>8, <2>1 DEF Ongoing
  <2>2. CASE i = k + 1 \/ j = k + 1
    BY <1>1, <1>7, <1>8, <2>2
  <2> QED  BY <1>1, <1>8, <2>1, <2>2
<1>9. ASSUME NEW m \in ServerId, m \notin SeenIn(work)
      PROVE  \/ u.row[m] = rows[m]
             \/ u.row[m].st = "gone" /\ Live(rows, m)
             \/ \E j \in DOMAIN ops : j <= k + 1 /\ ops[j].type = "create" /\ u.ops[j].made = m
  <2>1. CASE op.type = "create" /\ u.ops[k + 1].made = m
    BY <1>1, <2>1
  <2>2. CASE \E j \in DOMAIN ops : j <= k /\ ops[j].type = "create" /\ s.ops[j].made = m
    BY <1>1, <1>3, <2>2
  <2>3. CASE s.row[m] = rows[m] /\ (u.row[m] = s.row[m] \/ (u.row[m].st = "gone" /\ Live(s.row, m)))
    BY <2>3 DEF Live
  <2>4. CASE s.row[m].st = "gone" /\ Live(rows, m)
    BY <1>9, <2>1, <2>4 DEF Live
  <2> QED  BY <1>9, <2>1, <2>2, <2>3, <2>4 DEF Ongoing
<1> QED  BY <1>4, <1>5, <1>6, <1>8, <1>9 DEF Ongoing

\* A deletion takes nothing along that has its place in the tree.
LEMMA DeletesNoPlaced ==
  ASSUME NEW work, Sound(work), NEW s, Placement(work, s), NEW d \in ServerId,
         \A e \in EntryOf(work) : ~ Names(s.ops, e.node, d),
         NEW e \in EntryOf(work), NEW p, Names(s.ops, e.node, p)
  PROVE  p \notin Below(s.row, d)
<1> DEFINE Mine(m) == \E f \in EntryOf(work) : Names(s.ops, f.node, m)
           kids == {m \in ServerId : Live(s.row, m) /\ s.row[m].parent = d}
           grandkids == {m \in ServerId : Live(s.row, m) /\ s.row[m].parent \in kids}
<1>1. ASSUME NEW m, Mine(m) PROVE s.row[m].parent = Root \/ Mine(s.row[m].parent)
  <2>1. PICK f \in EntryOf(work) : Names(s.ops, f.node, m)
    BY <1>1
  <2>2. Names(s.ops, f.parent, s.row[m].parent)
    BY <2>1 DEF Placement
  <2>3. CASE f.parent = Root
    BY <2>2, <2>3 DEF Names, IsNewKey, Root
  <2>4. CASE f.parent # Root
    <3>1. PICK g \in EntryOf(work) : g.node = f.parent
      BY <2>4, SeenIs
    <3> QED  BY <2>2, <3>1
  <2> QED  BY <2>3, <2>4
<1>2. ~ Mine(d) /\ d # Root /\ Root \notin ServerId
  BY NodesAreNumbers
<1> HIDE DEF Mine
<1>3. \A m \in kids : ~ Mine(m)
  BY <1>1, <1>2
<1>4. \A m \in grandkids : ~ Mine(m)
  <2>1. Root \notin kids
    BY <1>2
  <2> QED  BY <1>1, <1>3, <2>1
<1>5. Mine(p)
  BY DEF Mine
<1> QED  BY <1>2, <1>3, <1>4, <1>5 DEF Below

\* The next operation leaves what it has to.
LEMMA StepGoesOn ==
  ASSUME NEW rows, NEW work, NEW ops, Whole(rows, work, ops), NEW approved,
         NEW k \in Nat, k + 1 \in DOMAIN ops,
         NEW s, Carried(ops, rows, s, k), Effective(ops, rows, approved, s, k),
         Ongoing(rows, work, ops, s, k),
         NEW u, ~ u.broken, u.ops[k + 1].st = "applied", Stepped(s, u, k + 1)
  PROVE  Ongoing(rows, work, ops, u, k + 1)
<1>1. PICK op : op = ops[k + 1] /\ SameRequest(s.ops[k + 1], op) /\ AsksFor(rows, work, op)
  BY DEF Carried, Whole, Asked
<1>2. Ticked(s.ops, u.ops, k + 1)
  BY DEF Stepped
<1>3. \A n \in SeenIn(work) : n \in ServerId /\ s.row[n].st = "live"
  BY SeenIs DEF Whole, Ongoing, Remains
<1>4. \A j \in DOMAIN ops : j <= k /\ ops[j].type = "create" =>
        /\ s.ops[j].made \in ServerId /\ s.row[s.ops[j].made].st = "live"
        /\ s.ops[j].made \notin SeenIn(work)
        /\ ops[j].ref \in NewKey
  <2>1. \A j \in DOMAIN ops : j <= k /\ ops[j].type = "create" =>
          s.ops[j].made \in ServerId /\ s.ops[j].made \notin SeenIn(work)
    BY MadeIsNew
  <2>2. \A j \in DOMAIN ops : ops[j].type = "create" => ops[j].ref \in NewKey
    <3>1. \A j \in DOMAIN ops : ops[j].type = "create" =>
            ops[j].ref < 0 /\ MayHold(ops[j].parent, ops[j].ref)
      BY DEF Whole, Applicable, OpsFit, OpFits
    <3> QED  BY <3>1, Levels DEF NewKey, IsNewKey
  <2> QED  BY <2>1, <2>2 DEF Ongoing
<1>5. \A j \in DOMAIN ops : j > k + 1 /\ ops[j].type = "delete" =>
        /\ Live(s.row, ops[j].target) /\ ops[j].target \in ServerId
        /\ ops[j].target \notin SeenIn(work)
  <2>1. \A j \in DOMAIN ops : j > k + 1 => j > k
    BY DEF Whole, Applicable, OpsFit
  <2>2. \A j \in DOMAIN ops : ops[j].type = "delete" => ops[j].target \notin SeenIn(work)
    BY DEF Whole, Asked, AsksFor
  <2> QED  BY <2>1, <2>2 DEF Ongoing, Live
<1>6. CASE Updating(s, u, k + 1) \/ Moving(s, u, k + 1)
  <2>1. PICK n \in ServerId :
          /\ n = op.target /\ op.type \in {"update", "reorder"}
          /\ u.refs = s.refs /\ u.row[n].st = "live" /\ Others(s, u, n)
          /\ u.row[n].val = s.row[n].val \/ op.type = "update"
          /\ u.row[n].order = s.row[n].order \/ op.type = "reorder"
          /\ u.row[n].parent = s.row[n].parent \/ (op.type = "reorder" /\ op.parent # Root)
    <3>1. CASE Updating(s, u, k + 1)
      BY <1>1, <3>1 DEF Updating, SameRequest
    <3>2. CASE Moving(s, u, k + 1)
      BY <1>1, <3>2 DEF Moving, SameRequest
    <3> QED  BY <1>6, <3>1, <3>2
  <2>2. n \in SeenIn(work)
    <3>1. PICK e \in EntryOf(work) : e.node > 0 /\ n = e.node
      BY <1>1, <2>1 DEF AsksFor
    <3> QED  BY <3>1, SeenIs DEF Whole
  <2>3. \A m \in ServerId : m # n => u.row[m] = s.row[m]
    BY <2>1 DEF Others
  <2>4. \A m \in SeenIn(work) :
          /\ u.row[m].st = "live"
          /\ u.row[m].val = s.row[m].val \/ (op.type = "update" /\ op.target = m)
          /\ u.row[m].order = s.row[m].order \/ (op.type = "reorder" /\ op.target = m)
          /\ \/ u.row[m].parent = s.row[m].parent
             \/ op.type = "reorder" /\ op.target = m /\ op.parent # Root
    BY <1>3, <2>1, <2>3
  <2>5. \A j \in DOMAIN ops : j <= k /\ ops[j].type = "create" =>
          u.refs[ops[j].ref] = s.refs[ops[j].ref] /\ u.row[s.ops[j].made].st = "live"
    BY <1>4, <2>1, <2>2, <2>3
  <2>6. \A m \in ServerId : m \notin SeenIn(work) => u.row[m] = s.row[m]
    BY <2>2, <2>3
  <2>7. \A j \in DOMAIN ops : j > k + 1 /\ ops[j].type = "delete" => Live(u.row, ops[j].target)
    BY <1>5, <2>6 DEF Live
  <2>8. op.type # "create" /\ op = ops[k + 1]
    BY <1>1, <2>1
  <2> QED  BY <1>2, <2>4, <2>5, <2>6, <2>7, <2>8, GoesOn
<1>7. CASE Creating(s, u, k + 1)
  <2>1. PICK n \in ServerId :
          /\ n = u.ops[k + 1].made /\ op.type = "create" /\ s.row[n].st = "unborn"
          /\ u.row[n].st = "live" /\ Others(s, u, n)
          /\ \A x \in NewKey : u.refs[x] = IF x = op.ref THEN n ELSE s.refs[x]
    BY <1>1, <1>7 DEF Creating, SameRequest
  <2>2. n \notin SeenIn(work)
    BY <1>3, <2>1
  <2>3. \A m \in ServerId : m # n => u.row[m] = s.row[m]
    BY <2>1 DEF Others
  <2>4. \A m \in SeenIn(work) : u.row[m] = s.row[m] /\ u.row[m].st = "live"
    BY <1>3, <2>2, <2>3
  <2>5. \A j \in DOMAIN ops : j <= k /\ ops[j].type = "create" =>
          u.refs[ops[j].ref] = s.refs[ops[j].ref] /\ u.row[s.ops[j].made].st = "live"
    <3>1. \A j \in DOMAIN ops : j <= k /\ ops[j].type = "create" => ops[j].ref # op.ref
      <4>1. \A j \in DOMAIN ops : ops[j].type = "create" /\ ops[j].ref = op.ref => j = k + 1
        BY <1>1, <2>1 DEF Whole, Applicable, OpsFit
      <4>2. ~ (k + 1 <= k)
        OBVIOUS
      <4> QED  BY <4>1, <4>2
    <3>2. \A j \in DOMAIN ops : j <= k /\ ops[j].type = "create" => s.ops[j].made # n
      BY <1>4, <2>1
    <3> QED  BY <1>4, <2>1, <2>3, <3>1, <3>2
  <2>6. op.ref \in NewKey
    <3>1. op.ref < 0 /\ MayHold(op.parent, op.ref)
      BY <1>1, <2>1 DEF Whole, Applicable, OpsFit, OpFits
    <3> QED  BY <3>1, Levels DEF NewKey, IsNewKey
  <2>7. /\ u.refs[op.ref] = u.ops[k + 1].made /\ u.row[u.ops[k + 1].made].st = "live"
        /\ s.row[u.ops[k + 1].made].st = "unborn"
    BY <2>1, <2>6
  <2>8. \A j \in DOMAIN ops : j > k + 1 /\ ops[j].type = "delete" => Live(u.row, ops[j].target)
    BY <1>5, <2>1, <2>3 DEF Live
  <2>9. \A m \in ServerId : u.row[m] = s.row[m] \/ u.ops[k + 1].made = m
    BY <2>1, <2>3
  <2> QED  BY <1>1, <1>2, <2>1, <2>4, <2>5, <2>7, <2>8, <2>9, GoesOn
<1>8. CASE Deleting(s, u, k + 1)
  <2>1. PICK d \in ServerId :
          /\ d = op.target /\ op.type = "delete" /\ u.refs = s.refs /\ s.row[d].st = "live"
          /\ \A m \in ServerId : IF m \in Below(s.row, d) THEN u.row[m].st = "gone"
                                 ELSE u.row[m] = s.row[m]
    BY <1>1, <1>8 DEF Deleting, SameRequest
  <2>2. /\ d \notin SeenIn(work) /\ Live(rows, d)
        /\ rows[d].parent \in SeenIn(work) \cup {Root}
    BY <1>1, <2>1 DEF AsksFor
  <2>3. \A j \in DOMAIN ops : ops[j].type # "delete" => j <= k
    <3> SUFFICES ASSUME NEW j \in DOMAIN ops, ops[j].type # "delete" PROVE j <= k
      OBVIOUS
    <3>1. ~ (k + 1 < j)
      BY <1>1, <2>1 DEF Whole, Asked, SaysInOrder
    <3>2. j # k + 1
      BY <1>1, <2>1
    <3>3. j \in Int
      BY DEF Whole, Applicable, OpsFit
    <3> QED  BY <3>1, <3>2, <3>3
  <2>4. Placement(work, s)
    BY <2>3, WorkIsPlaced
  <2>5. \A j \in DOMAIN ops : ops[j].type = "create" => s.ops[j].made # d
    BY <2>2, <2>3, MadeIsNew DEF Live
  <2>6. \A e \in EntryOf(work) : ~ Names(s.ops, e.node, d)
    <3> SUFFICES ASSUME NEW e \in EntryOf(work), Names(s.ops, e.node, d) PROVE FALSE
      OBVIOUS
    <3>1. CASE e.node < 0
      <4>1. PICK j \in DOMAIN ops : ops[j].type = "create" /\ ops[j].ref = e.node
        BY <3>1 DEF Whole, Asked
      <4>2. Names(s.ops, ops[j].ref, d)
        BY <4>1
      <4>3. \A q : Names(s.ops, ops[j].ref, q) => q = s.ops[j].made
        BY <4>1, NamedOnce
      <4> QED  BY <2>5, <4>1, <4>2, <4>3
    <3>2. CASE ~ (e.node < 0)
      <4>1. e.node = d
        BY <3>2 DEF Names, IsNewKey
      <4>2. e.node > 0
        BY <4>1, NodesAreNumbers
      <4>3. e.node \in SeenIn(work)
        BY <4>2, SeenIs DEF Whole
      <4> QED  BY <2>2, <4>1, <4>3
    <3> QED  BY <3>1, <3>2
  <2>7. \A p : \A e \in EntryOf(work) : Names(s.ops, e.node, p) => p \notin Below(s.row, d)
    BY <2>4, <2>6, DeletesNoPlaced DEF Whole
  <2>8. \A n \in SeenIn(work) : n \notin Below(s.row, d)
    <3> SUFFICES ASSUME NEW n \in SeenIn(work) PROVE n \notin Below(s.row, d)
      OBVIOUS
    <3>1. PICK e \in EntryOf(work) : e.node = n /\ n > 0 /\ n \in ServerId
      BY SeenIs DEF Whole
    <3>2. ~ IsNewKey(n)
      BY <3>1, NodesAreNumbers DEF IsNewKey
    <3> QED  BY <2>7, <3>1, <3>2 DEF Names
  <2>9. \A j \in DOMAIN ops : ops[j].type = "create" => s.ops[j].made \notin Below(s.row, d)
    <3> SUFFICES ASSUME NEW j \in DOMAIN ops, ops[j].type = "create"
                 PROVE  s.ops[j].made \notin Below(s.row, d)
      OBVIOUS
    <3>1. PICK e \in EntryOf(work) : e.node < 0 /\ ops[j].ref = e.node
      BY DEF Whole, Asked, AsksFor
    <3>2. Names(s.ops, e.node, s.ops[j].made)
      <4>1. s.ops[j].made # Unresolved
        BY <2>3, MadeIsNew
      <4>2. j \in DOMAIN s.ops /\ s.ops[j].ref = e.node
        BY <3>1 DEF Carried, SameRequest
      <4> QED  BY <3>1, <4>1, <4>2 DEF Names, IsNewKey
    <3> QED  BY <2>7, <3>2
  <2>10. \A n \in SeenIn(work) : u.row[n] = s.row[n] /\ u.row[n].st = "live"
    BY <1>3, <2>1, <2>8
  <2>11. \A j \in DOMAIN ops : j <= k /\ ops[j].type = "create" =>
           u.refs[ops[j].ref] = s.refs[ops[j].ref] /\ u.row[s.ops[j].made].st = "live"
    BY <1>4, <2>1, <2>9
  <2>12. \A m \in Below(s.row, d) : Live(s.row, m)
    BY <2>1 DEF Below, Live
  <2>13. \A m \in ServerId : u.row[m] = s.row[m] \/ (u.row[m].st = "gone" /\ Live(s.row, m))
    BY <2>1, <2>12
  <2>14. ASSUME NEW j \in DOMAIN ops, j > k + 1, ops[j].type = "delete"
         PROVE  Live(u.row, ops[j].target)
    <3>1. PICK t \in ServerId : t = ops[j].target /\ Live(s.row, t) /\ t \notin SeenIn(work)
      BY <1>5, <2>14
    <3>2. Live(rows, t) /\ rows[t].parent \in SeenIn(work) \cup {Root}
      BY <2>14, <3>1 DEF Whole, Asked, AsksFor
    <3>3. s.row[t] = rows[t]
      <4>1. \A i \in DOMAIN ops : i <= k /\ ops[i].type = "create" => s.ops[i].made # t
        BY <3>2, MadeIsNew DEF Live
      <4> QED  BY <3>1, <4>1 DEF Ongoing, Live
    <3>4. t # d
      <4>1. j # k + 1
        <5>1. ~ (k + 1 > k + 1)
          OBVIOUS
        <5> QED  BY <2>14, <5>1
      <4> QED  BY <1>1, <2>1, <2>14, <3>1, <4>1 DEF Whole, Asked, SaysInOrder
    <3>5. t \notin Below(s.row, d)
      <4>1. Root \notin Below(s.row, d) /\ d # Root
        BY NodesAreNumbers DEF Below
      <4>2. s.row[t].parent \notin Below(s.row, d)
        BY <2>8, <3>2, <3>3, <4>1
      <4>3. d \in Below(s.row, d)
        BY DEF Below
      <4>4. {m \in ServerId : Live(s.row, m) /\ s.row[m].parent = d} \subseteq Below(s.row, d)
        BY DEF Below
      <4> QED  BY <3>4, <4>2, <4>3, <4>4 DEF Below
    <3> QED  BY <2>1, <3>1, <3>5 DEF Live
  <2> QED  BY <1>1, <1>2, <2>1, <2>10, <2>11, <2>13, <2>14, GoesOn
<1>9. ~ Failing(s, u, k + 1)
  BY DEF Failing
<1> QED  BY <1>6, <1>7, <1>8, <1>9 DEF Stepped

\* Approved as a whole, a request does all it says, and the tree has its rows.
LEMMA WholeIsApplied ==
  ASSUME NEW work, NEW ops, Whole(row, work, ops), IdsLeft(ops),
         NEW after, after = ApplyChangeOperations(ops, DOMAIN ops)
  PROVE  \E n \in Nat : /\ DOMAIN ops = 1 .. n
                        /\ Carried(ops, row, after, n)
                        /\ Effective(ops, row, DOMAIN ops, after, n)
                        /\ Ongoing(row, work, ops, after, n)
                        /\ Placement(work, after)
<1>1. Applicable(ops, row) /\ Coherent(ops)
  BY DEF Whole
<1>2. PICK n, f :
        /\ n \in Nat /\ DOMAIN ops = 1 .. n /\ after = f[n]
        /\ ~ f[0].broken /\ f[0].row = row /\ Carried(ops, row, f[0], 0)
        /\ Effective(ops, row, DOMAIN ops, f[0], 0)
        /\ \A k \in 1 .. n : f[k] = IF f[k - 1].broken \/ k \notin DOMAIN ops THEN f[k - 1]
                                   ELSE ApplyOne(f[k - 1], k)
  BY <1>1, ReviewUnfolds
<1> DEFINE Good(s, k) == /\ Carried(ops, row, s, k)
                         /\ Effective(ops, row, DOMAIN ops, s, k)
                         /\ Ongoing(row, work, ops, s, k)
           T == {k \in Nat : k <= n => Good(f[k], k)}
<1>3. Ongoing(row, work, ops, f[0], 0)
  <2>1. \A j \in DOMAIN ops : ~ (j <= 0)
    BY <1>2
  <2>2. \A m \in SeenIn(work) : Remains(row, ops, f[0], 0, m)
    <3>1. \A m \in SeenIn(work) : row[m].st = "live"
      BY DEF Whole, Asked, Live
    <3> QED  BY <1>2, <3>1 DEF Remains
  <2>3. \A j \in DOMAIN ops : ops[j].type = "delete" => Live(row, ops[j].target)
    BY DEF Whole, Asked, AsksFor
  <2>4. PICK s : s = f[0] /\ ~ s.broken /\ s.row = row
    BY <1>2
  <2>5. \A j \in DOMAIN ops : ops[j].type = "delete" => Live(s.row, ops[j].target)
    BY <2>3, <2>4
  <2>6. \A m \in SeenIn(work) : Remains(row, ops, s, 0, m)
    BY <2>2, <2>4
  <2>7. \A m \in ServerId : s.row[m] = row[m]
    BY <2>4
  <2>8. Ongoing(row, work, ops, s, 0)
    <3>1. \A j \in DOMAIN ops : j <= 0 => s.ops[j].st = "applied"
      BY <2>1
    <3>2. \A j \in DOMAIN ops : j <= 0 /\ ops[j].type = "create" =>
            s.refs[ops[j].ref] = s.ops[j].made /\ s.row[s.ops[j].made].st = "live"
      BY <2>1
    <3>3. \A i, j \in DOMAIN ops :
            i <= 0 /\ ops[i].type = "create" /\ j <= 0 /\ ops[j].type = "create"
            /\ s.ops[i].made = s.ops[j].made => i = j
      BY <2>1
    <3> QED  BY <2>4, <2>5, <2>6, <2>7, <3>1, <3>2, <3>3 DEF Ongoing
  <2> QED  BY <2>4, <2>8
<1>4. 0 \in T
  BY <1>2, <1>3
<1>5. ASSUME NEW k \in Nat, k \in T PROVE k + 1 \in T
  <2> SUFFICES ASSUME k + 1 <= n PROVE Good(f[k + 1], k + 1)
    OBVIOUS
  <2>1. /\ k + 1 \in 1 .. n /\ k + 1 \in DOMAIN ops /\ (k + 1) - 1 = k /\ Good(f[k], k)
    BY <1>2, <1>5
  <2>2. ~ f[k].broken
    BY <2>1 DEF Ongoing
  <2>3. f[k + 1] = ApplyOne(f[k], k + 1)
    BY <1>2, <2>1, <2>2
  <2>4. PICK s, u : s = f[k] /\ u = f[k + 1]
    OBVIOUS
  <2>5. /\ Carried(ops, row, s, k) /\ Effective(ops, row, DOMAIN ops, s, k)
        /\ Ongoing(row, work, ops, s, k) /\ u = ApplyOne(s, k + 1)
    BY <2>1, <2>3, <2>4
  <2>6. /\ ~ u.broken /\ u.ops[k + 1].st = "applied"
        /\ Carried(ops, row, u, k + 1) /\ Stepped(s, u, k + 1)
    BY <2>1, <2>5, NextSucceeds
  <2>7. Effective(ops, row, DOMAIN ops, u, k + 1)
    BY <1>1, <2>1, <2>5, <2>6, StepLasts
  <2>8. Ongoing(row, work, ops, u, k + 1)
    BY <2>1, <2>5, <2>6, StepGoesOn
  <2> QED  BY <2>4, <2>6, <2>7, <2>8
<1> HIDE DEF T
<1>6. Nat \subseteq T
  BY <1>4, <1>5, SetInduction
<1>7. Good(after, n)
  BY <1>2, <1>6 DEF T
<1>8. \A j \in DOMAIN ops : j <= n
  BY <1>2
<1>9. Placement(work, after)
  BY <1>7, <1>8, WorkIsPlaced
<1> QED  BY <1>2, <1>7, <1>9

-----------------------------------------------------------------------------
(* The tree of the rows afterwards *)

\* What a node or the course is called afterwards.
LEMMA NamedIsThere ==
  ASSUME NEW rows, NEW work, NEW ops, Whole(rows, work, ops), NEW approved, NEW k,
         NEW s, Carried(ops, rows, s, k), Effective(ops, rows, approved, s, k),
         Ongoing(rows, work, ops, s, k), \A j \in DOMAIN ops : j <= k,
         NEW e \in EntryOf(work), NEW p, Names(s.ops, e.node, p), Live(rows, p)
  PROVE  p = e.node /\ p \in SeenIn(work)
<1>1. e.node \in Int /\ e.node # 0 /\ (e.node > 0 => e.node \in SeenIn(work))
  BY SeenIs DEF Whole, Root
<1>2. CASE e.node < 0
  <2>1. PICK j \in DOMAIN ops : ops[j].type = "create" /\ ops[j].ref = e.node
    BY <1>2 DEF Whole, Asked
  <2>2. Names(s.ops, ops[j].ref, p)
    BY <2>1
  <2>3. \A q : Names(s.ops, ops[j].ref, q) => q = s.ops[j].made
    BY <2>1, NamedOnce
  <2>4. rows[s.ops[j].made].st = "unborn"
    BY <2>1, MadeIsNew
  <2> QED  BY <2>2, <2>3, <2>4 DEF Live
<1>3. CASE e.node > 0
  <2>1. ~ (e.node < 0)
    BY <1>1, <1>3
  <2> QED  BY <1>1, <1>3, <2>1 DEF Names, IsNewKey
<1> QED  BY <1>1, <1>2, <1>3

\* What is left without a place in the tree hangs from something that has none.
LEMMA UnnamedHangs ==
  ASSUME NEW rows, NEW work, NEW ops, Whole(rows, work, ops), NEW approved, NEW k,
         NEW s, Carried(ops, rows, s, k), Effective(ops, rows, approved, s, k),
         Ongoing(rows, work, ops, s, k), \A j \in DOMAIN ops : j <= k,
         NEW m, Live(s.row, m), \A e \in EntryOf(work) : ~ Names(s.ops, e.node, m)
  PROVE  /\ MayHold(s.row[m].parent, m) /\ s.row[m].parent # Root
         /\ Live(s.row, s.row[m].parent)
         /\ \A e \in EntryOf(work) : ~ Names(s.ops, e.node, s.row[m].parent)
<1>1. m \in ServerId /\ s.row[m].st = "live"
  BY DEF Live
<1>2. m \notin SeenIn(work)
  <2> SUFFICES ASSUME m \in SeenIn(work) PROVE FALSE
    OBVIOUS
  <2>1. PICK e \in EntryOf(work) : e.node = m
    BY SeenIs DEF Whole
  <2>2. m \in Int /\ m > 0
    BY <1>1, NodesAreNumbers
  <2>3. ~ (m < 0)
    BY <2>2
  <2> QED  BY <2>1, <2>3 DEF Names, IsNewKey
<1>3. \A j \in DOMAIN ops : ops[j].type = "create" => s.ops[j].made # m
  <2> SUFFICES ASSUME NEW j \in DOMAIN ops, ops[j].type = "create", s.ops[j].made = m PROVE FALSE
    OBVIOUS
  <2>1. PICK e \in EntryOf(work) : e.node < 0 /\ ops[j].ref = e.node
    BY DEF Whole, Asked, AsksFor
  <2>2. s.ops[j].ref = e.node /\ j \in DOMAIN s.ops
    BY <2>1 DEF Carried, SameRequest
  <2>3. m # Unresolved
    BY <1>1, NodesAreNumbers DEF Unresolved
  <2>4. Names(s.ops, e.node, m)
    BY <2>1, <2>2, <2>3 DEF Names, IsNewKey
  <2> QED  BY <2>4
<1>4. s.row[m] = rows[m] /\ Live(rows, m)
  BY <1>1, <1>2, <1>3 DEF Ongoing, Live
<1>5. PICK p : p = rows[m].parent
  OBVIOUS
<1>6. p \notin SeenIn(work) \cup {Root}
  <2> SUFFICES ASSUME p \in SeenIn(work) \cup {Root} PROVE FALSE
    OBVIOUS
  <2>1. PICK j \in DOMAIN ops : ops[j].type = "delete" /\ ops[j].target = m
    BY <1>1, <1>2, <1>4, <1>5 DEF Whole, Asked
  <2>2. Lasts(rows, s, j) /\ s.ops[j].type = "delete" /\ s.ops[j].target = m
    BY <2>1 DEF Ongoing, Effective, Carried, SameRequest
  <2>3. s.row[m].st = "gone"
    BY <2>2 DEF Lasts
  <2> QED  BY <1>1, <2>3
<1>7. MayHold(s.row[m].parent, m) /\ (s.row[m].parent = Root \/ Live(s.row, s.row[m].parent))
  BY <1>1 DEF Carried, RowsFit
<1>8. Live(rows, p)
  BY <1>1, <1>4, <1>5, <1>6 DEF Whole, Applicable, RowsFit, Live
<1>9. \A e \in EntryOf(work) : ~ Names(s.ops, e.node, p)
  BY <1>6, <1>8, NamedIsThere
<1> QED  BY <1>4, <1>5, <1>6, <1>7, <1>9

\* Every row that is left has its place in the tree.
LEMMA OnlyTheTree ==
  ASSUME NEW rows, NEW work, NEW ops, Whole(rows, work, ops), NEW approved, NEW k,
         NEW s, Carried(ops, rows, s, k), Effective(ops, rows, approved, s, k),
         Ongoing(rows, work, ops, s, k), \A j \in DOMAIN ops : j <= k,
         NEW m, Live(s.row, m)
  PROVE  \E e \in EntryOf(work) : Names(s.ops, e.node, m)
<1> DEFINE Lost(n) == Live(s.row, n) /\ \A e \in EntryOf(work) : ~ Names(s.ops, e.node, n)
<1>1. \A n : Lost(n) => MayHold(s.row[n].parent, n) /\ s.row[n].parent # Root
                        /\ Lost(s.row[n].parent)
  BY UnnamedHangs
<1> HIDE DEF Lost
<1>2. \A n : Lost(n) => n \notin Chapter
  BY <1>1, Levels
<1>3. \A n : Lost(n) => n \notin Lesson
  BY <1>1, <1>2, Levels
<1>4. \A n : Lost(n) => n \notin Tab
  BY <1>1, <1>3, Levels
<1>5. \A n : Lost(n) => n \in Chapter \cup Lesson \cup Tab
  BY <1>1, Levels, NodesAreNumbers
<1>6. ~ Lost(m)
  BY <1>2, <1>3, <1>4, <1>5
<1> QED  BY <1>6 DEF Lost

LEMMA AllAreApplied ==
  ASSUME NEW ops, NEW k \in DOMAIN ops, \A j \in DOMAIN ops : ops[j].st = "applied"
  PROVE  StatusOf(ops) = "applied"
<1>1. {ops[j].st : j \in DOMAIN ops} = {"applied"}
  OBVIOUS
<1> QED  BY <1>1 DEF StatusOf

\* A list without repetition has as many entries as places.
LEMMA PlacesCount ==
  ASSUME NEW S, NEW L \in Seq(S), Unrepeated(L), NEW j \in Nat, j <= Len(L)
  PROVE  IsFiniteSet({L[i] : i \in 1 .. j}) /\ Cardinality({L[i] : i \in 1 .. j}) = j
<1> DEFINE G(i) == {L[h] : h \in 1 .. i}
           T == {i \in Nat : i <= Len(L) => IsFiniteSet(G(i)) /\ Cardinality(G(i)) = i}
<1>1. 0 \in T
  <2>1. G(0) = {}
    OBVIOUS
  <2> QED  BY <2>1, FS_EmptySet
<1>2. ASSUME NEW i \in Nat, i \in T PROVE i + 1 \in T
  <2> SUFFICES ASSUME i + 1 <= Len(L) PROVE IsFiniteSet(G(i + 1)) /\ Cardinality(G(i + 1)) = i + 1
    OBVIOUS
  <2>1. PICK x : x = L[i + 1]
    OBVIOUS
  <2>2. \A h : h \in 1 .. i + 1 <=> h \in 1 .. i \/ h = i + 1
    OBVIOUS
  <2>3. G(i + 1) = G(i) \cup {x}
    BY <2>1, <2>2
  <2>4. x \notin G(i)
    <3>1. \A h \in 1 .. i : h \in DOMAIN L /\ i + 1 \in DOMAIN L /\ h # i + 1
      OBVIOUS
    <3> QED  BY <2>1, <3>1 DEF Unrepeated
  <2>5. IsFiniteSet(G(i)) /\ Cardinality(G(i)) = i
    BY <1>2
  <2>6. PICK A : A = G(i)
    OBVIOUS
  <2>7. IsFiniteSet(A) /\ Cardinality(A) = i /\ x \notin A
    BY <2>4, <2>5, <2>6
  <2>8. IsFiniteSet(A \cup {x}) /\ Cardinality(A \cup {x}) = i + 1
    BY <2>7, FS_AddElement
  <2> QED  BY <2>3, <2>6, <2>8
<1> HIDE DEF T
<1>3. Nat \subseteq T
  BY <1>1, <1>2, SetInduction
<1> QED  BY <1>3 DEF T

\* Siblings whose orders are their places are listed by them.
LEMMA InOrderIs ==
  ASSUME NEW rows, NEW S \in SUBSET ServerId, NEW L \in Seq(S), ToSet(L) = S,
         \A k \in DOMAIN L : rows[L[k]].order = k - 1
  PROVE  InOrder(rows, S) = L
<1>1. PICK n \in Nat : n = Len(L) /\ DOMAIN L = 1 .. n
  OBVIOUS
<1>2. Unrepeated(L)
  <2>1. \A j, k \in DOMAIN L : L[j] = L[k] => j - 1 = k - 1
    OBVIOUS
  <2> QED  BY <1>1, <2>1 DEF Unrepeated
<1>3. \A j \in Nat : j <= Len(L) => Cardinality({L[i] : i \in 1 .. j}) = j
  BY <1>2, PlacesCount
<1>4. \A v : v \in S <=> \E k \in 1 .. n : L[k] = v
  BY <1>1, InToSet
<1>5. ASSUME NEW k \in 1 .. n
      PROVE  Cardinality({m \in S : RowBefore(rows, m, L[k])}) = k - 1
  <2>1. \A i \in 1 .. n : RowBefore(rows, L[i], L[k]) <=> i < k
    <3> SUFFICES ASSUME NEW i \in 1 .. n PROVE RowBefore(rows, L[i], L[k]) <=> i < k
      OBVIOUS
    <3>1. rows[L[i]].order = i - 1 /\ rows[L[k]].order = k - 1
      BY <1>1
    <3>2. CASE i = k
      <4>1. L[k] \in S
        BY <1>1
      <4>2. L[k] \in Int
        BY <4>1, NodesAreNumbers
      <4>3. ~ (L[k] < L[k])
        BY <4>2
      <4> QED  BY <3>1, <3>2, <4>3 DEF RowBefore
    <3>3. CASE i # k
      BY <3>1, <3>3 DEF RowBefore
    <3> QED  BY <3>2, <3>3
  <2>2. {m \in S : RowBefore(rows, m, L[k])} = {L[i] : i \in 1 .. k - 1}
    <3>1. \A i : i \in 1 .. k - 1 <=> i \in 1 .. n /\ i < k
      OBVIOUS
    <3> QED  BY <1>4, <2>1, <3>1
  <2>3. k - 1 \in Nat /\ k - 1 <= Len(L)
    BY <1>1
  <2> QED  BY <1>3, <2>2, <2>3
<1>6. Cardinality(S) = n
  <2>1. S = {L[i] : i \in 1 .. n}
    BY <1>4
  <2>2. n <= Len(L)
    BY <1>1
  <2> QED  BY <1>3, <2>1, <2>2
<1>7. ASSUME NEW k \in 1 .. n
      PROVE  (CHOOSE v \in S : Cardinality({m \in S : RowBefore(rows, m, v)}) = k - 1) = L[k]
  <2> DEFINE rank(v) == Cardinality({m \in S : RowBefore(rows, m, v)})
  <2>1. L[k] \in S /\ rank(L[k]) = k - 1
    BY <1>4, <1>5
  <2>2. ASSUME NEW v \in S, rank(v) = k - 1 PROVE v = L[k]
    <3>1. PICK j \in 1 .. n : L[j] = v
      BY <1>4
    <3>2. rank(v) = j - 1
      BY <1>5, <3>1
    <3> QED  BY <2>2, <3>1, <3>2
  <2> HIDE DEF rank
  <2>3. (CHOOSE v \in S : rank(v) = k - 1) = L[k]
    BY <2>1, <2>2
  <2> QED  BY <2>3 DEF rank
<1>8. L = [k \in 1 .. n |-> L[k]]
  BY <1>1
<1> QED  BY <1>6, <1>7, <1>8 DEF InOrder

\* All of the request has been applied.
Finished(rows, work, ops, s) ==
  /\ Whole(rows, work, ops) /\ Placement(work, s)
  /\ \E k \in Nat : /\ \A j \in DOMAIN ops : j <= k
                    /\ Carried(ops, rows, s, k) /\ Effective(ops, rows, DOMAIN ops, s, k)
                    /\ Ongoing(rows, work, ops, s, k)

\* What the nodes are called afterwards.
Called(ops, s) ==
  [n \in Node |-> IF \E k \in DOMAIN ops : IsNewKey(n) /\ ops[k].ref = n
                  THEN s.ops[CHOOSE k \in DOMAIN ops : ops[k].ref = n].made ELSE n]

LEMMA CalledByName ==
  ASSUME NEW rows, NEW work, NEW ops, NEW s, Finished(rows, work, ops, s)
  PROVE  LET id == Called(ops, s)
         IN  /\ \A p : \A x \in Nodes(work) \cup {Root} : Names(s.ops, x, p) <=> p = id[x]
             /\ \A x, y \in Nodes(work) \cup {Root} : id[x] = id[y] => x = y
<1>0. PICK id : id = Called(ops, s)
  OBVIOUS
<1>1. PICK k \in Nat :
        /\ \A j \in DOMAIN ops : j <= k
        /\ Carried(ops, rows, s, k) /\ Effective(ops, rows, DOMAIN ops, s, k)
        /\ Ongoing(rows, work, ops, s, k) /\ Whole(rows, work, ops)
  BY DEF Finished
<1>2. \A x \in Nodes(work) \cup {Root} :
        /\ x \in Node /\ x \in Int /\ (x > 0 => x \in SeenIn(work)) /\ (x = Root => x = 0)
        /\ x < 0 => \E j \in DOMAIN ops : ops[j].type = "create" /\ ops[j].ref = x
  <2>1. \A x \in Nodes(work) : Old(work, x) \in EntryOf(work) /\ Old(work, x).node = x
    BY <1>1, OldIs DEF Whole
  <2>2. \A x \in Nodes(work) : \E e \in EntryOf(work) : e.node = x
    BY <2>1
  <2>3. \A x \in Nodes(work) :
          /\ x \in Node /\ x \in Int /\ (x > 0 => x \in SeenIn(work)) /\ x # Root
          /\ x < 0 => \E j \in DOMAIN ops : ops[j].type = "create" /\ ops[j].ref = x
    BY <1>1, <2>2, SeenIs DEF Whole, Asked
  <2> QED  BY <2>3, NodesAreNumbers
<1>3. ASSUME NEW x \in Nodes(work) \cup {Root}, x < 0
      PROVE  \E c \in DOMAIN ops : /\ ops[c].type = "create" /\ ops[c].ref = x
                                   /\ id[x] = s.ops[c].made
                                   /\ \A p : Names(s.ops, x, p) <=> p = s.ops[c].made
  <2>1. PICK c \in DOMAIN ops : ops[c].ref = x /\ c = CHOOSE i \in DOMAIN ops : ops[i].ref = x
    BY <1>2, <1>3
  <2>2. id[x] = s.ops[c].made
    BY <1>0, <1>2, <1>3, <2>1 DEF Called, IsNewKey
  <2>3. ops[c].type = "create"
    <3>1. ops[c].ref # Root
      BY <1>2, <1>3, <2>1 DEF Root
    <3> QED  BY <1>1, <3>1 DEF Whole, Asked, AsksFor
  <2>4. \A p : Names(s.ops, ops[c].ref, p) => p = s.ops[c].made
    <3>1. Carried(ops, rows, s, k) /\ Whole(rows, work, ops)
      BY <1>1
    <3> SUFFICES ASSUME NEW p, Names(s.ops, ops[c].ref, p) PROVE p = s.ops[c].made
      OBVIOUS
    <3> QED  BY <2>3, <3>1, NamedOnce
  <2>5. s.ops[c].made # Unresolved /\ c \in DOMAIN s.ops /\ s.ops[c].ref = x
    BY <1>1, <2>1, <2>3, MadeIsNew DEF Carried, SameRequest
  <2>6. Names(s.ops, x, s.ops[c].made)
    BY <1>3, <2>5 DEF Names, IsNewKey
  <2> QED  BY <2>1, <2>2, <2>3, <2>4, <2>6
<1>4. ASSUME NEW x \in Nodes(work) \cup {Root}, ~ (x < 0)
      PROVE  id[x] = x /\ \A p : Names(s.ops, x, p) <=> p = x
  BY <1>0, <1>2, <1>4 DEF Called, IsNewKey, Names
<1>5. \A p : \A x \in Nodes(work) \cup {Root} : Names(s.ops, x, p) <=> p = id[x]
  BY <1>3, <1>4
<1>6. ASSUME NEW x \in Nodes(work) \cup {Root}, NEW y \in Nodes(work) \cup {Root},
             id[x] = id[y], x < 0
      PROVE  x = y
  <2>1. PICK c \in DOMAIN ops : ops[c].type = "create" /\ ops[c].ref = x /\ id[x] = s.ops[c].made
    BY <1>3, <1>6
  <2>2. CASE y < 0
    <3>1. PICK d \in DOMAIN ops :
            ops[d].type = "create" /\ ops[d].ref = y /\ id[y] = s.ops[d].made
      BY <1>3, <2>2
    <3>2. c <= k /\ d <= k /\ s.ops[c].made = s.ops[d].made
      BY <1>1, <1>6, <2>1, <3>1
    <3>3. Ongoing(rows, work, ops, s, k)
      BY <1>1
    <3>4. c = d
      BY <2>1, <3>1, <3>2, <3>3 DEF Ongoing
    <3> QED  BY <2>1, <3>1, <3>4
  <2>3. CASE ~ (y < 0)
    <3>1. y = s.ops[c].made
      BY <1>4, <1>6, <2>1, <2>3
    <3>2. y \in ServerId /\ y \notin SeenIn(work)
      BY <1>1, <2>1, <3>1, MadeIsNew
    <3> QED  BY <1>2, <3>2, NodesAreNumbers
  <2> QED  BY <2>2, <2>3
<1>7. \A x, y \in Nodes(work) \cup {Root} : id[x] = id[y] => x = y
  BY <1>4, <1>6
<1> QED  BY <1>0, <1>5, <1>7

LEMMA NoneInOrder == \A rows : InOrder(rows, {}) = <<>>
  BY FS_EmptySet DEF InOrder

\* Afterwards the rows are the tree, and their orders are their places.
LEMMA TreeIsCalled ==
  ASSUME NEW rows, NEW work, NEW ops, NEW s, Finished(rows, work, ops, s),
         NEW id, id = Called(ops, s)
  PROVE  ServerTree(s.row) = Named(work, id) /\ Dense(s.row)
<1> DEFINE N == Nodes(work) \cup {Root}
           K(m) == {n \in ServerId : /\ Live(s.row, n) /\ s.row[n].parent = m
                                     /\ (m = Root) = (n \in Chapter)}
<1>1. PICK k \in Nat :
        /\ \A j \in DOMAIN ops : j <= k
        /\ Carried(ops, rows, s, k) /\ Effective(ops, rows, DOMAIN ops, s, k)
        /\ Ongoing(rows, work, ops, s, k) /\ Whole(rows, work, ops) /\ Placement(work, s)
  BY DEF Finished
<1>2. Sound(work) /\ Arranged(work) /\ Rooted(work) /\ Nodes(work) = Hung(work) /\ RowsFit(s.row)
  BY <1>1, NodesHang DEF Whole, Sound, Carried
<1>3. /\ \A p : \A x \in N : Names(s.ops, x, p) <=> p = id[x]
      /\ \A x, y \in N : id[x] = id[y] => x = y
  BY CalledByName
<1>4. \A e \in EntryOf(work) : e.node \in Nodes(work) /\ e.parent \in N /\ e.node \in N
  <2>1. \A e \in EntryOf(work) : e.node \in Nodes(work)
    BY <1>2, SeenIs
  <2>2. \A e \in EntryOf(work) : e.parent = Root \/ e.parent \in Nodes(work)
    BY <1>2, <2>1, SeenIs
  <2> QED  BY <2>1, <2>2
<1>5. \A e \in EntryOf(work) :
        /\ id[e.node] \in ServerId /\ Live(s.row, id[e.node])
        /\ s.row[id[e.node]].order = e.index /\ s.row[id[e.node]].val = work.val[e.node]
        /\ s.row[id[e.node]].parent = id[e.parent]
  BY <1>1, <1>3, <1>4 DEF Placement, Live
<1>6. \A m : Live(s.row, m) => \E e \in EntryOf(work) : id[e.node] = m
  <2>1. \A m : Live(s.row, m) => \E e \in EntryOf(work) : Names(s.ops, e.node, m)
    BY <1>1, OnlyTheTree
  <2> QED  BY <1>3, <1>4, <2>1
<1> HIDE DEF N
<1>7. \A n : Live(s.row, n) => (s.row[n].parent = Root <=> n \in Chapter)
  BY <1>2, Levels DEF RowsFit, Live
<1>8. ASSUME NEW p \in N
      PROVE  /\ InOrder(s.row, K(id[p])) = [i \in DOMAIN work.kids[p] |-> id[work.kids[p][i]]]
             /\ \A i \in DOMAIN work.kids[p] : s.row[id[work.kids[p][i]]].order = i - 1
  <2>1. p \in Node
    BY <1>2, NodesAreNumbers DEF Hung, N
  <2>2. PICK ks \in Seq(Node) : ks = work.kids[p]
    BY <1>2, <2>1 DEF Arranged, Tree
  <2>3. PICK c \in Nat : DOMAIN ks = 1 .. c
    BY <2>2
  <2>4. PICK S \in SUBSET ServerId : S = K(id[p])
    OBVIOUS
  <2>5. \A n : n \in S <=> Live(s.row, n) /\ s.row[n].parent = id[p]
    BY <1>7, <2>4 DEF Live
  <2>6. ASSUME NEW i \in 1 .. c PROVE id[ks[i]] \in S /\ s.row[id[ks[i]]].order = i - 1
    <3>1. PICK e \in EntryOf(work) : e.node = ks[i] /\ e.parent = p /\ e.index = i - 1
      <4>1. i \in DOMAIN work.kids[p] /\ work.kids[p][i] = ks[i]
        BY <2>2, <2>3
      <4> QED  BY <1>2, <2>1, <4>1, EntryIsOf
    <3>2. PICK n : n = id[e.node] /\ n = id[ks[i]]
      BY <3>1
    <3>3. Live(s.row, n) /\ s.row[n].order = i - 1 /\ s.row[n].parent = id[p]
      BY <1>5, <3>1, <3>2
    <3> QED  BY <2>5, <3>2, <3>3
  <2>7. PICK L : L = [i \in 1 .. c |-> id[ks[i]]]
    OBVIOUS
  <2>8. L \in Seq(S) /\ DOMAIN L = 1 .. c /\ \A i \in 1 .. c : L[i] = id[ks[i]]
    BY <2>6, <2>7
  <2>9. ASSUME NEW n \in S PROVE \E i \in 1 .. c : L[i] = n
    <3>1. PICK e \in EntryOf(work) : id[e.node] = n
      BY <1>6, <2>5
    <3>2. id[e.parent] = id[p]
      BY <1>5, <2>5, <3>1
    <3>3. e.parent = p
      BY <1>3, <1>4, <3>2
    <3>4. e.index + 1 \in DOMAIN ks /\ e.node = ks[e.index + 1]
      BY <2>2, <3>3 DEF EntryOf
    <3> QED  BY <2>3, <2>8, <3>1, <3>4
  <2>10. ToSet(L) = S
    <3>1. \A v : v \in ToSet(L) <=> v \in S
      BY <2>6, <2>8, <2>9, InToSet
    <3> QED  BY <3>1
  <2>11. \A i \in DOMAIN L : s.row[L[i]].order = i - 1
    BY <2>6, <2>8
  <2>12. InOrder(s.row, S) = L
    BY <2>8, <2>10, <2>11, InOrderIs
  <2> QED  BY <2>2, <2>3, <2>4, <2>6, <2>7, <2>12
<1>9. ASSUME NEW m, \A p \in N : id[p] # m PROVE InOrder(s.row, K(m)) = <<>>
  <2>1. K(m) = {}
    <3> SUFFICES ASSUME NEW n \in K(m) PROVE FALSE
      OBVIOUS
    <3>1. PICK e \in EntryOf(work) : id[e.node] = n
      BY <1>6
    <3> QED  BY <1>4, <1>5, <1>9, <3>1
  <2>2. PICK S : S = K(m) /\ S = {}
    BY <2>1
  <2> QED  BY <2>2, NoneInOrder
<1> DEFINE t == ServerTree(s.row)
           From(m) == {p \in N : id[p] = m}
           kids(m) == IF From(m) = {} THEN <<>>
                      ELSE LET ks == work.kids[CHOOSE p \in From(m) : TRUE]
                           IN  [i \in DOMAIN ks |-> id[ks[i]]]
           Whose(m) == {p \in Nodes(work) : id[p] = m}
           val(m) == IF Whose(m) = {} THEN NoValue ELSE work.val[CHOOSE p \in Whose(m) : TRUE]
<1>10. ASSUME NEW m \in Node
       PROVE  InOrder(s.row, K(m)) = kids(m) /\ \A i \in DOMAIN kids(m) : s.row[kids(m)[i]].order = i - 1
  <2>1. CASE From(m) = {}
    <3>1. \A p \in N : id[p] # m
      BY <2>1
    <3>2. kids(m) = <<>>
      BY <2>1
    <3> HIDE DEF kids, K
    <3> QED  BY <1>9, <3>1, <3>2
  <2>2. CASE From(m) # {}
    <3>1. PICK p \in N : p = (CHOOSE q \in From(m) : TRUE) /\ id[p] = m
      BY <2>2
    <3>2. kids(m) = [i \in DOMAIN work.kids[p] |-> id[work.kids[p][i]]]
      BY <2>2, <3>1
    <3>3. K(id[p]) = K(m)
      BY <3>1
    <3> HIDE DEF kids, K
    <3> QED  BY <1>8, <3>2, <3>3
  <2> HIDE DEF kids, K
  <2> QED  BY <2>1, <2>2
<1>11. ASSUME NEW m \in Node
       PROVE  (IF Live(s.row, m) THEN s.row[m].val ELSE NoValue) = val(m)
  <2>1. CASE Live(s.row, m)
    <3>1. PICK e \in EntryOf(work) : id[e.node] = m
      BY <1>6, <2>1
    <3>2. e.node \in Whose(m)
      BY <1>4, <3>1
    <3>3. PICK q \in Whose(m) : q = CHOOSE p \in Whose(m) : TRUE
      BY <3>2
    <3>4. q = e.node
      BY <1>3, <1>4, <3>1 DEF N
    <3>5. val(m) = work.val[e.node]
      BY <3>2, <3>3, <3>4
    <3> QED  BY <1>5, <2>1, <3>1, <3>5
  <2>2. CASE ~ Live(s.row, m)
    <3>1. \A p \in Nodes(work) : \E e \in EntryOf(work) : e.node = p
      <4>1. \A p \in Nodes(work) : Old(work, p) \in EntryOf(work) /\ Old(work, p).node = p
        BY <1>2, OldIs
      <4> QED  BY <4>1
    <3>2. Whose(m) = {}
      BY <1>5, <2>2, <3>1
    <3> QED  BY <2>2, <3>2
  <2> QED  BY <2>1, <2>2
<1>12. t = [kids |-> [m \in Node |-> InOrder(s.row, K(m))],
            val |-> [m \in Node |-> IF Live(s.row, m) THEN s.row[m].val ELSE NoValue]]
  BY DEF ServerTree
<1>13. Named(work, id) = [kids |-> [m \in Node |-> kids(m)], val |-> [m \in Node |-> val(m)]]
  BY DEF Named, N
<1> HIDE DEF K, kids, val, t
<1>14. t = Named(work, id)
  BY <1>10, <1>11, <1>12, <1>13
<1>15. \A m \in Node : \A i \in DOMAIN t.kids[m] : s.row[t.kids[m][i]].order = i - 1
  <2>1. \A m \in Node : t.kids[m] = kids(m)
    BY <1>13, <1>14
  <2> QED  BY <1>10, <2>1
<1> QED  BY <1>14, <1>15 DEF Dense, t

-----------------------------------------------------------------------------
(* Requests that were made on the tree as it is *)

\* A request that was made on the tree as it is asks for the difference between that tree
\* and the proposal, and every node of the server in the proposal is one of that tree.
AsProposed(q, rows) ==
  q.st = "pending" /\ q.current =>
    /\ q.ops # <<>>
    /\ q.ops = Pending(BuildOperations(ServerTree(rows), q.proposal))
    /\ SeenIn(q.proposal) \subseteq Nodes(ServerTree(rows))

\* The nodes of the server on the page were in the tree that was loaded, and that is the
\* tree as it is unless a review came between.
BoardOn(b, rows) ==
  b.stage = "ready" =>
    /\ SeenIn(b.working) \subseteq Nodes(b.original)
    /\ b.current => b.original = ServerTree(rows)

ProposalInv ==
  /\ \A r \in Request : AsProposed(req[r], row)
  /\ BoardOn(board, row)

LEMMA InitProposes == Init => ProposalInv
<1> SUFFICES ASSUME Init PROVE ProposalInv
  OBVIOUS
<1>1. \A r \in Request : req[r] = NoRequest
  BY DEF Init
<1>2. NoRequest.st # "pending" /\ Closed.stage # "ready" /\ board = Closed
  BY DEF NoRequest, Closed, Init
<1> QED  BY <1>1, <1>2 DEF ProposalInv, AsProposed, BoardOn

LEMMA EditedProposes == ProposalInv /\ Edited => ProposalInv'
<1> SUFFICES ASSUME ProposalInv, Edited PROVE ProposalInv'
  OBVIOUS
<1>1. row' = row /\ req' = req
  BY DEF Edited
<1>2. BoardOn(board', row)
  BY DEF Edited, ProposalInv, BoardOn
<1> QED  BY <1>1, <1>2 DEF ProposalInv

LEMMA NotReadyProposes ==
  ASSUME ProposalInv, UNCHANGED <<row, req>>, board'.stage # "ready"
  PROVE  ProposalInv'
<1>1. row' = row /\ req' = req
  OBVIOUS
<1>2. BoardOn(board', row)
  BY DEF BoardOn
<1> QED  BY <1>1, <1>2 DEF ProposalInv

LEMMA ShownProposes ==
  ASSUME StudioInv, ProposalInv, UNCHANGED <<row, req>>, NEW t, Sound(t), board' = Shown(t),
         SeenIn(t) \subseteq Nodes(ServerTree(row))
  PROVE  ProposalInv'
<1>1. PICK o \in Tree : o = ServerTree(row)
  BY ServerTreeIsSound DEF StudioInv, Sound, Arranged
<1>2. PICK w \in Tree : w = t
  BY DEF Sound, Arranged
<1>3. PICK b : b = [board EXCEPT !.stage = "ready", !.current = TRUE, !.original = o, !.working = w]
  OBVIOUS
<1>4. b.original = o /\ b.working = w
  <2>1. board \in Boards
    BY DEF StudioInv
  <2> HIDE DEF Tree, Op
  <2> QED  BY <1>3, <2>1 DEF Boards
<1>5. board' = b
  BY <1>1, <1>2, <1>3 DEF Shown
<1>6. BoardOn(board', row)
  BY <1>1, <1>2, <1>4, <1>5 DEF BoardOn
<1>7. row' = row /\ req' = req
  OBVIOUS
<1> QED  BY <1>6, <1>7 DEF ProposalInv

LEMMA OpenStudioProposes == StudioInv /\ ProposalInv /\ OpenStudio => ProposalInv'
<1> SUFFICES ASSUME StudioInv, ProposalInv, OpenStudio PROVE ProposalInv'
  OBVIOUS
<1>1. Sound(ServerTree(row))
  BY ServerTreeIsSound DEF StudioInv
<1>2. SeenIn(ServerTree(row)) \subseteq Nodes(ServerTree(row))
  BY DEF SeenIn
<1>3. board' = Shown(ServerTree(row)) /\ UNCHANGED <<row, req>>
  BY DEF OpenStudio
<1> QED  BY <1>1, <1>2, <1>3, ShownProposes

LEMMA LoadTreeProposes == StudioInv /\ ProposalInv /\ LoadTree => ProposalInv'
<1> SUFFICES ASSUME StudioInv, ProposalInv, LoadTree PROVE ProposalInv'
  OBVIOUS
<1>1. PICK t : t = ServerTree(row) /\ Sound(t) /\ \A n \in Nodes(t) : n > 0
  BY ServerTreeIsSound, NodesAreNumbers DEF StudioInv
<1>2. PICK w : w = ProjectOperations(t, board.ops)
  OBVIOUS
<1>3. Sound(w) /\ \A m \in Nodes(w) : m \in Nodes(t) \/ IsNewKey(m)
  BY <1>1, <1>2, ReplayIsSound DEF StudioInv
<1>4. SeenIn(w) \subseteq Nodes(ServerTree(row))
  BY <1>1, <1>3 DEF SeenIn
<1>5. board' = Shown(w) /\ UNCHANGED <<row, req>>
  BY <1>1, <1>2 DEF LoadTree
<1> QED  BY <1>3, <1>4, <1>5, ShownProposes

LEMMA SubmitProposes ==
  ASSUME StudioInv, ProposalInv, NEW r \in Request, Submit(r) PROVE ProposalInv'
<1>1. PICK raw : raw = BuildOperations(board.original, board.working)
  OBVIOUS
<1>2. PICK ops : ops = Pending(raw)
  OBVIOUS
<1>3. PICK q : q = [st |-> "pending", ops |-> ops, current |-> board.current,
                    proposal |-> board.working]
  OBVIOUS
<1>4. req' = [req EXCEPT ![r] = q] /\ row' = row
  BY <1>1, <1>2, <1>3 DEF Submit, Stored
<1>5. DOMAIN req = Request
  BY DEF StudioInv
<1>6. q.ops = ops /\ q.current = board.current /\ q.proposal = board.working
  BY <1>3
<1>7. ops # <<>>
  <2>1. raw # <<>>
    BY <1>1 DEF Submit
  <2>2. PICK s \in Seq(RawOp) : s = raw
    BY <1>1, BuiltFit DEF StudioInv, Sound
  <2>3. 1 \in DOMAIN raw
    BY <2>1, <2>2
  <2>4. DOMAIN ops = DOMAIN raw
    BY <1>2 DEF Pending
  <2>5. 1 \notin DOMAIN <<>>
    OBVIOUS
  <2> QED  BY <2>3, <2>4, <2>5
<1>8. AsProposed(q, row)
  <2> SUFFICES ASSUME board.current
               PROVE  /\ ops = Pending(BuildOperations(ServerTree(row), board.working))
                      /\ SeenIn(board.working) \subseteq Nodes(ServerTree(row))
    BY <1>6, <1>7 DEF AsProposed
  <2>1. board.stage = "ready"
    BY DEF Submit
  <2>2. board.original = ServerTree(row)
    BY <2>1 DEF ProposalInv, BoardOn
  <2>3. SeenIn(board.working) \subseteq Nodes(board.original)
    BY <2>1 DEF ProposalInv, BoardOn
  <2> QED  BY <1>1, <1>2, <2>2, <2>3
<1>9. \A i \in Request : AsProposed(req'[i], row)
  <2> TAKE i \in Request
  <2>1. CASE i = r
    BY <1>4, <1>5, <1>8, <2>1
  <2>2. CASE i # r
    <3>1. req'[i] = req[i]
      BY <1>4, <1>5, <2>2
    <3> QED  BY <3>1 DEF ProposalInv
  <2> QED  BY <2>1, <2>2
<1>10. board'.stage # "ready"
  BY DEF Submit, Closed
<1>11. BoardOn(board', row)
  BY <1>10 DEF BoardOn
<1> QED  BY <1>4, <1>9, <1>11 DEF ProposalInv

LEMMA WithdrawProposes ==
  ASSUME StudioInv, ProposalInv, NEW r \in Request, Withdraw(r) PROVE ProposalInv'
<1>1. PICK q : q = [NoRequest EXCEPT !.st = "withdrawn"]
  OBVIOUS
<1>2. q.st = "withdrawn"
  BY <1>1 DEF NoRequest
<1>3. req' = [req EXCEPT ![r] = q] /\ DOMAIN req = Request /\ row' = row /\ board' = board
  BY <1>1 DEF Withdraw, StudioInv
<1>4. \A i \in Request : AsProposed(req'[i], row)
  <2> TAKE i \in Request
  <2>1. CASE i = r
    BY <1>2, <1>3, <2>1 DEF AsProposed
  <2>2. CASE i # r
    <3>1. req'[i] = req[i]
      BY <1>3, <2>2
    <3> QED  BY <3>1 DEF ProposalInv
  <2> QED  BY <2>1, <2>2
<1> QED  BY <1>3, <1>4 DEF ProposalInv

\* A review that changes the rows leaves no other request and no page on the tree as it is.
LEMMA ReviewProposes ==
  ASSUME StudioInv, ProposalInv, NEW r \in Request, NEW approved, Review(r, approved)
  PROVE  ProposalInv'
<1>1. PICK after : after = ApplyChangeOperations(req[r].ops, approved)
  OBVIOUS
<1>2. PICK touched \in BOOLEAN : touched = (after.row # row)
  OBVIOUS
<1>3. row' = after.row
  BY <1>1 DEF Review
<1>4. PICK mine : mine = [NoRequest EXCEPT !.st = StatusOf(after.ops), !.ops = after.ops]
  OBVIOUS
<1>5. ~ mine.current
  BY <1>4 DEF NoRequest
<1>6. req' = [q \in Request |-> IF q = r THEN mine
                                ELSE [req[q] EXCEPT !.current = @ /\ ~ touched]]
  BY <1>1, <1>2, <1>4 DEF Review
<1>7. ASSUME NEW i \in Request PROVE AsProposed(req'[i], row')
  <2>1. CASE i = r
    <3>1. req'[i] = mine
      BY <1>6, <2>1
    <3> QED  BY <1>5, <3>1 DEF AsProposed
  <2>2. CASE i # r
    <3>1. PICK e \in Requests : e = req[i]
      BY DEF StudioInv
    <3>2. PICK c \in BOOLEAN : c = (e.current /\ ~ touched)
      OBVIOUS
    <3>3. PICK u : u = [e EXCEPT !.current = c]
      OBVIOUS
    <3>4. u.st = e.st /\ u.ops = e.ops /\ u.proposal = e.proposal /\ u.current = c
      <4> HIDE DEF Tree, Op, RequestStatus
      <4> QED  BY <3>1, <3>3 DEF Requests
    <3>5. req'[i] = u
      BY <1>6, <2>2, <3>1, <3>2, <3>3
    <3>6. CASE touched
      BY <3>2, <3>4, <3>5, <3>6 DEF AsProposed
    <3>7. CASE ~ touched
      <4>1. row' = row /\ (c => e.current)
        BY <1>2, <1>3, <3>2, <3>7
      <4>2. AsProposed(e, row)
        BY <3>1 DEF ProposalInv
      <4> QED  BY <3>4, <3>5, <4>1, <4>2 DEF AsProposed
    <3> QED  BY <3>6, <3>7
  <2> QED  BY <2>1, <2>2
<1>8. BoardOn(board', row')
  <2>1. PICK e \in Boards : e = board
    BY DEF StudioInv
  <2>2. PICK c \in BOOLEAN : c = (e.current /\ ~ touched)
    OBVIOUS
  <2>3. PICK b : b = [e EXCEPT !.current = c]
    OBVIOUS
  <2>4. /\ b.stage = e.stage /\ b.original = e.original /\ b.working = e.working
        /\ b.current = c
    <3> HIDE DEF Tree, Op, Request
    <3> QED  BY <2>1, <2>3 DEF Boards
  <2>5. board' = b
    BY <1>1, <1>2, <2>1, <2>2, <2>3 DEF Review
  <2>6. BoardOn(e, row) /\ (c => e.current /\ row' = row)
    BY <1>2, <1>3, <2>1, <2>2 DEF ProposalInv
  <2> QED  BY <2>4, <2>5, <2>6 DEF BoardOn
<1> QED  BY <1>7, <1>8 DEF ProposalInv

LEMMA StepProposes == StudioInv /\ ProposalInv /\ [Next]_vars => ProposalInv'
<1> SUFFICES ASSUME StudioInv, ProposalInv, [Next]_vars PROVE ProposalInv'
  OBVIOUS
<1>1. CASE OpenStudio
  BY <1>1, OpenStudioProposes
<1>2. CASE \E r \in Request : OpenRequest(r)
  <2>1. board'.stage # "ready" /\ UNCHANGED <<row, req>>
    BY <1>2 DEF OpenRequest, Closed
  <2> QED  BY <2>1, NotReadyProposes
<1>3. CASE LoadTree
  BY <1>3, LoadTreeProposes
<1>4. CASE \E p \in Node : AddNode(Chapter, p) \/ AddNode(Lesson, p) \/ AddNode(Tab, p)
  <2>1. PICK kind \in {Chapter, Lesson, Tab}, p \in Node : AddNode(kind, p)
    BY <1>4
  <2>2. Edited
    BY <2>1, AddNodeKeeps
  <2> QED  BY <2>2, EditedProposes
<1>5. CASE \E n \in Node : \E v \in Value : UpdateSelected(n, v)
  <2>1. Edited
    BY <1>5, UpdateSelectedKeeps
  <2> QED  BY <2>1, EditedProposes
<1>6. CASE \E n \in Node : RemoveSelected(n)
  <2>1. Edited
    BY <1>6, RemoveSelectedKeeps
  <2> QED  BY <2>1, EditedProposes
<1>7. CASE \E n \in Node : \E p \in Node : MoveSelected(n, p)
  <2>1. Edited
    BY <1>7, MoveSelectedKeeps
  <2> QED  BY <2>1, EditedProposes
<1>8. CASE \E n \in Node : \E over \in Node : DragEnd(n, over)
  <2>1. Edited
    BY <1>8, DragEndKeeps
  <2> QED  BY <2>1, EditedProposes
<1>9. CASE \E r \in Request : Submit(r)
  BY <1>9, SubmitProposes
<1>10. CASE \E r \in Request : Withdraw(r)
  BY <1>10, WithdrawProposes
<1>11. CASE \E r \in Request : \E approved \in SUBSET (DOMAIN req[r].ops) : Review(r, approved)
  BY <1>11, ReviewProposes
<1>12. CASE Leave
  <2>1. board'.stage # "ready" /\ UNCHANGED <<row, req>>
    BY <1>12 DEF Leave, Closed
  <2> QED  BY <2>1, NotReadyProposes
<1>13. CASE UNCHANGED vars
  <2>1. row' = row /\ req' = req /\ board' = board
    BY <1>13 DEF vars
  <2> QED  BY <2>1 DEF ProposalInv
<1> QED  BY <1>1, <1>2, <1>3, <1>4, <1>5, <1>6, <1>7, <1>8, <1>9, <1>10, <1>11, <1>12, <1>13 DEF Next

LEMMA ApprovedAsProposed ==
  ASSUME StudioInv, ProposalInv, NEW r \in Request, req[r].st = "pending", req[r].current,
         Dense(row), IdsLeft(req[r].ops)
  PROVE  LET ops == req[r].ops
             after == ApplyChangeOperations(ops, DOMAIN ops)
         IN  /\ ~ after.broken
             /\ StatusOf(after.ops) = "applied"
             /\ ServerTree(after.row) = Named(req[r].proposal, Called(ops, after))
             /\ Dense(after.row)
<1>1. PICK work : work = req[r].proposal /\ Sound(work)
  BY DEF StudioInv
<1>2. PICK ops : ops = req[r].ops
  OBVIOUS
<1>3. Applicable(ops, row) /\ Coherent(ops) /\ RowsFit(row) /\ IdsLeft(ops)
  BY <1>2 DEF StudioInv, Reviewable
<1>4. /\ ops # <<>> /\ ops = Pending(BuildOperations(ServerTree(row), work))
      /\ SeenIn(work) \subseteq Nodes(ServerTree(row))
  BY <1>1, <1>2 DEF ProposalInv, AsProposed
<1>5. Asked(row, work, ops)
  BY <1>1, <1>3, <1>4, PendingAsks
<1>6. Whole(row, work, ops)
  BY <1>1, <1>3, <1>5 DEF Whole
<1>7. PICK after : after = ApplyChangeOperations(ops, DOMAIN ops)
  OBVIOUS
<1>8. PICK n \in Nat : /\ DOMAIN ops = 1 .. n
                       /\ Carried(ops, row, after, n)
                       /\ Effective(ops, row, DOMAIN ops, after, n)
                       /\ Ongoing(row, work, ops, after, n)
                       /\ Placement(work, after)
  BY <1>3, <1>6, <1>7, WholeIsApplied
<1>9. \A j \in DOMAIN ops : j <= n
  BY <1>8
<1>10. Finished(row, work, ops, after)
  BY <1>6, <1>8, <1>9 DEF Finished
<1>11. ServerTree(after.row) = Named(work, Called(ops, after)) /\ Dense(after.row)
  BY <1>10, TreeIsCalled
<1>12. ~ after.broken /\ \A j \in DOMAIN ops : after.ops[j].st = "applied"
  BY <1>8, <1>9 DEF Ongoing
<1>13. 1 \in DOMAIN ops
  <2>1. ops \in Seq(Op)
    BY <1>3 DEF Applicable, OpsFit
  <2> HIDE DEF Op
  <2> QED  BY <1>4, <2>1
<1>14. DOMAIN after.ops = DOMAIN ops
  BY <1>8 DEF Carried
<1>15. StatusOf(after.ops) = "applied"
  BY <1>12, <1>13, <1>14, AllAreApplied
<1> QED  BY <1>1, <1>2, <1>7, <1>11, <1>12, <1>15

\* Approving the whole of a request turns the tree it was made for into exactly what the
\* professor saw when submitting, with every new node under the id it got, and the orders
\* are the places again: whatever the course and the edits, no operation of the request
\* fails or comes too early for another (buildOperations, studioDiff.ts, against the
\* handlers of professor_change_apply.py).
THEOREM ApprovalGivesProposal == Spec => []ApprovalYieldsProposal
<1>1. Init => StudioInv /\ ProposalInv
  BY InitHolds, InitProposes
<1>2. StudioInv /\ ProposalInv /\ [Next]_vars => StudioInv' /\ ProposalInv'
  BY StepKeeps, StepProposes
<1>3. StudioInv /\ ProposalInv => ApprovalYieldsProposal
  BY ApprovedAsProposed DEF ApprovalYieldsProposal, Called
<1> QED  BY <1>1, <1>2, <1>3, PTL DEF Spec
=============================================================================
