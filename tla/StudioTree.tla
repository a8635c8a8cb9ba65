----------------------------- MODULE StudioTree -----------------------------
(***************************************************************************)
(* The trees of the professor's studio and the two pure functions between  *)
(* them and a change request: buildOperations (lib/studioDiff.ts) compares *)
(* the edited tree with the tree the server sent, projectOperations        *)
(* (lib/studioProject.ts) replays the operations on such a tree.  A course *)
(* is chapters, their lessons, and the lessons' tabs.  A node is known by  *)
(* its database id, a positive number, or, while the server has not        *)
(* created it, by the key its browser gave it, a negative one.  All the    *)
(* fields of a node are one value.                                         *)
(***************************************************************************)
EXTENDS Integers, Sequences, FiniteSets, SequencesExt, Lists

CONSTANTS
  Chapter, Lesson, Tab,  \* the ids and keys of each kind of node
  Value                  \* what the fields of a node may hold

ASSUME StudioNodes ==
  /\ Chapter \cup Lesson \cup Tab \subseteq Int \ {0}
  /\ IsFiniteSet(Chapter \cup Lesson \cup Tab)
  /\ Chapter \cap Lesson = {} /\ Chapter \cap Tab = {} /\ Lesson \cap Tab = {}

Root == 0                 \* the course itself; as a parent_ref, the empty string
Node == {Root} \cup Chapter \cup Lesson \cup Tab
Blank == "blank"          \* the fields of a node that has just been added
NoValue == "none"

IsNewKey(n) == n < 0

\* The course holds chapters, a chapter lessons, a lesson tabs.
MayHold(p, n) ==
  \/ p = Root /\ n \in Chapter
  \/ p \in Chapter /\ n \in Lesson
  \/ p \in Lesson /\ n \in Tab

\* A tree gives each node the sequence of its children and its fields.
Children(t, S) == UNION {ToSet(t.kids[n]) : n \in S}

Nodes(t) ==
  LET chapters == Children(t, {Root})
      lessons == Children(t, chapters)
  IN  chapters \cup lessons \cup Children(t, lessons)

\* The parent of n, if n is in the tree: a set of one node or none.
Holders(t, n) == {p \in Node : n \in ToSet(t.kids[p])}

\* What no longer hangs from the course is forgotten.
Prune(t) ==
  LET kept == Nodes(t)
  IN  [kids |-> [n \in Node |-> IF n = Root \/ n \in kept THEN t.kids[n] ELSE <<>>],
       val  |-> [n \in Node |-> IF n \in kept THEN t.val[n] ELSE NoValue]]

Without(t, n) ==
  [t EXCEPT !.kids =
     [p \in Node |-> Kept(t.kids[p], {k \in DOMAIN t.kids[p] : t.kids[p][k] # n})]]

PlaceAt(t, p, n, order) ==
  LET siblings == t.kids[p]
      at == IF order < Len(siblings) THEN order ELSE Len(siblings)
  IN  [t EXCEPT !.kids[p] = InsertAt(siblings, at + 1, n)]

-----------------------------------------------------------------------------
(* buildOperations *)

Entry(t, p, k) == [node |-> t.kids[p][k], parent |-> p, index |-> k - 1]

TabEntries(t, l) == [k \in DOMAIN t.kids[l] |-> Entry(t, l, k)]

LessonEntries(t, c) ==
  FlattenSeq([k \in DOMAIN t.kids[c] |->
                <<Entry(t, c, k)>> \o TabEntries(t, t.kids[c][k])])

\* The nested loops over chapters, lessons and tabs.
Entries(t) ==
  FlattenSeq([k \in DOMAIN t.kids[Root] |->
                <<Entry(t, Root, k)>> \o LessonEntries(t, t.kids[Root][k])])

IndexOriginal(t) ==
  LET entries == Entries(t)
  IN  [n \in Nodes(t) |-> CHOOSE e \in ToSet(entries) : e.node = n]

CreateOp(work, e) ==
  [type |-> "create", target |-> Root, ref |-> e.node, parent |-> e.parent,
   order |-> e.index, val |-> work.val[e.node]]

UpdateOp(work, e) ==
  [type |-> "update", target |-> e.node, ref |-> Root, parent |-> Root,
   order |-> 0, val |-> work.val[e.node]]

\* Only a new parent is named; for a move among the same siblings parent_ref
\* is empty.
ReorderOp(idx, e) ==
  [type |-> "reorder", target |-> e.node, ref |-> Root,
   parent |-> IF idx[e.node].parent # e.parent THEN e.parent ELSE Root,
   order |-> e.index, val |-> NoValue]

DeleteOp(n) ==
  [type |-> "delete", target |-> n, ref |-> Root, parent |-> Root,
   order |-> 0, val |-> NoValue]

\* What one node of the edited tree gives rise to.
NodeOps(original, idx, work, e) ==
  LET known == e.node \in DOMAIN idx
      changed == known /\ work.val[e.node] # original.val[e.node]
      moved == known /\ (\/ idx[e.node].parent # e.parent
                         \/ idx[e.node].index # e.index)
  IN  IF IsNewKey(e.node)
      THEN <<CreateOp(work, e)>>
      ELSE (IF changed THEN <<UpdateOp(work, e)>> ELSE <<>>)
           \o (IF moved THEN <<ReorderOp(idx, e)>> ELSE <<>>)

\* Of what is gone only the top-most node is deleted, chapters first.
Deletions(original, idx, seen) ==
  LET entries == Entries(original)
      Gone(kind) == Kept(entries, {k \in DOMAIN entries :
                      /\ entries[k].node \in kind
                      /\ entries[k].node \notin seen
                      /\ entries[k].parent \in seen \cup {Root}})
      all == Gone(Chapter) \o Gone(Lesson) \o Gone(Tab)
  IN  [k \in DOMAIN all |-> DeleteOp(all[k].node)]

\* A mutant: the deletions come first.
BuildDeletionsFirst(original, work) ==
  LET idx == IndexOriginal(original)
      entries == Entries(work)
      seen == {n \in Nodes(work) : ~ IsNewKey(n)}
  IN  Deletions(original, idx, seen)
      \o FlattenSeq([k \in DOMAIN entries |-> NodeOps(original, idx, work, entries[k])])

BuildOperations(original, work) ==
  LET idx == IndexOriginal(original)
      entries == Entries(work)
      seen == {n \in Nodes(work) : ~ IsNewKey(n)}
  IN  FlattenSeq([k \in DOMAIN entries |-> NodeOps(original, idx, work, entries[k])])
      \o Deletions(original, idx, seen)

-----------------------------------------------------------------------------
(* projectOperations *)

\* A mutant: new nodes are appended, whatever their order.
ProjectCreateLast(t, op) ==
  LET p == IF op.ref \in Chapter THEN Root ELSE op.parent
  IN  IF p \in Nodes(t) \cup {Root}
      THEN PlaceAt([t EXCEPT !.val[op.ref] = op.val], p, op.ref, Len(t.kids[p]))
      ELSE t

ProjectCreate(t, op) ==
  IF op.ref \in Chapter
  THEN PlaceAt([t EXCEPT !.val[op.ref] = op.val], Root, op.ref, op.order)
  ELSE IF op.parent \in Nodes(t)
       THEN PlaceAt([t EXCEPT !.val[op.ref] = op.val], op.parent, op.ref, op.order)
       ELSE t

ProjectUpdate(t, op) ==
  IF op.target \in Nodes(t) THEN [t EXCEPT !.val[op.target] = op.val] ELSE t

ProjectDelete(t, op) == Prune(Without(t, op.target))

\* The parent is looked up after the node has been taken out of the tree: for
\* a lesson without parent_ref the first chapter is left, for a tab nothing.
ReorderParents(t, op) ==
  IF op.target \in Chapter THEN {Root}
  ELSE IF op.parent # Root THEN {op.parent} \cap Nodes(t)
  ELSE IF Holders(t, op.target) # {} \/ op.target \in Tab THEN Holders(t, op.target)
  ELSE IF t.kids[Root] = <<>> THEN {} ELSE {Head(t.kids[Root])}

ProjectReorder(t, op) ==
  LET stripped == Without(t, op.target)
      parents == ReorderParents(stripped, op)
  IN  IF op.target \notin Nodes(t) THEN t
      ELSE IF parents = {} THEN Prune(stripped)
      ELSE PlaceAt(stripped, CHOOSE p \in parents : TRUE, op.target, op.order)

ProjectOne(t, op) ==
  CASE op.type = "create"  -> ProjectCreate(t, op)
    [] op.type = "update"  -> ProjectUpdate(t, op)
    [] op.type = "delete"  -> ProjectDelete(t, op)
    [] op.type = "reorder" -> ProjectReorder(t, op)

ProjectOperations(tree, ops) ==
  LET after[k \in 0 .. Len(ops)] ==
        IF k = 0 THEN tree ELSE ProjectOne(after[k - 1], ops[k])
  IN  after[Len(ops)]
=============================================================================
