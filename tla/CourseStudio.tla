---------------------------- MODULE CourseStudio ----------------------------
(***************************************************************************)
(* The course studio: a professor edits the tree of a course in the        *)
(* browser (components/professor/studio/StudioBoard.tsx) and submits the   *)
(* difference as a change request; an administrator decides on each of its *)
(* operations, and the approved ones are applied to the course's tables in *)
(* one transaction (backend/app/services/professor_change_apply.py).  A    *)
(* pending request may be opened again, which replays it on the tree as it *)
(* is then, and replaced.  One review runs at a time.                      *)
(***************************************************************************)
EXTENDS StudioTree

CONSTANTS
  Course,       \* the rows the course starts with
  MaxRequests,  \* bound: change requests
  MaxEdits      \* bound: edits the professor makes

VARIABLES
  row,    \* row[n]: Topic, TopicItem or TabContent n, once it exists
  req,    \* change requests with their operations
  board,  \* the professor's open page
  edits   \* edits made so far

vars == <<row, req, board, edits>>

Request == 1 .. MaxRequests
ServerId == {n \in Node : n > 0}
NoRow == [st |-> "unborn", parent |-> Root, order |-> 0, val |-> NoValue]
EmptyTree == [kids |-> [n \in Node |-> <<>>], val |-> [n \in Node |-> NoValue]]

\* The rows the course starts with form a tree, as the foreign keys of TopicItem and
\* TabContent and their levels demand.
ASSUME StudioCourse ==
  /\ DOMAIN Course \subseteq ServerId
  /\ \A n \in DOMAIN Course :
       /\ Course[n] \in [st : {"live"}, parent : {Root} \cup DOMAIN Course,
                         order : Nat, val : {Course[n].val}]
       /\ MayHold(Course[n].parent, n)
  /\ MaxRequests \in Nat /\ MaxEdits \in Nat

OpStatus == {"pending", "applied", "rejected", "failed"}
RequestStatus ==
  {"none", "pending", "applied", "partially_applied", "failed", "rejected", "withdrawn"}

NoRequest == [st |-> "none", ops |-> <<>>, current |-> FALSE, proposal |-> EmptyTree]
Closed == [stage |-> "closed", edit |-> 0, ops |-> <<>>, current |-> FALSE,
           original |-> EmptyTree, working |-> EmptyTree]

Live(rows, n) == n \in ServerId /\ rows[n].st = "live"

\* What hangs from n in the tables, n included.
Below(rows, n) ==
  LET kids == {m \in ServerId : Live(rows, m) /\ rows[m].parent = n}
      grandkids == {m \in ServerId : Live(rows, m) /\ rows[m].parent \in kids}
  IN  {n} \cup kids \cup grandkids

\* The order in which load_studio_tree returns siblings.
RowBefore(rows, a, b) ==
  \/ rows[a].order < rows[b].order
  \/ rows[a].order = rows[b].order /\ a < b

InOrder(rows, S) ==
  [k \in 1 .. Cardinality(S) |->
     CHOOSE n \in S : Cardinality({m \in S : RowBefore(rows, m, n)}) = k - 1]

ServerTree(rows) ==
  [kids |-> [p \in Node |->
     InOrder(rows, {n \in ServerId : /\ Live(rows, n)
                                     /\ rows[n].parent = p
                                     /\ (p = Root) = (n \in Chapter)})],
   val |-> [n \in Node |-> IF Live(rows, n) THEN rows[n].val ELSE NoValue]]

Init ==
  /\ row = [n \in ServerId |-> IF n \in DOMAIN Course THEN Course[n] ELSE NoRow]
  /\ req = [r \in Request |-> NoRequest]
  /\ board = Closed
  /\ edits = 0

-----------------------------------------------------------------------------
(* The professor's page *)

\* The tree of the course is fetched and shown.
Shown(working) ==
  [board EXCEPT !.stage = "ready", !.current = TRUE,
                !.original = ServerTree(row), !.working = working]

OpenStudio ==
  /\ board.stage = "closed"
  /\ board' = Shown(ServerTree(row))
  /\ UNCHANGED <<row, req, edits>>

\* ?request=<id>: the request is fetched first and the tree afterwards.
OpenRequest(r) ==
  /\ board.stage = "closed"
  /\ req[r].st = "pending"
  /\ board' = [Closed EXCEPT !.stage = "loading", !.edit = r, !.ops = req[r].ops]
  /\ UNCHANGED <<row, req, edits>>

\* The operations fetched before are replayed on the tree as it is now.
LoadTree ==
  /\ board.stage = "loading"
  /\ board' = Shown(ProjectOperations(ServerTree(row), board.ops))
  /\ UNCHANGED <<row, req, edits>>

Edit(working) ==
  /\ board.stage = "ready"
  /\ edits < MaxEdits
  /\ edits' = edits + 1
  /\ board' = [board EXCEPT !.working = working]
  /\ UNCHANGED <<row, req>>

\* addChapter, addLesson, addTab.
AddNode(kind, p) ==
  LET free == {n \in kind : IsNewKey(n) /\ n \notin Nodes(board.working)}
      n == CHOOSE k \in free : \A j \in free : j <= k
  IN  /\ free # {}
      /\ \/ kind = Chapter /\ p = Root
         \/ kind = Lesson /\ p \in Nodes(board.working) \cap Chapter
         \/ kind = Tab /\ p \in Nodes(board.working) \cap Lesson
      /\ Edit([board.working EXCEPT !.kids[p] = Append(@, n), !.val[n] = Blank])

UpdateSelected(n, v) ==
  /\ n \in Nodes(board.working) /\ board.working.val[n] # v
  /\ Edit([board.working EXCEPT !.val[n] = v])

RemoveSelected(n) ==
  /\ n \in Nodes(board.working)
  /\ Edit(Prune(Without(board.working, n)))

\* The selector of the inspector offers the other chapters, or lessons.
MoveSelected(n, p) ==
  /\ n \in Nodes(board.working) /\ p \in Nodes(board.working)
  /\ p \notin Holders(board.working, n)
  /\ \/ n \in Lesson /\ p \in Chapter
     \/ n \in Tab /\ p \in Lesson
  /\ Edit([Without(board.working, n) EXCEPT !.kids[p] = Append(@, n)])

\* onDragEnd: n takes the place of over, in its own list or in another.
DragEnd(n, over) ==
  LET t == board.working
      p == CHOOSE q \in Holders(t, over) : TRUE
      at == CHOOSE k \in DOMAIN t.kids[p] : t.kids[p][k] = over
  IN  /\ {n, over} \subseteq Nodes(t) /\ n # over
      /\ \E kind \in {Chapter, Lesson, Tab} : {n, over} \subseteq kind
      /\ Edit(PlaceAt(Without(t, n), p, n, at - 1))

\* A new request takes a free place, an edited one replaces its operations.
Target(r) == IF board.edit = 0 THEN req[r].st = "none" /\ \A q \in 1 .. (r - 1) : req[q].st # "none"
             ELSE r = board.edit /\ req[r].st = "pending"

\* Every target must still be part of the course.
ValidTargets(ops) ==
  \A k \in DOMAIN ops : ops[k].type = "create" \/ Live(row, ops[k].target)

Pending(ops) ==
  [k \in DOMAIN ops |->
     [type |-> ops[k].type, target |-> ops[k].target, ref |-> ops[k].ref,
      parent |-> ops[k].parent, order |-> ops[k].order, val |-> ops[k].val,
      st |-> "pending", made |-> 0]]

Stored(r, ops) ==
  [req EXCEPT ![r] = [st |-> "pending", ops |-> Pending(ops),
                      current |-> board.current, proposal |-> board.working]]

\* Afterwards the page loads the tree again: a new request leaves it as if it
\* had just been opened, an edited one is replayed as it was stored.
Submit(r) ==
  LET ops == BuildOperations(board.original, board.working)
  IN  /\ board.stage = "ready" /\ ops # <<>>
      /\ Target(r) /\ ValidTargets(ops)
      /\ req' = Stored(r, ops)
      /\ board' = IF board.edit = 0 THEN Closed
                  ELSE [Closed EXCEPT !.stage = "loading", !.edit = board.edit,
                                      !.ops = Pending(ops)]
      /\ UNCHANGED <<row, edits>>

Leave ==
  /\ board.stage # "closed"
  /\ board' = Closed
  /\ UNCHANGED <<row, req, edits>>

Withdraw(r) ==
  /\ req[r].st = "pending"
  /\ req' = [req EXCEPT ![r] = [NoRequest EXCEPT !.st = "withdrawn"]]
  /\ UNCHANGED <<row, board, edits>>

-----------------------------------------------------------------------------
(* apply_change_operations.  s carries the tables, the ids that the creates *)
(* of this call have produced, the operations, and whether a statement has  *)
(* failed in the database, after which the whole transaction is lost.       *)

Done(s, k, id) == [s EXCEPT !.ops[k].st = "applied", !.ops[k].made = id]
Fail(s, k) == [s EXCEPT !.ops[k].st = "failed"]
Break(s) == [s EXCEPT !.broken = TRUE]

Unresolved == 0
ResolveRef(s, ref) == IF IsNewKey(ref) THEN s.refs[ref] ELSE ref

NextId(rows, kind) ==
  LET free == {n \in kind \cap ServerId : rows[n].st = "unborn"}
  IN  CHOOSE n \in free : \A m \in free : n <= m

KindOf(n) == CHOOSE kind \in {Chapter, Lesson, Tab} : n \in kind

ApplyCreate(s, k) ==
  LET op == s.ops[k]
      top == op.ref \in Chapter
      parent == IF top THEN Root ELSE ResolveRef(s, op.parent)
      id == NextId(s.row, KindOf(op.ref))
  IN  IF ~ top /\ parent = Unresolved THEN Fail(s, k)
      ELSE IF ~ top /\ ~ Live(s.row, parent) THEN Break(s)
      ELSE Done([s EXCEPT !.row[id] = [st |-> "live", parent |-> parent,
                                       order |-> op.order, val |-> op.val],
                          !.refs[op.ref] = id], k, id)

ApplyUpdate(s, k) ==
  LET n == s.ops[k].target
  IN  IF Live(s.row, n) THEN Done([s EXCEPT !.row[n].val = s.ops[k].val], k, n)
      ELSE Fail(s, k)

\* A mutant: only the children go with the node.
ApplyDeleteShallow(s, k) ==
  LET n == s.ops[k].target
  IN  IF Live(s.row, n)
      THEN Done([s EXCEPT !.row = [m \in ServerId |->
                   IF Live(s.row, m) /\ (m = n \/ s.row[m].parent = n)
                   THEN [NoRow EXCEPT !.st = "gone"] ELSE s.row[m]]], k, n)
      ELSE Fail(s, k)

ApplyDelete(s, k) ==
  LET n == s.ops[k].target
      gone == Below(s.row, n)
  IN  IF Live(s.row, n)
      THEN Done([s EXCEPT !.row = [m \in ServerId |->
                   IF m \in gone THEN [NoRow EXCEPT !.st = "gone"] ELSE s.row[m]]], k, n)
      ELSE Fail(s, k)

\* Mutants: a move leaves the node where it is; a move makes room for itself.
ApplyReorderInPlace(s, k) ==
  LET n == s.ops[k].target
  IN  IF Live(s.row, n) THEN Done([s EXCEPT !.row[n].order = s.ops[k].order], k, n)
      ELSE Fail(s, k)

ApplyReorderShifting(s, k) ==
  LET op == s.ops[k]
      n == op.target
      parent == IF op.parent = Root THEN s.row[n].parent ELSE ResolveRef(s, op.parent)
  IN  IF ~ Live(s.row, n) \/ (op.parent # Root /\ ~ Live(s.row, parent)) THEN Fail(s, k)
      ELSE Done([s EXCEPT !.row = [m \in ServerId |->
             IF m = n THEN [s.row[n] EXCEPT !.order = op.order, !.parent = parent]
             ELSE IF /\ Live(s.row, m) /\ s.row[m].parent = parent
                     /\ (parent = Root) = (m \in Chapter) /\ s.row[m].order >= op.order
                  THEN [s.row[m] EXCEPT !.order = @ + 1] ELSE s.row[m]]], k, n)

\* The order is set before the parent is looked up, and stays set when the
\* parent is not found and the operation fails.
ApplyReorder(s, k) ==
  LET op == s.ops[k]
      n == op.target
      parent == ResolveRef(s, op.parent)
      ordered == [s EXCEPT !.row[n].order = op.order]
  IN  IF ~ Live(s.row, n) THEN Fail(s, k)
      ELSE IF op.parent = Root THEN Done(ordered, k, n)
      ELSE IF parent = Unresolved THEN Fail(ordered, k)
      ELSE IF ~ Live(s.row, parent) THEN Break(s)
      ELSE Done([ordered EXCEPT !.row[n].parent = parent], k, n)

ApplyOne(s, k) ==
  CASE s.ops[k].type = "create"  -> ApplyCreate(s, k)
    [] s.ops[k].type = "update"  -> ApplyUpdate(s, k)
    [] s.ops[k].type = "delete"  -> ApplyDelete(s, k)
    [] s.ops[k].type = "reorder" -> ApplyReorder(s, k)

\* Rejections first, then the approved operations in seq order.
ApplyChangeOperations(ops, approved) ==
  LET decided == [k \in DOMAIN ops |-> IF k \in approved THEN ops[k]
                                       ELSE [ops[k] EXCEPT !.st = "rejected"]]
      start == [row |-> row, refs |-> [n \in {m \in Node : IsNewKey(m)} |-> Unresolved],
                ops |-> decided, broken |-> FALSE]
      after[k \in 0 .. Len(ops)] ==
        IF k = 0 THEN start
        ELSE IF after[k - 1].broken \/ k \notin approved THEN after[k - 1]
        ELSE ApplyOne(after[k - 1], k)
  IN  after[Len(ops)]

StatusOf(ops) ==
  LET seen == {ops[k].st : k \in DOMAIN ops}
  IN  CASE "pending" \in seen -> "pending"
        [] "applied" \in seen /\ seen # {"applied"} -> "partially_applied"
        [] "applied" \in seen -> "applied"
        [] "failed" \in seen -> "failed"
        [] OTHER -> "rejected"

\* Bound: there are ids left for what the request creates.
IdsLeft(ops) ==
  \A kind \in {Chapter, Lesson, Tab} :
     Cardinality({k \in DOMAIN ops : ops[k].type = "create" /\ ops[k].ref \in kind})
       <= Cardinality({n \in kind \cap ServerId : row[n].st = "unborn"})

\* The review page sends a decision for every pending operation.
Review(r, approved) ==
  LET after == ApplyChangeOperations(req[r].ops, approved)
      touched == after.row # row
  IN  /\ req[r].st = "pending"
      /\ IdsLeft(req[r].ops)
      /\ ~ after.broken
      /\ row' = after.row
      /\ req' = [q \in Request |->
           IF q = r THEN [NoRequest EXCEPT !.st = StatusOf(after.ops), !.ops = after.ops]
           ELSE [req[q] EXCEPT !.current = @ /\ ~ touched]]
      /\ board' = [board EXCEPT !.current = @ /\ ~ touched]
      /\ UNCHANGED edits

Next ==
  \/ OpenStudio
  \/ \E r \in Request : OpenRequest(r)
  \/ LoadTree
  \/ \E p \in Node :
       \/ AddNode(Chapter, p)
       \/ AddNode(Lesson, p)
       \/ AddNode(Tab, p)
  \/ \E n \in Node :
       \/ \E v \in Value : UpdateSelected(n, v)
       \/ RemoveSelected(n)
       \/ \E p \in Node : MoveSelected(n, p)
       \/ \E over \in Node : DragEnd(n, over)
  \/ \E r \in Request :
       \/ Submit(r)
       \/ Withdraw(r)
       \/ \E approved \in SUBSET (DOMAIN req[r].ops) : Review(r, approved)
  \/ Leave

Spec == Init /\ [][Next]_vars

-----------------------------------------------------------------------------
(* Properties *)

\* A tree in which every node hangs in one place, under a node of the level
\* above.
WellFormed(t) ==
  /\ \A p \in Node : \A k \in DOMAIN t.kids[p] :
       /\ Holders(t, t.kids[p][k]) = {p}
       /\ \A j \in DOMAIN t.kids[p] : t.kids[p][j] = t.kids[p][k] => j = k
       /\ MayHold(p, t.kids[p][k])
  /\ Prune(t) = t

\* The types of the variables; the trees that are shown are trees, and no row
\* hangs from a row that is gone.
TypeOK ==
  /\ \A n \in ServerId :
       /\ row[n].st \in {"unborn", "live", "gone"}
       /\ Live(row, n) => row[n].parent = Root \/ Live(row, row[n].parent)
  /\ \A r \in Request :
       /\ req[r].st \in RequestStatus
       /\ \A k \in DOMAIN req[r].ops : req[r].ops[k].st \in OpStatus
       /\ WellFormed(req[r].proposal)
  /\ board.stage \in {"closed", "loading", "ready"}
  /\ board.edit \in {0} \cup Request
  /\ WellFormed(board.original) /\ WellFormed(board.working)
  /\ edits \in 0 .. MaxEdits

\* The orders of siblings are their places.
Dense(rows) ==
  \A p \in Node : LET kids == ServerTree(rows).kids[p]
                  IN  \A k \in DOMAIN kids : rows[kids[k]].order = k - 1

\* The tree t in which node n is called id[n], where nodes have names of their own.
Named(t, id) ==
  [kids |-> [m \in Node |->
     LET from == {p \in Nodes(t) \cup {Root} : id[p] = m}
     IN  IF from = {} THEN <<>>
         ELSE LET kids == t.kids[CHOOSE p \in from : TRUE]
              IN  [k \in DOMAIN kids |-> id[kids[k]]]],
   val |-> [m \in Node |->
     LET from == {p \in Nodes(t) : id[p] = m}
     IN  IF from = {} THEN NoValue ELSE t.val[CHOOSE p \in from : TRUE]]]

\* The whole of a request approved, on the tree it was made for, turns that
\* tree into exactly what the professor saw when submitting, and leaves the
\* orders equal to the places again (buildOperations against the handlers of
\* professor_change_apply.py: creates before what refers to them, moves before
\* the deletion of what they leave, no sibling forgotten).
ApprovalYieldsProposal ==
  \A r \in Request :
    req[r].st = "pending" /\ req[r].current /\ Dense(row) /\ IdsLeft(req[r].ops) =>
      LET ops == req[r].ops
          after == ApplyChangeOperations(ops, DOMAIN ops)
          id == [n \in Node |->
            IF \E k \in DOMAIN ops : IsNewKey(n) /\ ops[k].ref = n
            THEN after.ops[CHOOSE k \in DOMAIN ops : ops[k].ref = n].made
            ELSE n]
      IN  /\ ~ after.broken
          /\ StatusOf(after.ops) = "applied"
          /\ ServerTree(after.row) = Named(req[r].proposal, id)
          /\ Dense(after.row)

Resumed(r) ==
  /\ board.stage = "loading" /\ board'.stage = "ready" /\ board.edit = r
  /\ req[r].st = "pending" /\ req[r].current

\* Nothing that was created or moved stands before a sibling that was neither.
PlacedLast(t, ops) ==
  LET placed == {ops[k].ref : k \in DOMAIN ops}
                \cup {ops[k].target : k \in {j \in DOMAIN ops : ops[j].type = "reorder"}}
  IN  \A p \in Node : \A j, k \in DOMAIN t.kids[p] :
        j < k /\ t.kids[p][j] \in placed => t.kids[p][k] \in placed

\* A pending request that is opened again shows the tree the professor left
\* (StudioBoard.tsx 94-96: "so editing resumes where the professor left off"),
\* unless a lesson or a tab changed its place among the same siblings, as
\* projectOperations loses the parent of those, or a node was put before one
\* that keeps its index: projectOperations counts that index while what will be
\* deleted or moved away later is still in the list.
ResumesUnlessReordered ==
  [][\A r \in Request :
       /\ Resumed(r)
       /\ \A k \in DOMAIN req[r].ops :
            LET op == req[r].ops[k]
            IN  op.type = "reorder" /\ op.parent = Root => op.target \in Chapter
       /\ PlacedLast(req[r].proposal, req[r].ops)
       => board'.working = req[r].proposal]_vars

Reviewed(r) == req[r].st = "pending" /\ req'[r].st \notin {"pending", "withdrawn"}

HasEffect(op, now) ==
  CASE op.type = "create"  -> /\ row[op.made].st = "unborn"
                              /\ now.st = "live" /\ now.val = op.val
                              /\ now.order = op.order
    [] op.type = "update"  -> now.st = "live" /\ now.val = op.val
    [] op.type = "delete"  -> now.st = "gone"
    [] op.type = "reorder" -> now.st = "live" /\ now.order = op.order

\* The nodes under which an applied operation may leave its own: the parent it
\* names, or else the old one and any that another operation names.
Holding(ops, op) ==
  LET named == {ops[k].parent : k \in {j \in DOMAIN ops :
                  ops[j].st = "applied" /\ ops[j].target = op.target}}
      parents == IF op.parent = Root THEN named \cup {row[op.made].parent} ELSE {op.parent}
      made == {k \in DOMAIN ops : ops[k].ref \in {p \in parents : IsNewKey(p)}}
  IN  {p \in parents : p > 0} \cup {ops[k].made : k \in made}

WentWithHolder(ops, op) ==
  /\ row'[op.made].st = "gone"
  /\ \E p \in Holding(ops, op) : row'[p].st = "gone"

\* What a review reports as applied is so in the tables when it commits: no
\* later operation of the batch undoes an earlier one, and what an approved
\* move took out of a deleted node survives it, whatever else was rejected.
\* Only a node whose own parent is deleted goes with it.
AppliedHasEffect ==
  [][\A r \in Request : Reviewed(r) =>
       \A k \in DOMAIN req'[r].ops :
         LET op == req'[r].ops[k]
         IN  op.st = "applied" =>
               HasEffect(op, row'[op.made]) \/ WentWithHolder(req'[r].ops, op)]_vars

\* A review changes nothing else: a row that differs afterwards was created,
\* changed or moved by an operation that was approved, or went with a node whose
\* deletion was approved.  An operation that failed may have changed the order.
ChangesAreApproved ==
  [][\A r \in Request : Reviewed(r) =>
       \A n \in ServerId : row'[n] # row[n] =>
         \E k \in DOMAIN req'[r].ops :
           LET op == req'[r].ops[k]
           IN  \/ op.st = "applied" /\ op.made = n
               \/ op.st = "applied" /\ op.type = "delete" /\ n \in Below(row, op.target)
               \/ op.st = "failed" /\ op.type = "reorder" /\ op.target = n]_vars
=============================================================================
