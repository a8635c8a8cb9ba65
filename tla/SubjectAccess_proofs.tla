------------------------ MODULE SubjectAccess_proofs ------------------------
(* What SubjectAccess keeps for any students, subjects, days and staff.    *)
EXTENDS SubjectAccess, Lists_proofs, FiniteSetTheorems, TLAPS

\* A revocation under way names manual rows of its student and subject.
Targets ==
  \A b \in busy : b.op = "revoke" => b.hit \subseteq Manual(b.user, b.subject)

\* Paid rows are open from the day of the payment on; staff give days that end.
Sources ==
  /\ \A b \in busy : b.op # "grant" => b.at <= now
  /\ \A i \in DOMAIN rows :
       \/ /\ rows[i].source = "payment" /\ rows[i].status = "active"
          /\ rows[i].from <= now /\ rows[i].until = Forever
       \/ rows[i].source = "manual" /\ rows[i].until \in Time

\* A row opened the subject on day t, and nobody but a revocation ended it since.
Backed(u, s, t) ==
  \/ \E i \in Of(u, s) : rows[i].source = "payment"
  \/ \E i \in Manual(u, s) : /\ rows[i].from <= t
                             /\ t <= rows[i].until \/ rows[i].status = "revoked"

Backing ==
  /\ \A p \in promised : Backed(p.user, p.subject, p.at)
  /\ \A b \in busy : b.op = "confirm" =>
       \A s \in Subject \ b.missing : Backed(b.user, s, b.at)

-----------------------------------------------------------------------------
\* What a confirmation adds: one paid row for every subject it found missing.
LEMMA PaidRows ==
  ASSUME TypeOK, NEW c \in busy, ConfirmCommits(c)
  PROVE  /\ rows' \in Seq(Row)
         /\ Len(rows) <= Len(rows')
         /\ \A i \in DOMAIN rows : i \in DOMAIN rows' /\ rows'[i] = rows[i]
         /\ \A i \in DOMAIN rows' \ DOMAIN rows :
              /\ rows'[i].source = "payment" /\ rows'[i].status = "active"
              /\ rows'[i].from = c.at /\ rows'[i].until = Forever
         /\ \A s \in c.missing : \E i \in DOMAIN rows' :
              /\ rows'[i].user = c.user /\ rows'[i].subject = s
              /\ rows'[i].source = "payment"
<1> DEFINE new == SetToSeq(c.missing)
           paid(s) == [user |-> c.user, subject |-> s, source |-> "payment",
                       from |-> c.at, until |-> Forever, status |-> "active"]
           add == [i \in DOMAIN new |-> paid(new[i])]
<1>1. c \in Confirmation
  BY DEF TypeOK, ConfirmCommits, Granting, Revoking
<1>2. c.missing \subseteq Subject /\ c.user \in User /\ c.at \in Time
  BY <1>1 DEF Confirmation
<1>3. new \in Seq(c.missing) /\ \A s \in c.missing : \E i \in DOMAIN new : new[i] = s
  BY <1>2, Listing, FS_Subset, AccessConstants
<1>4. rows' = rows \o add
  BY DEF ConfirmCommits
<1> HIDE DEF new
<1>5. \A s \in Subject : paid(s) \in Row
  BY <1>2, AccessConstants DEF Row, Forever
<1>6. add \in Seq(Row) /\ DOMAIN add = DOMAIN new
  BY <1>2, <1>3, <1>5
<1>7. rows \in Seq(Row)
  BY DEF TypeOK
<1>8. /\ rows' \in Seq(Row) /\ Len(rows') = Len(rows) + Len(add)
      /\ \A i \in 1 .. Len(rows) : rows'[i] = rows[i]
      /\ \A i \in 1 .. Len(add) : rows'[Len(rows) + i] = add[i]
  BY <1>4, <1>6, <1>7
<1>9. \A i \in DOMAIN add : \E s \in c.missing : add[i] = paid(s)
  BY <1>3
<1>10. \A i \in DOMAIN rows' \ DOMAIN rows : \E s \in c.missing : rows'[i] = paid(s)
  <2> SUFFICES ASSUME NEW i \in DOMAIN rows' \ DOMAIN rows
               PROVE  \E s \in c.missing : rows'[i] = paid(s)
    OBVIOUS
  <2>1. PICK k \in 1 .. Len(add) : i = Len(rows) + k
    <3>1. i - Len(rows) \in 1 .. Len(add) /\ i = Len(rows) + (i - Len(rows))
      BY <1>6, <1>7, <1>8
    <3> QED  BY <3>1
  <2> HIDE DEF add
  <2>2. rows'[i] = add[k] /\ k \in DOMAIN add
    BY <2>1, <1>6, <1>8
  <2> QED  BY <2>2, <1>9
<1>11. \A s \in c.missing : \E i \in DOMAIN rows' : rows'[i] = paid(s)
  <2> SUFFICES ASSUME NEW s \in c.missing PROVE \E i \in DOMAIN rows' : rows'[i] = paid(s)
    OBVIOUS
  <2>1. PICK i \in DOMAIN new : new[i] = s
    BY <1>3
  <2>2. i \in 1 .. Len(add) /\ add[i] = paid(s) /\ Len(rows) + i \in DOMAIN rows'
    BY <2>1, <1>3, <1>6, <1>7, <1>8
  <2> QED  BY <2>2, <1>8
<1>12. \A s : /\ paid(s).user = c.user /\ paid(s).subject = s
              /\ paid(s).source = "payment" /\ paid(s).status = "active"
              /\ paid(s).from = c.at /\ paid(s).until = Forever
  OBVIOUS
<1> HIDE DEF paid, add
<1>13. Len(rows) <= Len(rows') /\ \A i \in DOMAIN rows : i \in DOMAIN rows' /\ rows'[i] = rows[i]
  <2>1. Len(rows) \in Nat /\ Len(add) \in Nat /\ Len(rows') = Len(rows) + Len(add)
    BY <1>6, <1>7, <1>8
  <2>2. DOMAIN rows = 1 .. Len(rows) /\ DOMAIN rows' = 1 .. Len(rows')
    BY <1>7, <1>8
  <2> QED  BY <1>8, <2>1, <2>2
<1>14. \A i \in DOMAIN rows' \ DOMAIN rows :
         /\ rows'[i].source = "payment" /\ rows'[i].status = "active"
         /\ rows'[i].from = c.at /\ rows'[i].until = Forever
  BY <1>10, <1>12
<1>15. \A s \in c.missing : \E i \in DOMAIN rows' :
         /\ rows'[i].user = c.user /\ rows'[i].subject = s /\ rows'[i].source = "payment"
  BY <1>11, <1>12
<1> QED  BY <1>8, <1>13, <1>14, <1>15

\* What a grant adds: nothing, or one manual row.
LEMMA GrantedRow ==
  ASSUME TypeOK, NEW g \in busy, GrantCommits(g)
  PROVE  /\ g \in Granting /\ rows' \in Seq(Row)
         /\ g.there => rows' = rows
         /\ ~g.there =>
              /\ Len(rows') = Len(rows) + 1
              /\ \A i \in DOMAIN rows : rows'[i] = rows[i]
              /\ rows'[Len(rows) + 1] =
                   [user |-> g.user, subject |-> g.subject, source |-> "manual",
                    from |-> g.from, until |-> g.until, status |-> "active"]
<1> DEFINE r == [user |-> g.user, subject |-> g.subject, source |-> "manual",
                 from |-> g.from, until |-> g.until, status |-> "active"]
<1>1. g \in Granting
  BY DEF TypeOK, GrantCommits, Confirmation, Revoking
<1>2. r \in Row
  BY <1>1, AccessConstants DEF Granting, Row, Time, Forever
<1>3. rows \in Seq(Row) /\ rows' = IF g.there THEN rows ELSE Append(rows, r)
  BY DEF TypeOK, GrantCommits
<1> HIDE DEF r
<1>4. Append(rows, r) \in Seq(Row) /\ Len(Append(rows, r)) = Len(rows) + 1
      /\ Append(rows, r)[Len(rows) + 1] = r
      /\ \A i \in DOMAIN rows : Append(rows, r)[i] = rows[i]
  BY <1>2, <1>3
<1> QED  BY <1>1, <1>3, <1>4 DEF r

\* What a revocation changes: the rows it has read.
LEMMA RevokedRows ==
  ASSUME TypeOK, NEW rv \in busy, RevokeCommits(rv)
  PROVE  /\ rv \in Revoking /\ rows' \in Seq(Row) /\ DOMAIN rows' = DOMAIN rows
         /\ \A i \in DOMAIN rows \ rv.hit : rows'[i] = rows[i]
         /\ \A i \in DOMAIN rows \cap rv.hit :
              /\ rows'[i].user = rows[i].user /\ rows'[i].subject = rows[i].subject
              /\ rows'[i].source = rows[i].source /\ rows'[i].from = rows[i].from
              /\ rows'[i].status = "revoked" /\ rows'[i].until \in Time
<1> DEFINE ended(i) == [rows[i] EXCEPT !.status = "revoked", !.until = rv.at]
<1>1. rv \in Revoking
  BY DEF TypeOK, RevokeCommits, Revoke, Confirmation, Granting
<1>2. rows \in Seq(Row) /\ DOMAIN rows = 1 .. Len(rows) /\ rv.at \in Time
  BY <1>1 DEF TypeOK, Revoking
<1>3. rows' = [i \in DOMAIN rows |-> IF i \in rv.hit THEN ended(i) ELSE rows[i]]
  BY DEF RevokeCommits, Revoke
<1>4. \A i \in DOMAIN rows :
        /\ ended(i) \in Row
        /\ ended(i).user = rows[i].user /\ ended(i).subject = rows[i].subject
        /\ ended(i).source = rows[i].source /\ ended(i).from = rows[i].from
        /\ ended(i).status = "revoked" /\ ended(i).until = rv.at
  <2> SUFFICES ASSUME NEW i \in DOMAIN rows
               PROVE  /\ ended(i) \in Row
                      /\ ended(i).user = rows[i].user /\ ended(i).subject = rows[i].subject
                      /\ ended(i).source = rows[i].source /\ ended(i).from = rows[i].from
                      /\ ended(i).status = "revoked" /\ ended(i).until = rv.at
    OBVIOUS
  <2>1. rows[i] \in Row
    BY <1>2
  <2>2. rv.at \in 0 .. Forever
    BY <1>2, AccessConstants DEF Time, Forever
  <2> QED  BY <2>1, <2>2 DEF Row
<1> HIDE DEF ended
<1>5. rows' \in [1 .. Len(rows) -> Row] /\ Len(rows) \in Nat
  BY <1>2, <1>3, <1>4
<1> QED  BY <1>1, <1>2, <1>3, <1>4, <1>5

-----------------------------------------------------------------------------
LEMMA AccessStarts == Init => TypeOK /\ Targets /\ Sources /\ Backing
  BY AccessConstants DEF Init, TypeOK, Targets, Sources, Backing, Time

\* The next operation is one of those the types allow.
LEMMA BeginTypes ==
  ASSUME TypeOK, NEW b, Begin(b),
         \/ b \in Confirmation
         \/ b \in Granting
         \/ b \in Revoking /\ b.hit \subseteq DOMAIN rows
  PROVE  TypeOK'
  BY DEF TypeOK, Begin

\* A commit ends an operation and keeps every row in its place.
LEMMA CommitTypes ==
  ASSUME TypeOK, rows' \in Seq(Row), DOMAIN rows \subseteq DOMAIN rows',
         audit' \in Seq(Record), promised' \subseteq Promise,
         overtaken' \subseteq User \X Subject, busy' \subseteq busy, now' = now
  PROVE  TypeOK'
<1>1. \A b \in busy' :
        \/ b \in Confirmation
        \/ b \in Granting
        \/ b \in Revoking /\ b.hit \subseteq DOMAIN rows'
  BY DEF TypeOK
<1> QED  BY <1>1 DEF TypeOK

LEMMA TypeStep ==
  TypeOK /\ [Next]_vars => TypeOK'
<1> SUFFICES ASSUME TypeOK, [Next]_vars PROVE TypeOK'
  OBVIOUS
<1>1. CASE Tick
  BY <1>1, AccessConstants DEF Tick, TypeOK, Time
<1>2. ASSUME NEW u \in User, ConfirmReads(u) PROVE TypeOK'
  <2>1. [op |-> "confirm", user |-> u, at |-> now, missing |-> {s \in Subject : ~Open(u, s)}]
          \in Confirmation
    BY DEF TypeOK, Confirmation
  <2> QED  BY <1>2, <2>1, BeginTypes DEF ConfirmReads
<1>3. ASSUME NEW u \in User, NEW s \in Subject, RevokeReads(u, s) PROVE TypeOK'
  <2> DEFINE hit == {i \in Manual(u, s) : rows[i].status = "active" /\ now <= rows[i].until}
             b == [op |-> "revoke", user |-> u, subject |-> s, at |-> now, hit |-> hit]
  <2>1. hit \subseteq DOMAIN rows /\ hit \subseteq Nat
    BY DEF TypeOK, Manual, Of
  <2>2. b \in Revoking /\ b.hit = hit
    BY <2>1 DEF TypeOK, Revoking
  <2>3. Begin(b)
    BY <1>3 DEF RevokeReads, BeginRevoke
  <2> HIDE DEF b, hit
  <2> QED  BY <2>1, <2>2, <2>3, BeginTypes
<1>4. ASSUME NEW u \in User, NEW s \in Subject, NEW from \in Time, NEW until \in Time,
             GrantReads(u, s, from, until) PROVE TypeOK'
  <2>1. [op |-> "grant", user |-> u, subject |-> s, from |-> from, until |-> until,
         there |-> \E i \in Manual(u, s) : InForce(rows[i], from)] \in Granting
    BY DEF Granting
  <2> QED  BY <1>4, <2>1, BeginTypes DEF GrantReads
<1>5. ASSUME NEW c \in busy, ConfirmCommits(c) PROVE TypeOK'
  <2>1. c \in Confirmation
    BY <1>5 DEF TypeOK, ConfirmCommits, Granting, Revoking
  <2>2. rows' \in Seq(Row) /\ DOMAIN rows \subseteq DOMAIN rows'
    BY <1>5, PaidRows
  <2>3. promised' \subseteq Promise
    BY <1>5, <2>1 DEF ConfirmCommits, TypeOK, Promise, Confirmation
  <2> QED  BY <1>5, <2>2, <2>3, CommitTypes DEF ConfirmCommits, TypeOK
<1>6. ASSUME NEW g \in busy, GrantCommits(g) PROVE TypeOK'
  <2>1. g \in Granting /\ rows' \in Seq(Row) /\ rows \in Seq(Row)
    BY <1>6, GrantedRow DEF TypeOK
  <2>2. audit' \in Seq(Record)
    <3> DEFINE r == [user |-> g.user, subject |-> g.subject, action |-> "grant",
                     status |-> IF g.there THEN "no_op" ELSE "completed",
                     from |-> g.from, until |-> g.until]
    <3>1. r \in Record
      BY <2>1 DEF Record, Granting
    <3>2. audit' = Append(audit, r) /\ audit \in Seq(Record)
      BY <1>6 DEF GrantCommits, TypeOK
    <3> HIDE DEF r
    <3> QED  BY <3>1, <3>2
  <2>3. overtaken' \subseteq User \X Subject
    BY <1>6, <2>1 DEF GrantCommits, TypeOK, Granting
  <2>4. DOMAIN rows \subseteq DOMAIN rows'
    <3>1. rows' = rows \/ Len(rows') = Len(rows) + 1
      BY <1>6, GrantedRow
    <3> QED  BY <3>1, <2>1
  <2> QED  BY <1>6, <2>1, <2>2, <2>3, <2>4, CommitTypes DEF GrantCommits, TypeOK
<1>7. ASSUME NEW rv \in busy, RevokeCommits(rv) PROVE TypeOK'
  <2>1. rv \in Revoking /\ rows' \in Seq(Row) /\ DOMAIN rows = DOMAIN rows'
    BY <1>7, RevokedRows
  <2>2. audit' \in Seq(Record)
    <3> DEFINE r == [user |-> rv.user, subject |-> rv.subject, action |-> "revoke",
                     status |-> IF rv.hit = {} THEN "no_op" ELSE "completed",
                     from |-> rv.at, until |-> rv.at]
    <3>1. r \in Record
      BY <2>1 DEF Record, Revoking
    <3>2. audit' = Append(audit, r) /\ audit \in Seq(Record)
      BY <1>7 DEF RevokeCommits, Revoke, TypeOK
    <3> HIDE DEF r
    <3> QED  BY <3>1, <3>2
  <2> QED  BY <1>7, <2>1, <2>2, CommitTypes DEF RevokeCommits, Revoke, TypeOK
<1>8. ASSUME NEW b \in busy, Abort(b) PROVE TypeOK'
  BY <1>8 DEF Abort, TypeOK
<1>9. CASE UNCHANGED vars
  BY <1>9 DEF vars, TypeOK
<1> QED  BY <1>1, <1>2, <1>3, <1>4, <1>5, <1>6, <1>7, <1>8, <1>9 DEF Next

-----------------------------------------------------------------------------
(* A step passes time or ends an operation without effect, reads for a new *)
(* one, or commits.                                                        *)

Idle ==
  /\ now' \in {now, now + 1} /\ busy' \subseteq busy
  /\ UNCHANGED <<rows, audit, promised, overtaken>>

HasRead(b) ==
  \/ b.op = "confirm" /\ b.at = now /\ \A s \in Subject \ b.missing : Open(b.user, s)
  \/ b.op = "grant"
  \/ /\ b.op = "revoke" /\ b.at = now
     /\ b.hit = {i \in Manual(b.user, b.subject) :
                   rows[i].status = "active" /\ now <= rows[i].until}

Reading(b) ==
  HasRead(b) /\ busy' = busy \cup {b} /\ UNCHANGED <<now, rows, audit, promised, overtaken>>

Commits(b) == ConfirmCommits(b) \/ GrantCommits(b) \/ RevokeCommits(b)

LEMMA StepKinds ==
  ASSUME [Next]_vars
  PROVE  Idle \/ (\E b : Reading(b)) \/ (\E b \in busy : Commits(b))
<1>1. CASE Tick \/ UNCHANGED vars \/ \E b \in busy : Abort(b)
  BY <1>1 DEF Tick, vars, Abort, Idle
<1>2. ASSUME NEW u \in User, ConfirmReads(u) PROVE \E b : Reading(b)
  <2> DEFINE b == [op |-> "confirm", user |-> u, at |-> now,
                   missing |-> {s \in Subject : ~Open(u, s)}]
  <2>1. HasRead(b)
    BY DEF HasRead
  <2>2. Begin(b)
    BY <1>2 DEF ConfirmReads
  <2> HIDE DEF b
  <2> QED  BY <2>1, <2>2 DEF Begin, Reading
<1>3. ASSUME NEW u \in User, NEW s \in Subject, RevokeReads(u, s) PROVE \E b : Reading(b)
  <2> DEFINE b == [op |-> "revoke", user |-> u, subject |-> s, at |-> now,
                   hit |-> {i \in Manual(u, s) :
                              rows[i].status = "active" /\ now <= rows[i].until}]
  <2>1. HasRead(b)
    BY DEF HasRead
  <2>2. Begin(b)
    BY <1>3 DEF RevokeReads, BeginRevoke
  <2> HIDE DEF b
  <2> QED  BY <2>1, <2>2 DEF Begin, Reading
<1>4. ASSUME NEW u \in User, NEW s \in Subject, NEW from \in Time, NEW until \in Time,
             GrantReads(u, s, from, until)
      PROVE  \E b : Reading(b)
  <2> DEFINE b == [op |-> "grant", user |-> u, subject |-> s, from |-> from, until |-> until,
                   there |-> \E i \in Manual(u, s) : InForce(rows[i], from)]
  <2>1. HasRead(b)
    BY DEF HasRead
  <2>2. Begin(b)
    BY <1>4 DEF GrantReads
  <2> HIDE DEF b
  <2> QED  BY <2>1, <2>2 DEF Begin, Reading
<1> QED  BY <1>1, <1>2, <1>3, <1>4 DEF Next, Commits

\* A commit ends its operation on the day that it is.
LEMMA CommitEnds ==
  ASSUME NEW b \in busy, Commits(b)
  PROVE  /\ busy' = busy \ {b} /\ now' = now
         /\ ~ConfirmCommits(b) => UNCHANGED promised
  BY DEF Commits, ConfirmCommits, GrantCommits, RevokeCommits, Revoke

-----------------------------------------------------------------------------
(* A row is never removed nor reassigned, and only a revocation of manual  *)
(* access changes one.                                                     *)

RowsKept ==
  \A i \in DOMAIN rows :
    /\ i \in DOMAIN rows'
    /\ rows'[i].user = rows[i].user /\ rows'[i].subject = rows[i].subject
    /\ rows'[i].source = rows[i].source /\ rows'[i].from = rows[i].from
    /\ \/ rows'[i] = rows[i]
       \/ rows[i].source = "manual" /\ rows'[i].status = "revoked"

LEMMA KeptStep ==
  ASSUME TypeOK, Targets, [Next]_vars
  PROVE  RowsKept
<1>1. ASSUME NEW c \in busy, ConfirmCommits(c) PROVE RowsKept
  BY <1>1, PaidRows DEF RowsKept
<1>2. ASSUME NEW g \in busy, GrantCommits(g) PROVE RowsKept
  <2>1. rows \in Seq(Row) /\ rows' \in Seq(Row)
    BY <1>2, GrantedRow DEF TypeOK
  <2>2. rows' = rows \/ Len(rows') = Len(rows) + 1
    BY <1>2, GrantedRow
  <2>3. \A i \in DOMAIN rows : i \in DOMAIN rows' /\ rows'[i] = rows[i]
    <3>1. DOMAIN rows \subseteq DOMAIN rows'
      BY <2>1, <2>2
    <3> QED  BY <1>2, <3>1, GrantedRow
  <2> QED  BY <2>3 DEF RowsKept
<1>3. ASSUME NEW rv \in busy, RevokeCommits(rv) PROVE RowsKept
  <2>1. \A i \in rv.hit : rows[i].source = "manual"
    BY <1>3 DEF Targets, Manual, RevokeCommits, Revoke
  <2> QED  BY <1>3, <2>1, RevokedRows DEF RowsKept
<1>4. CASE Idle \/ \E b : Reading(b)
  BY <1>4 DEF RowsKept, Idle, Reading
<1> QED  BY <1>1, <1>2, <1>3, <1>4, StepKinds DEF Commits

\* What an operation has read stays true of the rows.
LEMMA TargetsStep ==
  ASSUME TypeOK, Targets, [Next]_vars
  PROVE  Targets'
<1>1. RowsKept
  BY KeptStep
<1>2. \A u, s : Manual(u, s) \subseteq Manual(u, s)'
  BY <1>1 DEF RowsKept, Manual, Of
<1>3. CASE busy' \subseteq busy
  BY <1>2, <1>3 DEF Targets
<1>4. ASSUME NEW b, Reading(b) PROVE Targets'
  <2>1. busy' = busy \cup {b}
    BY <1>4 DEF Reading
  <2>2. b.op = "revoke" => b.hit \subseteq Manual(b.user, b.subject)
    BY <1>4 DEF Reading, HasRead
  <2> QED  BY <1>2, <2>1, <2>2 DEF Targets
<1> QED  BY <1>3, <1>4, StepKinds, CommitEnds DEF Idle

LEMMA SourcesStep ==
  ASSUME TypeOK, Targets, Sources, [Next]_vars
  PROVE  Sources'
<1>1. now \in Int /\ now' \in {now, now + 1}
  <2>1. now \in Int
    BY AccessConstants DEF TypeOK, Time
  <2> QED  BY <2>1, StepKinds, CommitEnds DEF Idle, Reading
<1>2. \A b \in busy' : b.op # "grant" => b.at <= now'
  <2>1. \A b \in busy : b.op # "grant" => b.at \in Int /\ b.at <= now
    BY AccessConstants DEF TypeOK, Sources, Confirmation, Granting, Revoking, Time
  <2>2. CASE busy' \subseteq busy
    BY <1>1, <2>1, <2>2
  <2>3. ASSUME NEW b, Reading(b) PROVE \A x \in busy' : x.op # "grant" => x.at <= now'
    BY <1>1, <2>1, <2>3 DEF Reading, HasRead
  <2> QED  BY <2>2, <2>3, StepKinds, CommitEnds DEF Idle
<1> DEFINE Sound(r, t) ==
      \/ /\ r.source = "payment" /\ r.status = "active" /\ r.from <= t /\ r.until = Forever
      \/ r.source = "manual" /\ r.until \in Time
<1>3. \A i \in DOMAIN rows : Sound(rows[i], now')
  <2> SUFFICES ASSUME NEW i \in DOMAIN rows PROVE Sound(rows[i], now')
    OBVIOUS
  <2>1. Sound(rows[i], now)
    BY DEF Sources
  <2>2. rows[i] \in Row
    BY DEF TypeOK
  <2>3. rows[i].from \in Int
    BY <2>2, AccessConstants DEF Row, Time
  <2> QED  BY <1>1, <2>1, <2>3
<1>4. \A i \in DOMAIN rows' : Sound(rows'[i], now')
  <2>1. CASE UNCHANGED rows
    BY <1>3, <2>1
  <2>2. ASSUME NEW c \in busy, ConfirmCommits(c), NEW i \in DOMAIN rows'
        PROVE  Sound(rows'[i], now')
    <3>1. c.at <= now /\ now' = now
      BY <2>2 DEF Sources, ConfirmCommits
    <3> QED  BY <1>3, <2>2, <3>1, PaidRows
  <2>3. ASSUME NEW g \in busy, GrantCommits(g), NEW i \in DOMAIN rows'
        PROVE  Sound(rows'[i], now')
    <3>1. g.until \in Time /\ rows \in Seq(Row) /\ rows' \in Seq(Row)
      BY <2>3, GrantedRow DEF Granting, TypeOK
    <3>2. CASE i \in DOMAIN rows
      <4>1. rows'[i] = rows[i]
        BY <2>3, <3>2, GrantedRow
      <4> QED  BY <1>3, <3>2, <4>1
    <3>3. CASE i \notin DOMAIN rows
      <4>1. ~g.there
        BY <2>3, <3>3, GrantedRow
      <4>2. i = Len(rows) + 1
        <5>1. Len(rows') = Len(rows) + 1
          BY <2>3, <4>1, GrantedRow
        <5> QED  BY <2>3, <3>1, <3>3, <5>1
      <4>3. rows'[i] = [user |-> g.user, subject |-> g.subject, source |-> "manual",
                        from |-> g.from, until |-> g.until, status |-> "active"]
        BY <2>3, <4>1, <4>2, GrantedRow
      <4> QED  BY <3>1, <4>3
    <3> QED  BY <3>2, <3>3
  <2>4. ASSUME NEW rv \in busy, RevokeCommits(rv), NEW i \in DOMAIN rows'
        PROVE  Sound(rows'[i], now')
    <3>1. i \in rv.hit => rows[i].source = "manual"
      BY <2>4 DEF Targets, Manual, RevokeCommits, Revoke
    <3> QED  BY <1>3, <2>4, <3>1, RevokedRows
  <2> QED  BY <2>1, <2>2, <2>3, <2>4, StepKinds DEF Idle, Reading, Commits
<1> QED  BY <1>2, <1>4 DEF Sources

LEMMA BackingStep ==
  ASSUME TypeOK, Targets, Sources, Backing, [Next]_vars
  PROVE  Backing'
<1>1. RowsKept
  BY KeptStep
<1>2. \A u, s, t : Backed(u, s, t) => Backed(u, s, t)'
  BY <1>1 DEF RowsKept, Backed, Manual, Of
<1>3. \A b \in busy' : b.op = "confirm" => \A s \in Subject \ b.missing : Backed(b.user, s, b.at)'
  <2>1. CASE busy' \subseteq busy
    BY <1>2, <2>1 DEF Backing
  <2>2. ASSUME NEW b, Reading(b), b.op = "confirm", NEW s \in Subject \ b.missing
        PROVE  Backed(b.user, s, b.at)
    <3>1. b.at = now /\ Open(b.user, s)
      BY <2>2 DEF Reading, HasRead
    <3> QED  BY <3>1 DEF Open, InForce, Backed, Sources, Manual, Of
  <2>3. ASSUME NEW c, Reading(c), NEW b \in busy', b.op = "confirm", NEW s \in Subject \ b.missing
        PROVE  Backed(b.user, s, b.at)'
    <3>1. CASE b \in busy
      BY <1>2, <2>3, <3>1 DEF Backing
    <3>2. CASE b = c
      BY <1>2, <2>2, <2>3, <3>2
    <3> QED  BY <2>3, <3>1, <3>2 DEF Reading
  <2> QED  BY <2>1, <2>3, StepKinds, CommitEnds DEF Idle
<1>4. \A p \in promised' : Backed(p.user, p.subject, p.at)'
  <2>1. CASE UNCHANGED promised
    BY <1>2, <2>1 DEF Backing
  <2>2. ASSUME NEW c \in busy, ConfirmCommits(c), NEW p \in promised'
        PROVE  Backed(p.user, p.subject, p.at)'
    <3>1. CASE p \in promised
      BY <1>2, <3>1 DEF Backing
    <3>2. CASE p \notin promised
      <4>1. p.user = c.user /\ p.at = c.at /\ p.subject \in Subject
        BY <2>2, <3>2 DEF ConfirmCommits
      <4>2. CASE p.subject \in c.missing
        <5>1. PICK i \in DOMAIN rows' : /\ rows'[i].user = c.user
                                        /\ rows'[i].subject = p.subject
                                        /\ rows'[i].source = "payment"
          BY <2>2, <4>2, PaidRows
        <5> QED  BY <4>1, <5>1 DEF Backed, Of
      <4>3. CASE p.subject \notin c.missing
        BY <1>2, <2>2, <4>1, <4>3 DEF Backing, ConfirmCommits
      <4> QED  BY <4>2, <4>3
    <3> QED  BY <3>1, <3>2
  <2> QED  BY <2>1, <2>2, StepKinds, CommitEnds DEF Idle, Reading, Commits
<1> QED  BY <1>3, <1>4 DEF Backing

-----------------------------------------------------------------------------
(* Audit records and manual rows tell the same story: a grant from f to t  *)
(* that no later revocation ended, and a row from f to t that is active.   *)

Grants(r, u, s, f, t) ==
  /\ r.user = u /\ r.subject = s /\ r.action = "grant" /\ r.status = "completed"
  /\ r.from = f /\ r.until = t

Revokes(r, u, s) == r.user = u /\ r.subject = s /\ r.action = "revoke"

Live(u, s, f, t) ==
  \E i \in DOMAIN audit : /\ Grants(audit[i], u, s, f, t)
                          /\ \A j \in i + 1 .. Len(audit) : ~Revokes(audit[j], u, s)

Standing(u, s, f, t) ==
  \E i \in Manual(u, s) : rows[i].status = "active" /\ rows[i].from = f /\ rows[i].until = t

Ledger ==
  \A u \in User, s \in Subject : <<u, s>> \notin overtaken =>
    \A f, t \in Time : now <= t => (Live(u, s, f, t) <=> Standing(u, s, f, t))

\* A revocation that no grant has overtaken will end all there is to end.
Reach ==
  \A b \in busy : b.op = "revoke" /\ <<b.user, b.subject>> \notin overtaken =>
    \A i \in Manual(b.user, b.subject) :
      rows[i].status = "active" /\ now <= rows[i].until => i \in b.hit

LEMMA LiveAfter ==
  ASSUME audit \in Seq(Record), NEW r \in Record, audit' = Append(audit, r),
         NEW u, NEW s, NEW f, NEW t
  PROVE  Live(u, s, f, t)' <=> Grants(r, u, s, f, t) \/ (Live(u, s, f, t) /\ ~Revokes(r, u, s))
<1>1. /\ audit' \in Seq(Record) /\ Len(audit') = Len(audit) + 1 /\ Len(audit) \in Nat
      /\ DOMAIN audit = 1 .. Len(audit) /\ DOMAIN audit' = 1 .. Len(audit) + 1
      /\ audit'[Len(audit) + 1] = r
      /\ \A i \in 1 .. Len(audit) : audit'[i] = audit[i]
  OBVIOUS
<1>2. ASSUME Live(u, s, f, t)'
      PROVE  Grants(r, u, s, f, t) \/ (Live(u, s, f, t) /\ ~Revokes(r, u, s))
  <2>1. PICK i \in 1 .. Len(audit) + 1 :
               /\ Grants(audit'[i], u, s, f, t)
               /\ \A j \in i + 1 .. Len(audit) + 1 : ~Revokes(audit'[j], u, s)
    BY <1>1, <1>2 DEF Live
  <2>2. CASE i = Len(audit) + 1
    BY <1>1, <2>1, <2>2
  <2>3. CASE i \in 1 .. Len(audit)
    <3>1. Grants(audit[i], u, s, f, t)
      BY <1>1, <2>1, <2>3
    <3>2. \A j \in i + 1 .. Len(audit) : ~Revokes(audit[j], u, s)
      BY <1>1, <2>1, <2>3
    <3>3. ~Revokes(r, u, s)
      BY <1>1, <2>1, <2>3
    <3> QED  BY <1>1, <2>3, <3>1, <3>2, <3>3 DEF Live
  <2> QED  BY <1>1, <2>2, <2>3
<1>3. ASSUME Grants(r, u, s, f, t) PROVE Live(u, s, f, t)'
  BY <1>1, <1>3 DEF Live
<1>4. ASSUME Live(u, s, f, t), ~Revokes(r, u, s) PROVE Live(u, s, f, t)'
  <2>1. PICK i \in 1 .. Len(audit) :
               /\ Grants(audit[i], u, s, f, t)
               /\ \A j \in i + 1 .. Len(audit) : ~Revokes(audit[j], u, s)
    BY <1>1, <1>4 DEF Live
  <2>2. Grants(audit'[i], u, s, f, t)
    BY <1>1, <2>1
  <2>3. \A j \in i + 1 .. Len(audit) + 1 : ~Revokes(audit'[j], u, s)
    BY <1>1, <1>4, <2>1
  <2> QED  BY <1>1, <2>2, <2>3 DEF Live
<1> QED  BY <1>2, <1>3, <1>4

LEMMA LedgerAfterGrant ==
  ASSUME TypeOK, Ledger, Reach, NEW g \in busy, GrantCommits(g)
  PROVE  Ledger' /\ Reach'
<1> DEFINE adds(u, s, f, t) == /\ ~g.there /\ u = g.user /\ s = g.subject
                               /\ f = g.from /\ t = g.until
<1>1. now' = now /\ g \in Granting /\ rows \in Seq(Row) /\ rows' \in Seq(Row)
  BY GrantedRow DEF GrantCommits, TypeOK
<1>2. \A u, s, f, t : Live(u, s, f, t)' <=> Live(u, s, f, t) \/ adds(u, s, f, t)
  <2> TAKE u, s, f, t
  <2> DEFINE r == [user |-> g.user, subject |-> g.subject, action |-> "grant",
                   status |-> IF g.there THEN "no_op" ELSE "completed",
                   from |-> g.from, until |-> g.until]
  <2>1. r \in Record /\ ~Revokes(r, u, s) /\ (Grants(r, u, s, f, t) <=> adds(u, s, f, t))
    BY <1>1 DEF Record, Granting, Revokes, Grants
  <2>2. audit' = Append(audit, r) /\ audit \in Seq(Record)
    BY DEF GrantCommits, TypeOK
  <2> HIDE DEF r, adds
  <2> QED  BY <2>1, <2>2, LiveAfter
<1>3. /\ \A i \in DOMAIN rows : i \in DOMAIN rows' /\ rows'[i] = rows[i]
      /\ \A i \in DOMAIN rows' \ DOMAIN rows :
           rows'[i].user = g.user /\ rows'[i].subject = g.subject
      /\ \A i \in DOMAIN rows' \ DOMAIN rows :
           /\ rows'[i].source = "manual" /\ rows'[i].status = "active"
           /\ rows'[i].from = g.from /\ rows'[i].until = g.until /\ ~g.there
      /\ ~g.there => \E i \in DOMAIN rows' : i \notin DOMAIN rows
  <2>1. CASE g.there
    BY <2>1, GrantedRow
  <2>2. CASE ~g.there
    <3>0. Len(rows') = Len(rows) + 1
      BY <2>2, GrantedRow
    <3>1. DOMAIN rows = 1 .. Len(rows) /\ DOMAIN rows' = 1 .. (Len(rows) + 1) /\ Len(rows) \in Nat
      BY <1>1, <3>0
    <3>2. \A i \in DOMAIN rows' \ DOMAIN rows : i = Len(rows) + 1
      BY <3>1
    <3>3. Len(rows) + 1 \in DOMAIN rows' /\ Len(rows) + 1 \notin DOMAIN rows
      BY <3>1
    <3> HIDE DEF adds
    <3>4. \A i \in DOMAIN rows : rows'[i] = rows[i]
      BY <2>2, GrantedRow
    <3>5. rows'[Len(rows) + 1] =
            [user |-> g.user, subject |-> g.subject, source |-> "manual",
             from |-> g.from, until |-> g.until, status |-> "active"]
      BY <2>2, GrantedRow
    <3>6. \A i \in DOMAIN rows' \ DOMAIN rows :
            /\ rows'[i].user = g.user /\ rows'[i].subject = g.subject
            /\ rows'[i].source = "manual" /\ rows'[i].status = "active"
            /\ rows'[i].from = g.from /\ rows'[i].until = g.until
      BY <3>2, <3>5
    <3>7. DOMAIN rows \subseteq DOMAIN rows'
      BY <3>1
    <3> QED  BY <2>2, <3>3, <3>4, <3>6, <3>7
  <2> QED  BY <2>1, <2>2
<1> HIDE DEF adds
<1>4. \A u, s, f, t : Standing(u, s, f, t)' <=> Standing(u, s, f, t) \/ adds(u, s, f, t)
  BY <1>3 DEF Standing, Manual, Of, adds
<1>5. Ledger'
  <2>1. overtaken \subseteq overtaken'
    BY DEF GrantCommits
  <2> QED  BY <1>1, <1>2, <1>4, <2>1 DEF Ledger
<1>6. Reach'
  <2> SUFFICES ASSUME NEW b \in busy', b.op = "revoke",
                      <<b.user, b.subject>> \notin overtaken',
                      NEW i \in Manual(b.user, b.subject)',
                      rows'[i].status = "active", now' <= rows'[i].until
               PROVE  i \in b.hit
    BY DEF Reach
  <2>1. b \in busy /\ <<b.user, b.subject>> \notin overtaken
        /\ ~(b.user = g.user /\ b.subject = g.subject)
    BY DEF GrantCommits
  <2>2. i \in Manual(b.user, b.subject) /\ rows'[i] = rows[i]
    BY <1>3, <2>1 DEF Manual, Of
  <2> QED  BY <1>1, <2>1, <2>2 DEF Reach
<1> QED  BY <1>5, <1>6

LEMMA LedgerAfterRevoke ==
  ASSUME TypeOK, Targets, Ledger, Reach, NEW rv \in busy, RevokeCommits(rv)
  PROVE  Ledger' /\ Reach'
<1>1. /\ rv \in Revoking /\ rv.op = "revoke" /\ rv.hit \subseteq Manual(rv.user, rv.subject)
      /\ now' = now /\ overtaken' = overtaken /\ busy' \subseteq busy
  BY RevokedRows DEF RevokeCommits, Revoke, Targets
<1>2. \A u, s, f, t : Live(u, s, f, t)'
                        <=> Live(u, s, f, t) /\ ~(u = rv.user /\ s = rv.subject)
  <2> TAKE u, s, f, t
  <2> DEFINE r == [user |-> rv.user, subject |-> rv.subject, action |-> "revoke",
                   status |-> IF rv.hit = {} THEN "no_op" ELSE "completed",
                   from |-> rv.at, until |-> rv.at]
  <2>1. r \in Record /\ ~Grants(r, u, s, f, t)
        /\ (Revokes(r, u, s) <=> u = rv.user /\ s = rv.subject)
    BY <1>1 DEF Record, Revoking, Revokes, Grants
  <2>2. audit' = Append(audit, r) /\ audit \in Seq(Record)
    BY DEF RevokeCommits, Revoke, TypeOK
  <2> HIDE DEF r
  <2> QED  BY <2>1, <2>2, LiveAfter
<1>3. \A u, s : Manual(u, s)' = Manual(u, s)
  <2>1. DOMAIN rows' = DOMAIN rows
        /\ \A i \in DOMAIN rows : /\ rows'[i].user = rows[i].user
                                  /\ rows'[i].subject = rows[i].subject
                                  /\ rows'[i].source = rows[i].source
    BY RevokedRows
  <2> QED  BY <2>1 DEF Manual, Of
<1>4. \A u, s : \A i \in Manual(u, s) :
        \/ i \notin rv.hit /\ rows'[i] = rows[i]
        \/ i \in rv.hit /\ rows'[i].status = "revoked" /\ u = rv.user /\ s = rv.subject
  BY <1>1, RevokedRows DEF Manual, Of
<1>5. ASSUME NEW u \in User, NEW s \in Subject, <<u, s>> \notin overtaken,
             NEW f \in Time, NEW t \in Time, now <= t
      PROVE  Live(u, s, f, t)' <=> Standing(u, s, f, t)'
  <2>1. CASE u = rv.user /\ s = rv.subject
    <3>1. ~Standing(u, s, f, t)'
      <4> SUFFICES ASSUME NEW i \in Manual(u, s), rows'[i].status = "active",
                          rows'[i].until = t
                   PROVE  FALSE
        BY <1>3 DEF Standing
      <4>1. rows'[i] = rows[i] /\ i \notin rv.hit
        BY <1>4
      <4> QED  BY <1>1, <1>5, <2>1, <4>1 DEF Reach
    <3> QED  BY <1>2, <2>1, <3>1
  <2>2. CASE ~(u = rv.user /\ s = rv.subject)
    <3>1. \A i \in Manual(u, s) : rows'[i] = rows[i]
      BY <1>4, <2>2
    <3>2. Standing(u, s, f, t)' <=> Standing(u, s, f, t)
      BY <1>3, <3>1 DEF Standing
    <3> QED  BY <1>2, <1>5, <2>2, <3>2 DEF Ledger
  <2> QED  BY <2>1, <2>2
<1>6. Ledger'
  BY <1>1, <1>5 DEF Ledger
<1>7. Reach'
  BY <1>1, <1>3, <1>4 DEF Reach
<1> QED  BY <1>6, <1>7

LEMMA LedgerStep ==
  ASSUME TypeOK, Targets, Sources, Ledger, Reach, [Next]_vars
  PROVE  Ledger' /\ Reach'
<1>1. now \in Int
  BY AccessConstants DEF TypeOK, Time
<1>2. CASE Idle
  <2>1. now' = now \/ now' = now + 1
    BY <1>2 DEF Idle
  <2>2. Ledger'
    <3>1. \A t \in Time : now' <= t => now <= t
      BY <1>1, <2>1, AccessConstants DEF Time
    <3>2. UNCHANGED <<rows, audit, overtaken>>
      BY <1>2 DEF Idle
    <3> QED  BY <3>1, <3>2 DEF Ledger, Live, Standing, Manual, Of
  <2>3. Reach'
    <3>1. \A i \in DOMAIN rows : now' <= rows[i].until => now <= rows[i].until
      <4> SUFFICES ASSUME NEW i \in DOMAIN rows PROVE rows[i].until \in Int
        BY <1>1, <2>1
      <4>1. rows[i] \in Row
        BY DEF TypeOK
      <4> QED  BY <4>1, AccessConstants DEF Row, Forever
    <3> QED  BY <1>2, <3>1 DEF Idle, Reach, Manual, Of
  <2> QED  BY <2>2, <2>3
<1>3. ASSUME NEW b, Reading(b) PROVE Ledger' /\ Reach'
  <2>1. UNCHANGED <<now, rows, audit, overtaken>>
    BY <1>3 DEF Reading
  <2>2. Ledger'
    BY <2>1 DEF Ledger, Live, Standing, Manual, Of
  <2>3. \A c \in busy' :
          \/ c \in busy
          \/ c.op # "revoke"
          \/ \A i \in Manual(c.user, c.subject) :
               rows[i].status = "active" /\ now <= rows[i].until => i \in c.hit
    BY <1>3 DEF Reading, HasRead
  <2>4. \A u, s : Manual(u, s)' = Manual(u, s)
    BY <2>1 DEF Manual, Of
  <2> QED  BY <2>1, <2>2, <2>3, <2>4 DEF Reach
<1>4. ASSUME NEW c \in busy, ConfirmCommits(c) PROVE Ledger' /\ Reach'
  <2>1. UNCHANGED <<now, audit, overtaken>> /\ busy' \subseteq busy
    BY <1>4 DEF ConfirmCommits
  <2>2. \A i \in DOMAIN rows : i \in DOMAIN rows' /\ rows'[i] = rows[i]
    BY <1>4, PaidRows
  <2>3. \A i \in DOMAIN rows' \ DOMAIN rows : rows'[i].source = "payment"
    BY <1>4, PaidRows
  <2>4. \A u, s : Manual(u, s)' = Manual(u, s)
    BY <2>2, <2>3 DEF Manual, Of
  <2>5. \A u, s : \A i \in Manual(u, s) : rows'[i] = rows[i]
    BY <2>2 DEF Manual, Of
  <2>6. \A u, s, f, t : Standing(u, s, f, t)' <=> Standing(u, s, f, t)
    BY <2>4, <2>5 DEF Standing
  <2>7. Ledger'
    BY <2>1, <2>6 DEF Ledger, Live
  <2>8. Reach'
    BY <2>1, <2>4, <2>5 DEF Reach
  <2> QED  BY <2>7, <2>8
<1> QED  BY <1>2, <1>3, <1>4, StepKinds, LedgerAfterGrant, LedgerAfterRevoke DEF Commits

-----------------------------------------------------------------------------
\* Rows, records and operations under way have the shape the tables give them.
THEOREM AccessTypes == Spec => []TypeOK
  BY AccessStarts, TypeStep, PTL DEF Spec

\* The parts hold together, whichever operations overlap and whenever they commit.
THEOREM AccessInvariant == Spec => [](TypeOK /\ Targets /\ Sources /\ Backing)
<1>1. TypeOK /\ Targets /\ Sources /\ Backing /\ [Next]_vars
        => (TypeOK /\ Targets /\ Sources /\ Backing)'
  BY TypeStep, TargetsStep, SourcesStep, BackingStep
<1> QED  BY <1>1, AccessStarts, PTL DEF Spec

\* A student who paid has every subject but those that a manual row opened on the day
\* of the payment and that has ended or been revoked since.
THEOREM PaidSubjectsStay == Spec => []PaidUnlessCovered
<1>1. TypeOK /\ Sources /\ Backing => PaidUnlessCovered
  <2> SUFFICES ASSUME TypeOK, Sources, Backing, NEW p \in promised,
                      ~Open(p.user, p.subject)
               PROVE  \E i \in Manual(p.user, p.subject) :
                        /\ rows[i].from <= p.at
                        /\ p.at <= rows[i].until \/ rows[i].status = "revoked"
                        /\ ~InForce(rows[i], now)
    BY DEF PaidUnlessCovered
  <2>1. \A i \in Of(p.user, p.subject) : ~InForce(rows[i], now)
    BY DEF Open
  <2>2. \A i \in Of(p.user, p.subject) : rows[i].source # "payment"
    <3>1. now <= Forever
      BY AccessConstants DEF TypeOK, Time, Forever
    <3> QED  BY <2>1, <3>1 DEF Sources, InForce, Of
  <2>3. PICK i \in Manual(p.user, p.subject) :
               /\ rows[i].from <= p.at
               /\ p.at <= rows[i].until \/ rows[i].status = "revoked"
    BY <2>2 DEF Backing, Backed
  <2> QED  BY <2>1, <2>3 DEF Manual
<1> QED  BY <1>1, AccessInvariant, PTL

\* The audit records tell who has manual access on every day, unless a grant was
\* committed during a revocation of the same subject.
THEOREM AuditIsComplete == Spec => []AuditExplainsAccess
<1>1. Init => Ledger /\ Reach
  BY DEF Init, Ledger, Reach, Live, Standing, Manual, Of
<1>2. TypeOK /\ Targets /\ Sources /\ Ledger /\ Reach /\ [Next]_vars => (Ledger /\ Reach)'
  BY LedgerStep
<1>3. TypeOK /\ Sources /\ Ledger => AuditExplainsAccess
  <2> SUFFICES ASSUME TypeOK, Sources, Ledger, NEW u \in User, NEW s \in Subject,
                      <<u, s>> \notin overtaken
               PROVE  Granted(u, s) <=> \E i \in Manual(u, s) : InForce(rows[i], now)
    BY DEF AuditExplainsAccess
  <2>1. Granted(u, s) <=> \E f, t \in Time : f <= now /\ now <= t /\ Live(u, s, f, t)
    <3>1. \A i \in DOMAIN audit : audit[i].from \in Time /\ audit[i].until \in Time
      <4> SUFFICES ASSUME NEW i \in DOMAIN audit PROVE audit[i] \in Record
        BY DEF Record
      <4> QED  BY DEF TypeOK
    <3> QED  BY <3>1 DEF Granted, Live, Grants, Revokes
  <2>2. (\E i \in Manual(u, s) : InForce(rows[i], now))
          <=> \E f, t \in Time : f <= now /\ now <= t /\ Standing(u, s, f, t)
    <3>1. \A i \in Manual(u, s) : rows[i].from \in Time /\ rows[i].until \in Time
      <4> SUFFICES ASSUME NEW i \in Manual(u, s)
                   PROVE  rows[i].from \in Time /\ rows[i].until \in Time
        OBVIOUS
      <4>1. rows[i] \in Row
        BY DEF TypeOK, Manual, Of
      <4> QED  BY <4>1 DEF Row, Sources, Manual, Of
    <3> QED  BY <3>1 DEF InForce, Standing
  <2> QED  BY <2>1, <2>2 DEF Ledger
<1> QED  BY <1>1, <1>2, <1>3, AccessInvariant, PTL DEF Spec

\* No commit of staff or of another payment changes a row that was paid for.
THEOREM PaidRowsStay == Spec => RevokeSparesPaid
<1>1. TypeOK /\ Targets /\ [Next]_vars
        => [\A i \in DOMAIN rows : rows[i].source = "payment" => rows'[i] = rows[i]]_vars
  BY KeptStep DEF RowsKept
<1> QED  BY <1>1, AccessInvariant, PTL DEF Spec, RevokeSparesPaid
=============================================================================
