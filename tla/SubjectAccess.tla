---------------------------- MODULE SubjectAccess ----------------------------
(***************************************************************************)
(* Who may open which subject: the rows of user_subject_entitlements, as   *)
(* written by a confirmed payment (services/payment_entitlements.py) and   *)
(* by staff (services/manual_access_grants.py), and as read by             *)
(* services/access.py.  None of the writers takes a lock: each reads the   *)
(* rows it needs, and writes in a commit of its own later.                 *)
(***************************************************************************)
EXTENDS Integers, Sequences, FiniteSets, SequencesExt

CONSTANTS
  User, Subject,
  MaxTime,   \* bound: the clock
  MaxAudit,  \* bound: grants and revocations
  MaxBusy    \* bound: operations in progress at once

ASSUME AccessConstants ==
  MaxTime \in Nat /\ MaxAudit \in Nat /\ MaxBusy \in Nat /\ IsFiniteSet(Subject)

Time == 0 .. MaxTime
Forever == MaxTime + 1   \* ends_at NULL

VARIABLES
  now,
  rows,     \* user_subject_entitlements, in order of insertion
  audit,    \* manual_access_grants, in the order of their commits
  busy,     \* operations between their reads and their commit
  promised, \* what students have paid for: subject by subject, since when
  overtaken \* <<u, s>>: a grant was committed during a revocation

vars == <<now, rows, audit, busy, promised, overtaken>>

Row == [user : User, subject : Subject, source : {"payment", "manual"},
        from : Time, until : 0 .. Forever, status : {"active", "revoked"}]

Record == [user : User, subject : Subject, action : {"grant", "revoke"},
           status : {"completed", "no_op"}, from : Time, until : Time]

Promise == [user : User, subject : Subject, at : Time]

\* What an operation has read: the subjects without access, whether there is a
\* manual row already, which rows are to be revoked.
Confirmation == [op : {"confirm"}, user : User, at : Time,
                 missing : SUBSET Subject]
Granting == [op : {"grant"}, user : User, subject : Subject, from : Time,
             until : Time, there : BOOLEAN]
Revoking == [op : {"revoke"}, user : User, subject : Subject, at : Time,
             hit : SUBSET Nat]

TypeOK ==
  /\ now \in Time
  /\ rows \in Seq(Row)
  /\ audit \in Seq(Record)
  /\ \A b \in busy : \/ b \in Confirmation
                     \/ b \in Granting
                     \/ b \in Revoking /\ b.hit \subseteq DOMAIN rows
  /\ promised \subseteq Promise
  /\ overtaken \subseteq User \X Subject

Init ==
  /\ now = 0
  /\ rows = <<>>
  /\ audit = <<>>
  /\ busy = {}
  /\ promised = {}
  /\ overtaken = {}

\* The condition of every query: active, begun and not over.
InForce(r, at) == r.status = "active" /\ r.from <= at /\ at <= r.until

Of(u, s) == {i \in DOMAIN rows : rows[i].user = u /\ rows[i].subject = s}
Manual(u, s) == {i \in Of(u, s) : rows[i].source = "manual"}

\* AccessContext.active_subject_ids.
Open(u, s) == \E i \in Of(u, s) : InForce(rows[i], now)

-----------------------------------------------------------------------------
Tick ==
  /\ now < MaxTime
  /\ now' = now + 1
  /\ UNCHANGED <<rows, audit, busy, promised, overtaken>>

Begin(b) ==
  /\ Cardinality(busy) < MaxBusy
  /\ busy' = busy \cup {b}
  /\ UNCHANGED <<now, rows, audit, promised, overtaken>>

\* The handler raises or dies, and the transaction is rolled back.
Abort(b) ==
  /\ busy' = busy \ {b}
  /\ UNCHANGED <<now, rows, audit, promised, overtaken>>

-----------------------------------------------------------------------------
(* A confirmed payment.                                                    *)

ConfirmReadsAnyRow(u) ==
  Begin([op |-> "confirm", user |-> u, at |-> now,
         missing |-> {s \in Subject : Of(u, s) = {}}])

\* grant_paid_subject_entitlements: the subjects without a row in force, from
\* whatever source.
ConfirmReads(u) ==
  Begin([op |-> "confirm", user |-> u, at |-> now,
         missing |-> {s \in Subject : ~Open(u, s)}])

\* The commit of the handler that confirms the payment.
ConfirmCommits(c) ==
  /\ c.op = "confirm"
  /\ busy' = busy \ {c}
  /\ LET new == SetToSeq(c.missing)
     IN  rows' = rows \o
           [i \in DOMAIN new |->
             [user |-> c.user, subject |-> new[i], source |-> "payment",
              from |-> c.at, until |-> Forever, status |-> "active"]]
  /\ promised' = promised \cup
       {[user |-> c.user, subject |-> s, at |-> c.at] : s \in Subject}
  /\ UNCHANGED <<now, audit, overtaken>>

-----------------------------------------------------------------------------
(* Grants and revocations by staff.                                        *)

StaffBusy == Cardinality({b \in busy : b.op # "confirm"})

\* A grant from one day to a later one: is a manual row in force on the first?
GrantReads(u, s, from, until) ==
  /\ Len(audit) + StaffBusy < MaxAudit
  /\ from < until
  /\ Begin([op |-> "grant", user |-> u, subject |-> s, from |-> from,
            until |-> until,
            there |-> \E i \in Manual(u, s) : InForce(rows[i], from)])

\* Nothing is added if there was one.
GrantCommits(g) ==
  /\ g.op = "grant"
  /\ busy' = busy \ {g}
  /\ audit' = Append(audit,
       [user |-> g.user, subject |-> g.subject, action |-> "grant",
        status |-> IF g.there THEN "no_op" ELSE "completed",
        from |-> g.from, until |-> g.until])
  /\ rows' = IF g.there THEN rows ELSE Append(rows,
       [user |-> g.user, subject |-> g.subject, source |-> "manual",
        from |-> g.from, until |-> g.until, status |-> "active"])
  /\ overtaken' = overtaken \cup
       {<<b.user, b.subject>> :
          b \in {x \in busy : /\ x.op = "revoke"
                              /\ x.user = g.user
                              /\ x.subject = g.subject}}
  /\ UNCHANGED <<now, promised>>

BeginRevoke(u, s, hit) ==
  /\ Len(audit) + StaffBusy < MaxAudit
  /\ Begin([op |-> "revoke", user |-> u, subject |-> s, at |-> now,
            hit |-> hit])

RevokeReadsCurrent(u, s) ==
  BeginRevoke(u, s, {i \in Manual(u, s) : InForce(rows[i], now)})

RevokeReadsAnySource(u, s) ==
  BeginRevoke(u, s,
    {i \in Of(u, s) : rows[i].status = "active" /\ now <= rows[i].until})

\* A revocation ends every manual row that is in force or still to come.
RevokeReads(u, s) ==
  BeginRevoke(u, s,
    {i \in Manual(u, s) : rows[i].status = "active" /\ now <= rows[i].until})

Revoke(rv, ended) ==
  /\ rv.op = "revoke"
  /\ busy' = busy \ {rv}
  /\ rows' = [i \in DOMAIN rows |-> IF i \in rv.hit THEN ended[i] ELSE rows[i]]
  /\ audit' = Append(audit,
       [user |-> rv.user, subject |-> rv.subject, action |-> "revoke",
        status |-> IF rv.hit = {} THEN "no_op" ELSE "completed",
        from |-> rv.at, until |-> rv.at])
  /\ UNCHANGED <<now, promised, overtaken>>

RevokeCommitsWrongly(rv) ==
  Revoke(rv, [i \in DOMAIN rows |-> [rows[i] EXCEPT !.status = "completed"]])

\* The rows it read are written by id, whatever has happened to them since.
RevokeCommits(rv) ==
  Revoke(rv, [i \in DOMAIN rows |->
                [rows[i] EXCEPT !.status = "revoked", !.until = rv.at]])

-----------------------------------------------------------------------------
Next ==
  \/ Tick
  \/ \E u \in User : ConfirmReads(u)
  \/ \E u \in User, s \in Subject :
       \/ RevokeReads(u, s)
       \/ \E from, until \in Time : GrantReads(u, s, from, until)
  \/ \E b \in busy :
       ConfirmCommits(b) \/ GrantCommits(b) \/ RevokeCommits(b) \/ Abort(b)

Spec == Init /\ [][Next]_vars

-----------------------------------------------------------------------------
\* A grant that no later revocation has ended, read off the audit records.
Granted(u, s) ==
  \E i \in DOMAIN audit :
    /\ audit[i].user = u /\ audit[i].subject = s
    /\ audit[i].action = "grant" /\ audit[i].status = "completed"
    /\ audit[i].from <= now /\ now <= audit[i].until
    /\ \A j \in i + 1 .. Len(audit) :
         ~(/\ audit[j].user = u /\ audit[j].subject = s
           /\ audit[j].action = "revoke")

\* The audit records tell who has manual access today: scheduled grants begin,
\* grants end, and a revocation also ends what was still to come, even if staff
\* work at the same time; only a grant committed while a revocation was under
\* way may outlive it.
AuditExplainsAccess ==
  \A u \in User, s \in Subject :
    <<u, s>> \notin overtaken =>
      (Granted(u, s) <=> \E i \in Manual(u, s) : InForce(rows[i], now))

\* A student who paid has every subject, except those that a manual row covered
\* on the day of the payment and no longer does: a row that was still to begin,
\* or had ended, is no reason to leave a subject out.
PaidUnlessCovered ==
  \A p \in promised :
    \/ Open(p.user, p.subject)
    \/ \E i \in Manual(p.user, p.subject) :
         /\ rows[i].from <= p.at
         /\ p.at <= rows[i].until \/ rows[i].status = "revoked"
         /\ ~InForce(rows[i], now)

\* Revoking manual access does not take away access that was paid for, even if
\* staff revoke while the payment is being confirmed.
RevokeSparesPaid ==
  [][\A i \in DOMAIN rows :
       rows[i].source = "payment" => rows'[i] = rows[i]]_vars

\* A confirmed payment is one-time pro access (access-billing.md): what a
\* student has paid for stays open.
PaidKeepsAccess == \A p \in promised : Open(p.user, p.subject)
=============================================================================
