----------------------- MODULE PaymentGateway_proofs -----------------------
(***************************************************************************)
(* Theorems about PaymentGateway, for any number of users, requests,       *)
(* references and proofs.                                                  *)
(***************************************************************************)
EXTENDS PaymentGateway, TLAPS

-----------------------------------------------------------------------------
(* Types.                                                                  *)

LEMMA InitType == Init => TypeOK
BY ConstantsOK DEF Init, TypeOK, Status

\* What the helpers that the handlers share do to the types of the variables
\* they write.
LEMMA SettleType ==
  ASSUME TypeOK, NEW t \in Txn, NEW final \in Status, NEW entry \in Entry,
         Settle(t, final, entry)
  PROVE  /\ status' \in [Txn -> Status]
         /\ open' \subseteq Txn
         /\ ledger' \in [Txn -> Seq(Entry)]
         /\ expiryLogged' \subseteq Txn
BY DEF TypeOK, Settle

LEMMA ConfirmType ==
  ASSUME TypeOK, NEW t \in Txn, Confirm(t)
  PROVE  /\ status' \in [Txn -> Status]
         /\ open' \subseteq Txn
         /\ ledger' \in [Txn -> Seq(Entry)]
         /\ expiryLogged' \subseteq Txn
         /\ isPro' \subseteq User
<1>1. Settle(t, "paid", "payment_confirmed")
  BY DEF Confirm
<1>2. "paid" \in Status /\ "payment_confirmed" \in Entry
  BY DEF Status, Entry
<1>3. isPro' \subseteq User
  BY ConstantsOK DEF Confirm, TypeOK
<1>. QED  BY <1>1, <1>2, <1>3, SettleType

LEMMA ExpireType ==
  ASSUME TypeOK, NEW t \in Txn, NEW kept \in SUBSET Digest, Expire(t, kept)
  PROVE  /\ status' \in [Txn -> Status]
         /\ open' \subseteq Txn
         /\ listed' \in [Txn -> SUBSET Digest]
         /\ expiryLogged' \subseteq Txn
         /\ ledger' \in [Txn -> Seq(Entry)]
         /\ isPro' \subseteq User
BY DEF TypeOK, Expire, Status

LEMMA UnlockType ==
  ASSUME TypeOK, NEW t \in Txn, Unlock(t)
  PROVE  lock' \in [Txn -> {"free", "intime", "late"}]
BY DEF TypeOK, Unlock

LEMMA EventType ==
  ASSUME NEW t \in Txn, NEW r \in Ref \cup {NoRef}, NEW c \in Claim,
         NEW o \in Outcome
  PROVE  EventOf(t, r, c, o) \in Event
BY ConstantsOK DEF EventOf, Event

LEMMA AnswerType ==
  ASSUME TypeOK, NEW t \in Txn, NEW r \in Ref, AnswerPostauth(t, r)
  PROVE  captured' \subseteq Txn \X Ref
BY DEF TypeOK, AnswerPostauth

LEMMA StepType == TypeOK /\ [Next]_vars => TypeOK'
<1>. SUFFICES ASSUME TypeOK, [Next]_vars PROVE TypeOK'
  OBVIOUS
<1>. USE DEF TypeOK
<1>1. ASSUME NEW t \in Txn, ReleaseExpired(t) PROVE TypeOK'
  <2>1. listed[t] \in SUBSET Digest
    OBVIOUS
  <2>. QED  BY <1>1, <2>1, ExpireType DEF ReleaseExpired
<1>2. ASSUME NEW t \in Txn, Create(t) PROVE TypeOK'
  BY <1>2, ConstantsOK DEF Create, Status, Pending
<1>3. ASSUME NEW t \in Txn, Deadline(t) PROVE TypeOK'
  BY <1>3 DEF Deadline
<1>4. ASSUME NEW t \in Txn, Lock(t) PROVE TypeOK'
  BY <1>4 DEF Lock
<1>5. ASSUME NEW t \in Txn, GiveUp(t) PROVE TypeOK'
  BY <1>5 DEF GiveUp, Unlock
<1>6. ASSUME NEW t \in Txn, NEW d \in Digest, SubmitProof(t, d) PROVE TypeOK'
  BY <1>6, UnlockType DEF SubmitProof
<1>7. ASSUME NEW t \in Txn, ExpireManual(t) PROVE TypeOK'
  <2>1. listed[t] \in SUBSET Digest
    OBVIOUS
  <2>. QED  BY <1>7, <2>1, ExpireType, UnlockType DEF ExpireManual
<1>8. ASSUME NEW t \in Txn, NEW a \in User, Approve(t, a) PROVE TypeOK'
  BY <1>8, ConfirmType, UnlockType DEF Approve
<1>9. ASSUME NEW t \in Txn, Reject(t) PROVE TypeOK'
  <2>1. "failed" \in Status /\ "payment_rejected" \in Entry
    BY DEF Status, Entry
  <2>. QED  BY <1>9, <2>1, SettleType, UnlockType DEF Reject
<1>10. ASSUME NEW t \in Txn, NEW r \in Ref, NEW c \in Claim, NEW a \in User,
              Reconcile(t, r, c, a)
       PROVE  TypeOK'
  <2>1. providerRef' \in [Txn -> Ref \cup {NoRef}]
    BY <1>10 DEF Reconcile
  <2>2. CASE c = "approved"
    <3>1. EventOf(t, r, c, "confirmed") \in Event
      BY EventType DEF Outcome
    <3>. QED  BY <1>10, <2>1, <2>2, <3>1, ConfirmType, UnlockType DEF Reconcile
  <2>3. CASE c # "approved"
    <3>1. EventOf(t, r, c, "mismatch") \in Event
      BY EventType DEF Outcome
    <3>2. "mismatch" \in Status /\ "payment_mismatch" \in Entry
      BY DEF Status, Entry
    <3>. QED  BY <1>10, <2>1, <2>3, <3>1, <3>2, SettleType, UnlockType
              DEF Reconcile
  <2>. QED  BY <2>2, <2>3
<1>11. ASSUME NEW t \in Txn, NEW r \in Ref, NEW c \in Claim, NEW a \in User,
              ReconcileClosed(t, r, c, a)
       PROVE  TypeOK'
  <2>1. EventOf(t, r, c, "ignored") \in Event
    BY EventType DEF Outcome
  <2>. QED  BY <1>11, <2>1, UnlockType DEF ReconcileClosed
<1>12. ASSUME NEW m \in ManualRail, NEW r \in Ref, NEW c \in Claim,
              ReconcileUnknown(m, r, c)
       PROVE  TypeOK'
  BY <1>12 DEF ReconcileUnknown, Event, Rail, Outcome
<1>13. ASSUME NEW t \in Txn, NEW r \in Ref, NEW c \in Claim,
              CallbackDecides(t, r, c)
       PROVE  TypeOK'
  <2>1. providerRef' \in [Txn -> Ref \cup {NoRef}]
    BY <1>13 DEF CallbackDecides
  <2>2. \A o \in Outcome : EventOf(t, r, c, o) \in Event
    BY EventType
  <2>3. "confirmed" \in Outcome /\ "declined" \in Outcome /\ "mismatch" \in Outcome
    BY DEF Outcome
  <2>4. events' \subseteq Event
    BY <1>13, <2>2, <2>3 DEF CallbackDecides
  <2>5. CASE c = "approved"
    BY <1>13, <2>1, <2>4, <2>5, ConfirmType, AnswerType, UnlockType
       DEF CallbackDecides
  <2>6. CASE c = "declined"
    <3>1. "failed" \in Status /\ "payment_failed" \in Entry
      BY DEF Status, Entry
    <3>. QED  BY <1>13, <2>1, <2>4, <2>6, <3>1, SettleType, UnlockType
              DEF CallbackDecides
  <2>7. CASE c = "mismatch"
    <3>1. "mismatch" \in Status /\ "payment_mismatch" \in Entry
      BY DEF Status, Entry
    <3>. QED  BY <1>13, <2>1, <2>4, <2>7, <3>1, SettleType, UnlockType
              DEF CallbackDecides
  <2>. QED  BY <2>5, <2>6, <2>7 DEF Claim
<1>14. ASSUME NEW t \in Txn, NEW r \in Ref, NEW c \in Claim,
              CallbackTooLate(t, r, c)
       PROVE  TypeOK'
  <2>1. EventOf(t, r, c, "ignored") \in Event
    BY EventType DEF Outcome
  <2>2. listed[t] \in SUBSET Digest
    OBVIOUS
  <2>3. events' \subseteq Event
    BY <1>14, <2>1 DEF CallbackTooLate
  <2>. QED  BY <1>14, <2>2, <2>3, ExpireType, UnlockType DEF CallbackTooLate
<1>15. ASSUME NEW t \in Txn, NEW r \in Ref, NEW c \in Claim,
              CallbackIgnored(t, r, c)
       PROVE  TypeOK'
  <2>1. EventOf(t, r, c, "ignored") \in Event
    BY EventType DEF Outcome
  <2>. QED  BY <1>15, <2>1, UnlockType DEF CallbackIgnored
<1>16. ASSUME NEW t \in Txn, NEW r \in Ref, NEW c \in Claim,
              CallbackRepeated(t, r, c)
       PROVE  TypeOK'
  <2>1. captured' \subseteq Txn \X Ref
    BY <1>16, AnswerType DEF CallbackRepeated
  <2>. QED  BY <1>16, <2>1, UnlockType DEF CallbackRepeated
<1>17. ASSUME NEW r \in Ref, NEW c \in Claim, CallbackUnknown(r, c)
       PROVE  TypeOK'
  BY <1>17 DEF CallbackUnknown, Event, Rail, Outcome, Claim
<1>18. ASSUME NEW t \in Txn, CallbackInvalid(t) PROVE TypeOK'
  <2>1. EventOf(t, NoRef, "mismatch", "invalid") \in Event
    BY EventType DEF Outcome, Claim
  <2>. QED  BY <1>18, <2>1, UnlockType DEF CallbackInvalid
<1>19. ASSUME NEW u \in User, ReadCurrent(u) PROVE TypeOK'
  BY <1>19 DEF ReadCurrent, Reader
<1>20. ASSUME NEW rd \in readers, ExpireStale(rd) PROVE TypeOK'
  <2>1. rd.txn \in Txn /\ rd.proofs \in SUBSET Digest
    BY DEF Reader
  <2>2. PICK kept \in SUBSET Digest : Expire(rd.txn, kept)
    BY <1>20, <2>1 DEF ExpireStale
  <2>. QED  BY <1>20, <2>1, <2>2, ExpireType DEF ExpireStale
<1>21. ASSUME NEW rd \in readers, ReaderDies(rd) PROVE TypeOK'
  BY <1>21 DEF ReaderDies
<1>22. CASE UNCHANGED vars
  BY <1>22 DEF vars
<1>. QED
  BY <1>1, <1>2, <1>3, <1>4, <1>5, <1>6, <1>7, <1>8, <1>9, <1>10, <1>11, <1>12,
     <1>13, <1>14, <1>15, <1>16, <1>17, <1>18, <1>19, <1>20, <1>21, <1>22
     DEF Next, Student, Review, Callback, Claim

\* Every variable keeps its type, so that the rows, events and ledger entries
\* of the model are ones the tables of models/payments.py can hold.
THEOREM TypeCorrect == Spec => []TypeOK
BY InitType, StepType, PTL DEF Spec

-----------------------------------------------------------------------------
(* The books. Rows is the part of the invariant about the rows themselves, *)
(* which only Create, Settle, Confirm and Expire disturb.                  *)

Rows == OpenRequests /\ StatusFollowsLedger /\ OneVerdict /\ ProIsPaidFor

rowVars == <<status, open, ledger, expiryLogged, isPro>>

LEMMA InitBooks == Init => Books
<1>. SUFFICES ASSUME Init PROVE Books
  OBVIOUS
<1>1. TypeOK
  BY InitType
<1>2. Rows
  BY DEF Init, Rows, OpenRequests, StatusFollowsLedger, OneVerdict, ProIsPaidFor,
         Unsettled, Undecided, Confirmed
<1>3. RefsAreRecorded /\ ReferenceSettlesOne /\ CaptureIsBooked
  BY DEF Init, RefsAreRecorded, ReferenceSettlesOne, CaptureIsBooked
<1>. QED  BY <1>1, <1>2, <1>3 DEF Books, Rows

\* An undecided row has an empty ledger, so one entry is all it can get.
LEMMA SettleLedger ==
  ASSUME TypeOK, Rows, NEW t \in Txn, Unsettled(t),
         NEW final, NEW entry \in Entry, Settle(t, final, entry)
  PROVE  /\ ledger' = [ledger EXCEPT ![t] = <<entry>>]
         /\ ledger[t] = <<>>
<1>1. ledger[t] = <<>>
  BY DEF Rows, StatusFollowsLedger, Undecided
<1>2. Append(<<>>, entry) = <<entry>>
  OBVIOUS
<1>. QED  BY <1>1, <1>2 DEF Settle, TypeOK

LEMMA SettleRows ==
  ASSUME TypeOK, Rows, NEW t \in Txn, Unsettled(t),
         NEW final \in {"failed", "mismatch"},
         NEW entry \in {"payment_failed", "payment_rejected", "payment_mismatch"},
         final = "mismatch" <=> entry = "payment_mismatch",
         Settle(t, final, entry), UNCHANGED isPro
  PROVE  Rows'
<1>1. /\ ledger' = [ledger EXCEPT ![t] = <<entry>>]
      /\ ledger[t] = <<>>
  BY SettleLedger DEF Entry
<1>2. OpenRequests'
  BY DEF TypeOK, Rows, OpenRequests, Settle, Unsettled, Key
<1>3. StatusFollowsLedger'
  <2>. SUFFICES ASSUME NEW s \in Txn
                PROVE  StatusFollowsLedger!(s)'
    BY DEF StatusFollowsLedger
  <2>1. CASE s = t
    <3>1. status'[t] = final /\ ledger'[t] = <<entry>>
      BY <1>1 DEF TypeOK, Settle
    <3>2. t \notin expiryLogged'
      BY DEF Rows, StatusFollowsLedger, Settle, Unsettled, Undecided
    <3>. QED  BY <2>1, <3>1, <3>2 DEF Unsettled, Undecided
  <2>2. CASE s # t
    <3>1. status'[s] = status[s] /\ ledger'[s] = ledger[s]
      BY <1>1, <2>2 DEF TypeOK, Settle
    <3>. QED  BY <3>1 DEF Rows, StatusFollowsLedger, Settle, Unsettled, Undecided, Confirmed
  <2>. QED  BY <2>1, <2>2
<1>4. OneVerdict'
  BY <1>1 DEF TypeOK, Rows, OneVerdict
<1>5. ProIsPaidFor'
  <2>1. \A s \in Txn : Confirmed(s)' <=> Confirmed(s)
    BY <1>1 DEF TypeOK, Confirmed
  <2>. QED  BY <2>1 DEF Rows, ProIsPaidFor
<1>. QED  BY <1>2, <1>3, <1>4, <1>5 DEF Rows

LEMMA ConfirmRows ==
  ASSUME TypeOK, Rows, NEW t \in Txn, Unsettled(t), Confirm(t)
  PROVE  Rows'
<1>. Settle(t, "paid", "payment_confirmed")
  BY DEF Confirm
<1>1. /\ ledger' = [ledger EXCEPT ![t] = <<"payment_confirmed">>]
      /\ ledger[t] = <<>>
  BY SettleLedger DEF Entry
<1>2. OpenRequests'
  BY DEF TypeOK, Rows, OpenRequests, Settle, Unsettled, Key
<1>3. StatusFollowsLedger'
  <2>. SUFFICES ASSUME NEW s \in Txn
                PROVE  StatusFollowsLedger!(s)'
    BY DEF StatusFollowsLedger
  <2>1. CASE s = t
    <3>1. status'[t] = "paid" /\ ledger'[t] = <<"payment_confirmed">>
      BY <1>1 DEF TypeOK, Settle
    <3>2. t \notin expiryLogged'
      BY DEF Rows, StatusFollowsLedger, Settle, Unsettled, Undecided
    <3>. QED  BY <2>1, <3>1, <3>2 DEF Unsettled, Undecided, Confirmed
  <2>2. CASE s # t
    <3>1. status'[s] = status[s] /\ ledger'[s] = ledger[s]
      BY <1>1, <2>2 DEF TypeOK, Settle
    <3>. QED  BY <3>1 DEF Rows, StatusFollowsLedger, Settle, Unsettled, Undecided, Confirmed
  <2>. QED  BY <2>1, <2>2
<1>4. OneVerdict'
  BY <1>1 DEF TypeOK, Rows, OneVerdict
<1>5. ProIsPaidFor'
  <2>1. \A s \in Txn : Confirmed(s)' <=> Confirmed(s) \/ s = t
    BY <1>1 DEF TypeOK, Confirmed
  <2>2. isPro' = isPro \cup {Owner[t]}
    BY DEF Confirm
  <2>. QED  BY <2>1, <2>2 DEF Rows, ProIsPaidFor
<1>. QED  BY <1>2, <1>3, <1>4, <1>5 DEF Rows

\* Expiry writes no ledger entry; that is why it may hide one.
LEMMA ExpireRows ==
  ASSUME TypeOK, Rows, NEW t \in Txn, NEW kept, Expire(t, kept)
  PROVE  Rows'
<1>1. OpenRequests'
  BY DEF TypeOK, Rows, OpenRequests, Expire, Unsettled, Key
<1>2. StatusFollowsLedger'
  BY DEF TypeOK, Rows, StatusFollowsLedger, Expire, Unsettled, Undecided, Confirmed
<1>3. OneVerdict' /\ ProIsPaidFor'
  BY DEF Rows, OneVerdict, ProIsPaidFor, Expire, Confirmed
<1>. QED  BY <1>1, <1>2, <1>3 DEF Rows

LEMMA CreateRows ==
  ASSUME TypeOK, Rows, NEW t \in Txn, Create(t)
  PROVE  Rows'
<1>1. OpenRequests'
  BY DEF TypeOK, Rows, OpenRequests, Create, Unsettled, Key
<1>2. StatusFollowsLedger'
  BY DEF TypeOK, Rows, StatusFollowsLedger, Create, Unsettled, Undecided, Confirmed
<1>3. OneVerdict' /\ ProIsPaidFor'
  BY DEF Rows, OneVerdict, ProIsPaidFor, Create, Confirmed
<1>. QED  BY <1>1, <1>2, <1>3 DEF Rows

LEMMA StutterRows ==
  ASSUME Rows, UNCHANGED rowVars
  PROVE  Rows'
BY DEF rowVars, Rows, OpenRequests, StatusFollowsLedger, OneVerdict,
       ProIsPaidFor, Unsettled, Undecided, Confirmed

-----------------------------------------------------------------------------
(* References and captures.                                                *)

Refs == RefsAreRecorded /\ ReferenceSettlesOne

\* No step takes a confirmation back or makes a decided row undecided.
Forward ==
  \A s \in Txn : /\ Confirmed(s) => Confirmed(s)'
                 /\ Undecided(s)' => Undecided(s)

LEMMA KeepRefs ==
  ASSUME Refs, events \subseteq events', UNCHANGED providerRef,
         Forward
  PROVE  Refs'
BY DEF Refs, RefsAreRecorded, ReferenceSettlesOne, Recorded, Forward

\* The unique constraint refuses a recorded reference, and whoever carries a
\* reference has recorded it: nobody else carries r.
LEMMA UseRef ==
  ASSUME TypeOK, Refs, NEW t \in Txn, NEW r \in Ref, NEW c, NEW o,
         ~Recorded(RailOf[t], r),
         providerRef' = [providerRef EXCEPT ![t] = r],
         events' = events \cup {EventOf(t, r, c, o)},
         ~Undecided(t)',
         Forward
  PROVE  Refs'
<1>1. /\ EventOf(t, r, c, o).provider = RailOf[t]
      /\ EventOf(t, r, c, o).ref = r
  BY DEF EventOf
<1>2. Recorded(RailOf[t], r)'
  BY <1>1 DEF Recorded
<1>3. RefsAreRecorded'
  BY <1>2 DEF TypeOK, Refs, RefsAreRecorded, Recorded, Forward
<1>4. ReferenceSettlesOne'
  <2>. SUFFICES ASSUME NEW x \in Txn, NEW y \in Txn, RailOf[x] = RailOf[y],
                       providerRef'[x] # NoRef, providerRef'[x] = providerRef'[y]
                PROVE  x = y
    BY DEF ReferenceSettlesOne
  <2>1. \A z \in Txn : z # t => providerRef'[z] = providerRef[z]
    BY DEF TypeOK
  <2>2. \A z \in Txn : RailOf[z] = RailOf[t] => providerRef[z] # r
    BY ConstantsOK DEF Refs, RefsAreRecorded
  <2>3. providerRef'[t] = r
    BY DEF TypeOK
  <2>. QED  BY <2>1, <2>2, <2>3 DEF Refs, ReferenceSettlesOne
<1>. QED  BY <1>3, <1>4 DEF Refs

LEMMA SettleForward ==
  ASSUME TypeOK, Rows, NEW t \in Txn, Unsettled(t),
         NEW final \in {"paid", "failed", "mismatch"}, NEW entry \in Entry,
         Settle(t, final, entry)
  PROVE  Forward /\ ~Undecided(t)'
<1>1. /\ ledger' = [ledger EXCEPT ![t] = <<entry>>]
      /\ ledger[t] = <<>>
  BY SettleLedger
<1>2. \A s \in Txn : s # t => ledger'[s] = ledger[s] /\ status'[s] = status[s]
  BY <1>1 DEF TypeOK, Settle
<1>3. status'[t] = final
  BY DEF TypeOK, Settle
<1>4. ~Undecided(t)'
  BY <1>3 DEF Undecided, Unsettled
<1>. QED  BY <1>1, <1>2, <1>4 DEF Forward, Confirmed, Undecided, Unsettled

LEMMA KeepCaptures ==
  ASSUME TypeOK, CaptureIsBooked, events \subseteq events', UNCHANGED captured,
         Forward
  PROVE  CaptureIsBooked'
<1>. SUFFICES ASSUME NEW c \in captured
              PROVE  CaptureIsBooked!(c)'
  BY DEF CaptureIsBooked
<1>1. c[1] \in Txn
  BY DEF TypeOK
<1>. QED  BY <1>1 DEF CaptureIsBooked, Forward

\* What an answered callback adds: t is confirmed and r is on record as an
\* approved authorisation of t.
LEMMA AddCapture ==
  ASSUME TypeOK, CaptureIsBooked, NEW t \in Txn, NEW r \in Ref,
         AnswerPostauth(t, r), events \subseteq events',
         Forward,
         Confirmed(t)',
         \E e \in events' : /\ e.provider = Cmi /\ e.ref = r
                            /\ e.txn = t /\ e.claim = "approved"
  PROVE  CaptureIsBooked'
<1>. SUFFICES ASSUME NEW c \in captured'
              PROVE  CaptureIsBooked!(c)'
  BY DEF CaptureIsBooked
<1>1. CASE c \in captured
  <2>1. c[1] \in Txn
    BY <1>1 DEF TypeOK
  <2>. QED  BY <1>1, <2>1 DEF CaptureIsBooked, Forward
<1>2. CASE c = <<t, r>>
  BY <1>2
<1>. QED  BY <1>1, <1>2 DEF AnswerPostauth

-----------------------------------------------------------------------------
(* One step per action.                                                    *)

LEMMA StepBooks == Books /\ [Next]_vars => Books'
<1>. SUFFICES ASSUME Books, [Next]_vars PROVE Books'
  OBVIOUS
<1>0. /\ TypeOK /\ Rows /\ Refs /\ CaptureIsBooked
      /\ TypeOK'
  BY StepType DEF Books, Rows, Refs
<1>. SUFFICES Rows' /\ Refs' /\ CaptureIsBooked'
  BY <1>0 DEF Books, Rows, Refs
<1>. DEFINE Good == Rows' /\ Refs' /\ CaptureIsBooked'
<1>k. ASSUME UNCHANGED rowVars, UNCHANGED <<providerRef, captured>>,
             events \subseteq events'
      PROVE  Good
  <2>1. Forward
    BY <1>k DEF rowVars, Forward, Confirmed, Undecided, Unsettled
  <2>. QED  BY <1>0, <1>k, <2>1, StutterRows, KeepRefs, KeepCaptures
<1>x. ASSUME NEW t \in Txn, NEW kept, Expire(t, kept),
             UNCHANGED <<providerRef, captured>>, events \subseteq events'
      PROVE  Good
  <2>1. Forward
    BY <1>0, <1>x DEF TypeOK, Expire, Forward, Confirmed, Undecided, Unsettled
  <2>. QED  BY <1>0, <1>x, <2>1, ExpireRows, KeepRefs, KeepCaptures
<1>1. ASSUME NEW t \in Txn, ReleaseExpired(t) PROVE Good
  BY <1>1, <1>x DEF ReleaseExpired
<1>2. ASSUME NEW t \in Txn, Create(t) PROVE Good
  <2>1. Forward
    BY <1>0, <1>2 DEF TypeOK, Create, Forward, Confirmed, Undecided, Unsettled
  <2>. QED  BY <1>0, <1>2, <2>1, CreateRows, KeepRefs, KeepCaptures DEF Create
<1>3. ASSUME NEW t \in Txn, Deadline(t) PROVE Good
  BY <1>3, <1>k DEF Deadline, rowVars
<1>4. ASSUME NEW t \in Txn, Lock(t) PROVE Good
  BY <1>4, <1>k DEF Lock, rowVars
<1>5. ASSUME NEW t \in Txn, GiveUp(t) PROVE Good
  BY <1>5, <1>k DEF GiveUp, rowVars
<1>6. ASSUME NEW t \in Txn, NEW d \in Digest, SubmitProof(t, d) PROVE Good
  BY <1>6, <1>k DEF SubmitProof, rowVars
<1>7. ASSUME NEW t \in Txn, ExpireManual(t) PROVE Good
  BY <1>7, <1>x DEF ExpireManual
<1>m. ASSUME NEW t \in Txn, UnderReview(t) PROVE Unsettled(t)
  BY <1>m, ConstantsOK DEF UnderReview, Unsettled
<1>8. ASSUME NEW t \in Txn, NEW a \in User, Approve(t, a) PROVE Good
  <2>1. Unsettled(t) /\ Confirm(t)
    BY <1>8, <1>m DEF Approve
  <2>2. Forward
    BY <1>0, <2>1, SettleForward DEF Confirm, Entry
  <2>. QED  BY <1>0, <1>8, <2>1, <2>2, ConfirmRows, KeepRefs, KeepCaptures
            DEF Approve
<1>9. ASSUME NEW t \in Txn, Reject(t) PROVE Good
  <2>1. Unsettled(t) /\ Settle(t, "failed", "payment_rejected")
    BY <1>9, <1>m DEF Reject
  <2>2. Forward
    BY <1>0, <2>1, SettleForward DEF Entry
  <2>. QED  BY <1>0, <1>9, <2>1, <2>2, SettleRows, KeepRefs, KeepCaptures
            DEF Reject
<1>10. ASSUME NEW t \in Txn, NEW r \in Ref, NEW c \in Claim, NEW a \in User,
              Reconcile(t, r, c, a)
       PROVE  Good
  <2>1. Unsettled(t)
    BY <1>10, <1>m DEF Reconcile
  <2>2. Refs'
    <3>1. Forward /\ ~Undecided(t)'
      BY <1>0, <1>10, <2>1, SettleForward DEF Reconcile, Confirm, Entry
    <3>. QED  BY <1>0, <1>10, <3>1, UseRef DEF Reconcile
  <2>3. events \subseteq events' /\ UNCHANGED captured
    BY <1>10 DEF Reconcile
  <2>4. CASE Confirm(t)
    <3>1. Forward
      BY <1>0, <2>1, <2>4, SettleForward DEF Confirm, Entry
    <3>. QED  BY <1>0, <2>1, <2>2, <2>3, <2>4, <3>1, ConfirmRows, KeepCaptures
  <2>5. CASE Settle(t, "mismatch", "payment_mismatch") /\ UNCHANGED isPro
    <3>1. Forward
      BY <1>0, <2>1, <2>5, SettleForward DEF Entry
    <3>. QED  BY <1>0, <2>1, <2>2, <2>3, <2>5, <3>1, SettleRows, KeepCaptures
  <2>. QED  BY <1>10, <2>4, <2>5 DEF Reconcile
<1>11. ASSUME NEW t \in Txn, NEW r \in Ref, NEW c \in Claim, NEW a \in User,
              ReconcileClosed(t, r, c, a)
       PROVE  Good
  BY <1>11, <1>k DEF ReconcileClosed, rowVars
<1>12. ASSUME NEW m \in ManualRail, NEW r \in Ref, NEW c \in Claim,
              ReconcileUnknown(m, r, c)
       PROVE  Good
  BY <1>12, <1>k DEF ReconcileUnknown, rowVars
<1>13. ASSUME NEW t \in Txn, NEW r \in Ref, NEW c \in Claim,
              CallbackDecides(t, r, c)
       PROVE  Good
  <2>1. Unsettled(t)
    BY <1>13 DEF CallbackDecides, Unsettled
  <2>2. Refs'
    <3>1. Forward /\ ~Undecided(t)'
      BY <1>0, <1>13, <2>1, SettleForward DEF CallbackDecides, Confirm, Entry
    <3>. QED  BY <1>0, <1>13, <3>1, UseRef DEF CallbackDecides
  <2>3. events \subseteq events'
    BY <1>13 DEF CallbackDecides
  <2>4. CASE /\ c = "approved" /\ Confirm(t) /\ AnswerPostauth(t, r)
             /\ events' = events \cup {EventOf(t, r, c, "confirmed")}
    <3>1. Forward
      BY <1>0, <2>1, <2>4, SettleForward DEF Confirm, Entry
    <3>2. Confirmed(t)'
      <4>1. ledger' = [ledger EXCEPT ![t] = <<"payment_confirmed">>]
        BY <1>0, <2>1, <2>4, SettleLedger DEF Confirm, Entry
      <4>. QED  BY <1>0, <4>1 DEF Confirmed, TypeOK
    <3>3. \E e \in events' : /\ e.provider = Cmi /\ e.ref = r
                             /\ e.txn = t /\ e.claim = "approved"
      <4>. DEFINE e == EventOf(t, r, c, "confirmed")
      <4>1. e \in events'
        BY <2>4
      <4>2. e.provider = Cmi /\ e.ref = r /\ e.txn = t /\ e.claim = "approved"
        BY <1>13, <2>4 DEF CallbackDecides, EventOf
      <4>. QED  BY <4>1, <4>2
    <3>. QED  BY <1>0, <2>1, <2>2, <2>3, <2>4, <3>1, <3>2, <3>3, ConfirmRows,
                 AddCapture
  <2>5. CASE /\ Settle(t, "failed", "payment_failed")
             /\ UNCHANGED <<isPro, captured>>
    <3>1. Forward
      BY <1>0, <2>1, <2>5, SettleForward DEF Entry
    <3>. QED  BY <1>0, <2>1, <2>2, <2>3, <2>5, <3>1, SettleRows, KeepCaptures
  <2>6. CASE /\ Settle(t, "mismatch", "payment_mismatch")
             /\ UNCHANGED <<isPro, captured>>
    <3>1. Forward
      BY <1>0, <2>1, <2>6, SettleForward DEF Entry
    <3>. QED  BY <1>0, <2>1, <2>2, <2>3, <2>6, <3>1, SettleRows, KeepCaptures
  <2>. QED  BY <1>13, <2>4, <2>5, <2>6 DEF CallbackDecides
<1>14. ASSUME NEW t \in Txn, NEW r \in Ref, NEW c \in Claim,
              CallbackTooLate(t, r, c)
       PROVE  Good
  <2>1. events \subseteq events'
    BY <1>14 DEF CallbackTooLate
  <2>. QED  BY <1>14, <2>1, <1>x DEF CallbackTooLate
<1>15. ASSUME NEW t \in Txn, NEW r \in Ref, NEW c \in Claim,
              CallbackIgnored(t, r, c)
       PROVE  Good
  BY <1>15, <1>k DEF CallbackIgnored, rowVars
<1>16. ASSUME NEW t \in Txn, NEW r \in Ref, NEW c \in Claim,
              CallbackRepeated(t, r, c)
       PROVE  Good
  <2>1. UNCHANGED rowVars /\ UNCHANGED <<providerRef, events>>
    BY <1>16 DEF CallbackRepeated, rowVars
  <2>2. CASE UNCHANGED captured
    BY <2>1, <2>2, <1>k
  <2>3. CASE status[t] = "paid" /\ c = "approved" /\ AnswerPostauth(t, r)
    <3>1. Forward
      BY <2>1 DEF rowVars, Forward, Confirmed, Undecided, Unsettled
    <3>2. Confirmed(t)'
      BY <1>0, <2>3, <3>1 DEF Rows, StatusFollowsLedger, Forward
    <3>3. \E e \in events' : /\ e.provider = Cmi /\ e.ref = r
                             /\ e.txn = t /\ e.claim = "approved"
      BY <1>16, <2>1, <2>3 DEF CallbackRepeated, SameAuthorisation, Recorded
    <3>. QED  BY <1>0, <2>1, <2>3, <3>1, <3>2, <3>3, StutterRows, KeepRefs,
                 AddCapture
  <2>. QED  BY <1>16, <2>2, <2>3 DEF CallbackRepeated
<1>17. ASSUME NEW r \in Ref, NEW c \in Claim, CallbackUnknown(r, c)
       PROVE  Good
  BY <1>17, <1>k DEF CallbackUnknown, rowVars
<1>18. ASSUME NEW t \in Txn, CallbackInvalid(t) PROVE Good
  BY <1>18, <1>k DEF CallbackInvalid, rowVars
<1>19. ASSUME NEW u \in User, ReadCurrent(u) PROVE Good
  BY <1>19, <1>k DEF ReadCurrent, rowVars
<1>20. ASSUME NEW rd \in readers, ExpireStale(rd) PROVE Good
  <2>1. rd.txn \in Txn
    BY <1>0 DEF TypeOK, Reader
  <2>. QED  BY <1>20, <2>1, <1>x DEF ExpireStale
<1>21. ASSUME NEW rd \in readers, ReaderDies(rd) PROVE Good
  BY <1>21, <1>k DEF ReaderDies, rowVars
<1>22. CASE UNCHANGED vars
  BY <1>22, <1>k DEF vars, rowVars
<1>. QED
  BY <1>1, <1>2, <1>3, <1>4, <1>5, <1>6, <1>7, <1>8, <1>9, <1>10, <1>11, <1>12,
     <1>13, <1>14, <1>15, <1>16, <1>17, <1>18, <1>19, <1>20, <1>21, <1>22
     DEF Next, Student, Review, Callback, Claim

LEMMA BooksHold == Spec => []Books
BY InitBooks, StepBooks, PTL DEF Spec

\* However reviews, reconciliations, callbacks and expiries interleave, finance
\* decides about a request at most once.
THEOREM DecidesOnce == Spec => []OneVerdict
<1>1. Books => OneVerdict
  BY DEF Books
<1>. QED  BY <1>1, BooksHold, PTL

\* No bank line or authorisation settles two requests of a rail.
THEOREM ReferencesSettleOne == Spec => []ReferenceSettlesOne
<1>1. Books => ReferenceSettlesOne
  BY DEF Books
<1>. QED  BY <1>1, BooksHold, PTL

\* Pro access and confirmed payments are the same set of students.
THEOREM ProFollowsLedger == Spec => []ProIsPaidFor
<1>1. Books => ProIsPaidFor
  BY DEF Books
<1>. QED  BY <1>1, BooksHold, PTL

\* The bank captures money only for a payment the ledger confirms.
THEOREM CapturesAreBooked == Spec => []CaptureIsBooked
<1>1. Books => CaptureIsBooked
  BY DEF Books
<1>. QED  BY <1>1, BooksHold, PTL

\* One open request per student and rail; a closed request holds no key; a
\* closed status is the one its ledger entry calls for.
THEOREM RequestsFollowLedger == Spec => [](OpenRequests /\ StatusFollowsLedger)
<1>1. Books => OpenRequests /\ StatusFollowsLedger
  BY DEF Books
<1>. QED  BY <1>1, BooksHold, PTL

\* Two tabs cannot leave a student with two open requests on a rail, and a request
\* that is closed gives up its key, so it never blocks the next one.
THEOREM OneOpenRequest == Spec => []OpenRequests
<1>1. Books => OpenRequests
  BY DEF Books
<1>. QED  BY <1>1, BooksHold, PTL

\* A request names a bank reference only if the events of its rail record it.
THEOREM ReferencesRecorded == Spec => []RefsAreRecorded
<1>1. Books => RefsAreRecorded
  BY DEF Books
<1>. QED  BY <1>1, BooksHold, PTL

-----------------------------------------------------------------------------
(* Refinement. A commit that decides is a Decide step of PaymentSettlement,*)
(* every other step leaves the promised state alone.                       *)

decided == [t \in Txn |-> IF ledger[t] = <<>> THEN "open" ELSE ledger[t][1]]

LEMMA SettleDecides ==
  ASSUME TypeOK, Rows, NEW t \in Txn, Unsettled(t),
         NEW final \in {"paid", "failed", "mismatch"}, NEW entry \in Entry,
         Settle(t, final, entry)
  PROVE  /\ decided[t] = "open"
         /\ decided' = [decided EXCEPT ![t] = entry]
<1>1. /\ ledger' = [ledger EXCEPT ![t] = <<entry>>]
      /\ ledger[t] = <<>>
  BY SettleLedger
<1>2. decided[t] = "open"
  BY <1>1 DEF decided
<1>3. ASSUME NEW s \in Txn
      PROVE  decided'[s] = [decided EXCEPT ![t] = entry][s]
  <2>1. CASE s = t
    <3>1. ledger'[t] = <<entry>> /\ <<entry>> # <<>> /\ <<entry>>[1] = entry
      BY <1>1 DEF TypeOK
    <3>. QED  BY <2>1, <3>1 DEF decided
  <2>2. CASE s # t
    <3>1. ledger'[s] = ledger[s]
      BY <1>1, <2>2 DEF TypeOK
    <3>. QED  BY <2>2, <3>1 DEF decided
  <2>. QED  BY <2>1, <2>2
<1>4. decided' = [decided EXCEPT ![t] = entry]
  BY <1>3 DEF decided
<1>. QED  BY <1>2, <1>4

LEMMA UnusedRef ==
  ASSUME Refs, NEW t \in Txn, NEW r \in Ref, ~Recorded(RailOf[t], r)
  PROVE  \A s \in Txn : RailOf[s] = RailOf[t] => providerRef[s] # r
BY ConstantsOK DEF Refs, RefsAreRecorded

LEMMA InitRefines == Init => Verdicts!Init
BY DEF Init, Verdicts!Init

LEMMA StepRefines ==
  Books /\ [Next]_vars => [Verdicts!Next]_(Verdicts!svars)
<1>. SUFFICES ASSUME Books, [Next]_vars
              PROVE  [Verdicts!Next]_(Verdicts!svars)
  OBVIOUS
<1>0. TypeOK /\ Rows /\ Refs
  BY DEF Books, Rows, Refs
<1>k. ASSUME UNCHANGED <<ledger, providerRef, isPro>>
      PROVE  UNCHANGED Verdicts!svars
  BY <1>k DEF Verdicts!svars
<1>d. ASSUME NEW t \in Txn, Unsettled(t),
             NEW final \in {"paid", "failed", "mismatch"}, NEW entry \in Entry,
             Settle(t, final, entry),
             isPro' = IF entry = "payment_confirmed"
                      THEN isPro \cup {Owner[t]} ELSE isPro,
             \/ UNCHANGED providerRef
             \/ \E r \in Ref : /\ ~Recorded(RailOf[t], r)
                               /\ providerRef' = [providerRef EXCEPT ![t] = r]
      PROVE  Verdicts!Next
  <2>1. /\ decided[t] = "open"
        /\ decided' = [decided EXCEPT ![t] = entry]
    BY <1>0, <1>d, SettleDecides
  <2>2. \/ UNCHANGED providerRef
        \/ \E r \in Ref :
             /\ \A s \in Txn : RailOf[s] = RailOf[t] => providerRef[s] # r
             /\ providerRef' = [providerRef EXCEPT ![t] = r]
    BY <1>0, <1>d, UnusedRef
  <2>3. Verdicts!Decide(t, entry)
    BY <1>d, <2>1, <2>2 DEF Verdicts!Decide, decided
  <2>. QED  BY <2>3 DEF Verdicts!Next
<1>m. ASSUME NEW t \in Txn, UnderReview(t) PROVE Unsettled(t)
  BY <1>m, ConstantsOK DEF UnderReview, Unsettled
<1>1. ASSUME NEW t \in Txn, NEW a \in User, Approve(t, a) PROVE Verdicts!Next
  BY <1>1, <1>m, <1>d DEF Approve, Confirm, Entry
<1>2. ASSUME NEW t \in Txn, Reject(t) PROVE Verdicts!Next
  <2>1. Unsettled(t) /\ Settle(t, "failed", "payment_rejected")
    BY <1>2, <1>m DEF Reject
  <2>2. UNCHANGED <<isPro, providerRef>>
    BY <1>2 DEF Reject
  <2>. QED  BY <2>1, <2>2, <1>d DEF Entry
<1>3. ASSUME NEW t \in Txn, NEW r \in Ref, NEW c \in Claim, NEW a \in User,
             Reconcile(t, r, c, a)
      PROVE  Verdicts!Next
  <2>1. /\ Unsettled(t)
        /\ ~Recorded(RailOf[t], r)
        /\ providerRef' = [providerRef EXCEPT ![t] = r]
    BY <1>3, <1>m DEF Reconcile
  <2>2. CASE Confirm(t)
    BY <2>1, <2>2, <1>d DEF Confirm, Entry
  <2>3. CASE Settle(t, "mismatch", "payment_mismatch") /\ UNCHANGED isPro
    BY <2>1, <2>3, <1>d DEF Entry
  <2>. QED  BY <1>3, <2>2, <2>3 DEF Reconcile
<1>4. ASSUME NEW t \in Txn, NEW r \in Ref, NEW c \in Claim,
             CallbackDecides(t, r, c)
      PROVE  Verdicts!Next
  <2>1. /\ Unsettled(t)
        /\ ~Recorded(RailOf[t], r)
        /\ providerRef' = [providerRef EXCEPT ![t] = r]
    BY <1>4 DEF CallbackDecides, Unsettled
  <2>2. CASE Confirm(t)
    BY <2>1, <2>2, <1>d DEF Confirm, Entry
  <2>3. CASE Settle(t, "failed", "payment_failed") /\ UNCHANGED isPro
    BY <2>1, <2>3, <1>d DEF Entry
  <2>4. CASE Settle(t, "mismatch", "payment_mismatch") /\ UNCHANGED isPro
    BY <2>1, <2>4, <1>d DEF Entry
  <2>. QED  BY <1>4, <2>2, <2>3, <2>4 DEF CallbackDecides
<1>5. ASSUME NEW t \in Txn, \/ Student(t) \/ Lock(t) \/ GiveUp(t)
                            \/ ExpireManual(t) \/ CallbackInvalid(t)
      PROVE  UNCHANGED Verdicts!svars
  BY <1>5, <1>k DEF Student, Create, ReleaseExpired, Deadline, SubmitProof,
     Lock, GiveUp, ExpireManual, CallbackInvalid, Expire
<1>6. ASSUME NEW t \in Txn, NEW r \in Ref, NEW c \in Claim,
             \/ CallbackTooLate(t, r, c) \/ CallbackIgnored(t, r, c)
             \/ CallbackRepeated(t, r, c)
      PROVE  UNCHANGED Verdicts!svars
  BY <1>6, <1>k DEF CallbackTooLate, CallbackIgnored, CallbackRepeated, Expire
<1>7. ASSUME NEW t \in Txn, NEW r \in Ref, NEW c \in Claim, NEW a \in User,
             ReconcileClosed(t, r, c, a)
      PROVE  UNCHANGED Verdicts!svars
  BY <1>7, <1>k DEF ReconcileClosed
<1>u. ASSUME NEW m \in ManualRail, NEW r \in Ref, NEW c \in Claim,
             ReconcileUnknown(m, r, c)
      PROVE  UNCHANGED Verdicts!svars
  BY <1>u, <1>k DEF ReconcileUnknown
<1>c. ASSUME NEW r \in Ref, NEW c \in Claim, CallbackUnknown(r, c)
      PROVE  UNCHANGED Verdicts!svars
  BY <1>c, <1>k DEF CallbackUnknown
<1>8. ASSUME NEW u \in User, ReadCurrent(u) PROVE UNCHANGED Verdicts!svars
  BY <1>8, <1>k DEF ReadCurrent
<1>9. ASSUME NEW rd \in readers, ExpireStale(rd) \/ ReaderDies(rd)
      PROVE  UNCHANGED Verdicts!svars
  BY <1>9, <1>k DEF ExpireStale, ReaderDies, Expire
<1>10. CASE UNCHANGED vars
  BY <1>10, <1>k DEF vars
<1>. QED
  BY <1>1, <1>2, <1>3, <1>4, <1>5, <1>6, <1>7, <1>8, <1>9, <1>10, <1>u, <1>c
     DEF Next, Review, Callback, Claim

\* The handlers of payment_gateway.py, races included, implement the promise
\* that a request is decided once, that a reference decides one request and
\* that pro access follows confirmed payments.
THEOREM ImplementsSettlement == Spec => DecidesAsPromised
BY InitRefines, StepRefines, BooksHold, PTL
   DEF Spec, DecidesAsPromised, Verdicts!Spec

-----------------------------------------------------------------------------
(* What the unlocked reader can and cannot do.                             *)

DecidedStep ==
  \A t \in Txn :
    status[t] \notin Pending \cup {"none"} /\ status'[t] # status[t]
      => status'[t] = "expired" /\ \E rd \in readers : rd.txn = t

LEMMA StepDecided == TypeOK /\ [Next]_vars => DecidedStep
<1>. SUFFICES ASSUME TypeOK, [Next]_vars PROVE DecidedStep
  OBVIOUS
<1>k. ASSUME UNCHANGED status PROVE DecidedStep
  BY <1>k DEF DecidedStep
<1>p. ASSUME NEW t \in Txn, status[t] \in Pending \cup {"none"},
             \A s \in Txn : s # t => status'[s] = status[s]
      PROVE  DecidedStep
  BY <1>p DEF DecidedStep
<1>1. ASSUME NEW t \in Txn,
             \/ ReleaseExpired(t) \/ ExpireManual(t) \/ Create(t)
             \/ Reject(t) \/ \E a \in User : Approve(t, a)
      PROVE  DecidedStep
  <2>1. status[t] \in Pending \cup {"none"}
    BY <1>1 DEF ReleaseExpired, ExpireManual, Create, Reject, Approve,
                Unsettled, UnderReview, Pending
  <2>2. \A s \in Txn : s # t => status'[s] = status[s]
    BY <1>1 DEF TypeOK, ReleaseExpired, ExpireManual, Create, Reject, Approve,
                Confirm, Settle, Expire
  <2>. QED  BY <2>1, <2>2, <1>p
<1>2. ASSUME NEW t \in Txn, NEW r \in Ref, NEW c \in Claim,
             \/ \E a \in User : Reconcile(t, r, c, a)
             \/ CallbackDecides(t, r, c) \/ CallbackTooLate(t, r, c)
      PROVE  DecidedStep
  <2>1. status[t] \in Pending \cup {"none"}
    BY <1>2 DEF Reconcile, CallbackDecides, CallbackTooLate, UnderReview, Pending
  <2>2. \A s \in Txn : s # t => status'[s] = status[s]
    BY <1>2 DEF TypeOK, Reconcile, CallbackDecides, CallbackTooLate,
                Confirm, Settle, Expire
  <2>. QED  BY <2>1, <2>2, <1>p
<1>3. ASSUME NEW rd \in readers, ExpireStale(rd) PROVE DecidedStep
  <2>1. rd.txn \in Txn
    BY DEF TypeOK, Reader
  <2>2. status' = [status EXCEPT ![rd.txn] = "expired"]
    BY <1>3 DEF ExpireStale, Expire
  <2>. QED  BY <2>1, <2>2 DEF DecidedStep, TypeOK
<1>4. ASSUME NEW t \in Txn, \/ Deadline(t) \/ Lock(t) \/ GiveUp(t)
                            \/ CallbackInvalid(t)
                            \/ \E d \in Digest : SubmitProof(t, d)
      PROVE  DecidedStep
  BY <1>4, <1>k DEF Deadline, Lock, GiveUp, CallbackInvalid, SubmitProof
<1>5. ASSUME NEW t \in Txn, NEW r \in Ref, NEW c \in Claim,
             \/ \E a \in User : ReconcileClosed(t, r, c, a)
             \/ CallbackIgnored(t, r, c) \/ CallbackRepeated(t, r, c)
      PROVE  DecidedStep
  BY <1>5, <1>k DEF ReconcileClosed, CallbackIgnored, CallbackRepeated
<1>6. ASSUME NEW r \in Ref, NEW c \in Claim,
             \/ CallbackUnknown(r, c)
             \/ \E m \in ManualRail : ReconcileUnknown(m, r, c)
      PROVE  DecidedStep
  BY <1>6, <1>k DEF CallbackUnknown, ReconcileUnknown
<1>7. ASSUME \/ \E u \in User : ReadCurrent(u)
             \/ \E rd \in readers : ReaderDies(rd)
             \/ UNCHANGED vars
      PROVE  DecidedStep
  BY <1>7, <1>k DEF ReadCurrent, ReaderDies, vars
<1>. QED
  BY <1>1, <1>2, <1>3, <1>4, <1>5, <1>6, <1>7
     DEF Next, Student, Review, Callback, Claim

\* A decided request keeps its status for good, unless a get_current handler
\* that read it while it was pending writes "expired" over it: that one
\* handler is the whole extent of the lost update.
THEOREM DecidedStays == Spec => DecidedIsFinal
<1>1. TypeOK /\ [Next]_vars => [DecidedStep]_vars
  BY StepDecided
<1>. QED  BY <1>1, TypeCorrect, PTL DEF Spec, DecidedIsFinal, DecidedStep

-----------------------------------------------------------------------------
(* The copies of the proofs in metadata_json.                              *)

\* ProofsAreListed, stated from before the row exists.
Listed == \A t \in Txn : Undecided(t) => listed[t] = proofs[t]

LEMMA StepListed == TypeOK /\ Listed /\ [Next]_vars => Listed'
<1>. SUFFICES ASSUME TypeOK, Listed, [Next]_vars PROVE Listed'
  OBVIOUS
<1>k. ASSUME UNCHANGED <<listed, proofs>>,
             \/ UNCHANGED status
             \/ \E t \in Txn : /\ Undecided(t)
                               /\ \E v : status' = [status EXCEPT ![t] = v]
      PROVE  Listed'
  BY <1>k DEF TypeOK, Listed, Undecided, Unsettled
<1>x. ASSUME NEW t \in Txn, NEW kept, Expire(t, kept), UNCHANGED proofs
      PROVE  Listed'
  BY <1>x DEF TypeOK, Listed, Expire, Undecided, Unsettled
<1>1. ASSUME NEW t \in Txn, NEW d \in Digest, SubmitProof(t, d) PROVE Listed'
  BY <1>1 DEF SubmitProof, TypeOK, Listed, Undecided, Unsettled
<1>2. ASSUME NEW t \in Txn, ReleaseExpired(t) \/ ExpireManual(t) PROVE Listed'
  BY <1>2, <1>x DEF ReleaseExpired, ExpireManual
<1>3. ASSUME NEW t \in Txn, NEW r \in Ref, NEW c \in Claim, CallbackTooLate(t, r, c)
      PROVE  Listed'
  BY <1>3, <1>x DEF CallbackTooLate
<1>4. ASSUME NEW rd \in readers, ExpireStale(rd) PROVE Listed'
  <2>1. rd.txn \in Txn
    BY DEF TypeOK, Reader
  <2>. QED  BY <1>4, <2>1, <1>x DEF ExpireStale
<1>5. ASSUME NEW t \in Txn, Create(t) \/ Reject(t) \/ \E a \in User : Approve(t, a)
      PROVE  Listed'
  <2>1. Undecided(t) /\ UNCHANGED <<listed, proofs>>
    BY <1>5, ConstantsOK
       DEF Create, Reject, Approve, UnderReview, Undecided, Unsettled
  <2>2. \E v : status' = [status EXCEPT ![t] = v]
    BY <1>5 DEF Create, Reject, Approve, Confirm, Settle
  <2>. QED  BY <2>1, <2>2, <1>k
<1>6. ASSUME NEW t \in Txn, NEW r \in Ref, NEW c \in Claim,
             \/ \E a \in User : Reconcile(t, r, c, a)
             \/ CallbackDecides(t, r, c)
      PROVE  Listed'
  <2>1. Undecided(t) /\ UNCHANGED <<listed, proofs>>
    BY <1>6, ConstantsOK
       DEF Reconcile, CallbackDecides, UnderReview, Undecided, Unsettled
  <2>2. \E v : status' = [status EXCEPT ![t] = v]
    BY <1>6 DEF Reconcile, CallbackDecides, Confirm, Settle
  <2>. QED  BY <2>1, <2>2, <1>k
<1>7. ASSUME NEW t \in Txn, Deadline(t) \/ Lock(t) \/ GiveUp(t) \/ CallbackInvalid(t)
      PROVE  Listed'
  BY <1>7, <1>k DEF Deadline, Lock, GiveUp, CallbackInvalid
<1>8. ASSUME NEW t \in Txn, NEW r \in Ref, NEW c \in Claim,
             \/ \E a \in User : ReconcileClosed(t, r, c, a)
             \/ CallbackIgnored(t, r, c) \/ CallbackRepeated(t, r, c)
      PROVE  Listed'
  BY <1>8, <1>k DEF ReconcileClosed, CallbackIgnored, CallbackRepeated
<1>9. ASSUME NEW r \in Ref, NEW c \in Claim,
             \/ CallbackUnknown(r, c)
             \/ \E m \in ManualRail : ReconcileUnknown(m, r, c)
      PROVE  Listed'
  BY <1>9, <1>k DEF CallbackUnknown, ReconcileUnknown
<1>10. ASSUME \/ \E u \in User : ReadCurrent(u)
              \/ \E rd \in readers : ReaderDies(rd)
              \/ UNCHANGED vars
       PROVE  Listed'
  BY <1>10, <1>k DEF ReadCurrent, ReaderDies, vars
<1>. QED
  BY <1>1, <1>2, <1>3, <1>4, <1>5, <1>6, <1>7, <1>8, <1>9, <1>10
     DEF Next, Student, Review, Callback, Claim

\* While a request is under review, staff see every proof that was recorded for it: a
\* writer that saves an old copy of metadata_json closes the request with it.
THEOREM ProofsStayListed == Spec => []ProofsAreListed
<1>1. Init => Listed
  BY DEF Init, Listed
<1>2. TypeOK /\ Listed => ProofsAreListed
  BY DEF Listed, ProofsAreListed, Undecided
<1>. QED  BY <1>1, <1>2, StepListed, TypeCorrect, PTL DEF Spec
=============================================================================
