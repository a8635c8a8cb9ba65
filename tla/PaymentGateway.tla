--------------------------- MODULE PaymentGateway ---------------------------
(***************************************************************************)
(* The payment requests of backend/app/services/payment_gateway.py.        *)
(*                                                                         *)
(* A row of payment_transactions is identified by t \in Txn; who asks for  *)
(* it and on which rail are fixed when it is created (Owner, RailOf).      *)
(* Handlers that decide about a row take its row lock (SELECT ... FOR      *)
(* UPDATE) and write status, open key, provider event, ledger entry and    *)
(* User.is_pro in one database transaction, so each of them is two steps:  *)
(* Lock, which also samples whether the deadline has passed, and the       *)
(* commit.  get_current_payment_request is the one handler that reads the  *)
(* row without the lock and writes it later.                               *)
(***************************************************************************)
EXTENDS Naturals, Sequences

CONSTANTS
  User,        \* students and staff
  Txn,         \* payment requests that may come to be made
  ManualRail,  \* the rails settled by staff: bank_transfer, cashplus, ashplus
  Ref,         \* identifiers given by a provider: a TransId, a bank reference
  Digest,      \* digests of the proofs a student uploads
  Owner,       \* Owner[t]: the student who makes request t
  RailOf,      \* RailOf[t]: the rail it is made on
  NoTxn, NoRef

Cmi == "cmi"
Rail == ManualRail \cup {Cmi}

ASSUME ConstantsOK ==
  /\ Cmi \notin ManualRail
  /\ Owner \in [Txn -> User]
  /\ RailOf \in [Txn -> Rail]
  /\ NoTxn \notin Txn
  /\ NoRef \notin Ref

VARIABLES
  status,      \* PaymentTransaction.status; "none" before the row exists
  open,        \* the rows whose open_request_key is not NULL
  pastDue,     \* the rows whose expires_at lies in the past
  lock,        \* the row lock and what its holder knows of the deadline
  latest,      \* the row get_current_payment_request selects for a user
  readers,     \* get_current handlers that hold an expired pending row
  providerRef, \* PaymentTransaction.provider_reference
  listed,      \* digests in metadata_json["proofs"]
  proofs,      \* digests with a payment_transaction_proofs row and an event
  events,      \* payment_provider_events that carry a provider's reference
  expiryLogged,\* the rows with a "<provider>:payment_expired:<id>" event
  ledger,      \* finance_ledger_entries of a row, oldest first
  isPro,       \* the users with is_pro = true
  captured     \* <<t, r>>: a callback r for t was answered ACTION=POSTAUTH

vars == <<status, open, pastDue, lock, latest, readers, providerRef, listed,
          proofs, events, expiryLogged, ledger, isPro, captured>>

Pending == {"pending_provider", "pending_manual_review"}
Status == Pending \cup {"none", "paid", "failed", "mismatch", "expired"}
Entry == {"payment_confirmed", "payment_failed", "payment_mismatch",
          "payment_rejected"}

\* What a callback or a report row says of a request: paid in full, declined,
\* or an amount, currency or client that is not the request's.
Claim == {"approved", "declined", "mismatch"}

Outcome == {"confirmed", "declined", "mismatch", "ignored", "unmatched",
            "invalid"}

\* ref is NoRef for a callback whose signature is wrong: its event has an id of
\* its own, made from the whole payload.
Event == [provider : Rail, ref : Ref \cup {NoRef}, txn : Txn \cup {NoTxn},
          claim : Claim, outcome : Outcome]

Reader == [txn : Txn, proofs : SUBSET Digest]

TypeOK ==
  /\ status \in [Txn -> Status]
  /\ open \subseteq Txn
  /\ pastDue \subseteq Txn
  /\ lock \in [Txn -> {"free", "intime", "late"}]
  /\ latest \in [User -> Txn \cup {NoTxn}]
  /\ readers \subseteq Reader
  /\ providerRef \in [Txn -> Ref \cup {NoRef}]
  /\ listed \in [Txn -> SUBSET Digest]
  /\ proofs \in [Txn -> SUBSET Digest]
  /\ events \subseteq Event
  /\ expiryLogged \subseteq Txn
  /\ ledger \in [Txn -> Seq(Entry)]
  /\ isPro \subseteq User
  /\ captured \subseteq Txn \X Ref

Init ==
  /\ status = [t \in Txn |-> "none"]
  /\ open = {}
  /\ pastDue = {}
  /\ lock = [t \in Txn |-> "free"]
  /\ latest = [u \in User |-> NoTxn]
  /\ readers = {}
  /\ providerRef = [t \in Txn |-> NoRef]
  /\ listed = [t \in Txn |-> {}]
  /\ proofs = [t \in Txn |-> {}]
  /\ events = {}
  /\ expiryLogged = {}
  /\ ledger = [t \in Txn |-> <<>>]
  /\ isPro = {}
  /\ captured = {}

-----------------------------------------------------------------------------
(* What the handlers are made of.                                          *)

\* manual:<user>:<rail>:<plan> or cmi:<user>:<plan>; there is one plan.
Key(t) == <<Owner[t], RailOf[t]>>

Unsettled(t) ==
  status[t] = IF RailOf[t] = Cmi THEN "pending_provider"
                                 ELSE "pending_manual_review"

\* Staff and students reach manual rows only: the SELECT names the rails.
UnderReview(t) ==
  RailOf[t] \in ManualRail /\ status[t] = "pending_manual_review"

\* The unique constraint (provider, event_id) of payment_provider_events.
Recorded(rail, r) == \E e \in events : e.provider = rail /\ e.ref = r

EventOf(t, r, claim, outcome) ==
  [provider |-> RailOf[t], ref |-> r, txn |-> t, claim |-> claim,
   outcome |-> outcome]

\* Faulty variants are given before the definitions they stand in for; the
\* runs use them to show that a property can fail.
SettleKeepsKey(t, final, entry) ==
  /\ status' = [status EXCEPT ![t] = final]
  /\ ledger' = [ledger EXCEPT ![t] = Append(@, entry)]
  /\ UNCHANGED <<open, expiryLogged>>

SettleSwapped(t, final, entry) ==
  /\ status' = [status EXCEPT ![t] = entry]
  /\ open' = open \ {t}
  /\ ledger' = [ledger EXCEPT ![t] = Append(@, final)]
  /\ UNCHANGED expiryLogged

\* A decision about a pending row: its final status and one ledger entry.
Settle(t, final, entry) ==
  /\ status' = [status EXCEPT ![t] = final]
  /\ open' = open \ {t}
  /\ ledger' = [ledger EXCEPT ![t] = Append(@, entry)]
  /\ UNCHANGED expiryLogged

ConfirmForgetsUser(t) ==
  /\ Settle(t, "paid", "payment_confirmed")
  /\ UNCHANGED isPro

Confirm(t) ==
  /\ Settle(t, "paid", "payment_confirmed")
  /\ isPro' = isPro \cup {Owner[t]}

ExpireUnlogged(t, kept) ==
  /\ status' = [status EXCEPT ![t] = "expired"]
  /\ open' = open \ {t}
  /\ listed' = [listed EXCEPT ![t] = kept]
  /\ UNCHANGED <<expiryLogged, ledger, isPro>>

\* Writing a row as expired, with metadata_json built from a copy that lists
\* the proofs in kept. The event is added unless the row already has one.
Expire(t, kept) ==
  /\ status' = [status EXCEPT ![t] = "expired"]
  /\ open' = open \ {t}
  /\ listed' = [listed EXCEPT ![t] = kept]
  /\ expiryLogged' = expiryLogged \cup {t}
  /\ UNCHANGED <<ledger, isPro>>

Unlock(t) == lock' = [lock EXCEPT ![t] = "free"]

-----------------------------------------------------------------------------
(* Creating a request: look for an open one, release an expired one (a     *)
(* commit of its own), insert.                                             *)

ReleaseExpired(t) ==
  /\ t \in open
  /\ Unsettled(t)
  /\ t \in pastDue
  /\ lock[t] = "free"
  /\ Expire(t, listed[t])
  /\ UNCHANGED <<pastDue, lock, latest, readers, providerRef, proofs, events,
                 captured>>

CreateUnconstrained(t) ==
  /\ status[t] = "none"
  /\ status' = [status EXCEPT ![t] =
                  IF RailOf[t] = Cmi THEN "pending_provider"
                                     ELSE "pending_manual_review"]
  /\ open' = open \cup {t}
  /\ latest' = [latest EXCEPT ![Owner[t]] = t]
  /\ UNCHANGED <<pastDue, lock, readers, providerRef, listed, proofs, events,
                 expiryLogged, ledger, isPro, captured>>

\* The unique constraint on open_request_key refuses a second open row; the
\* handler then returns the row that won.
Create(t) ==
  /\ status[t] = "none"
  /\ \A o \in open : Key(o) # Key(t)
  /\ status' = [status EXCEPT ![t] =
                  IF RailOf[t] = Cmi THEN "pending_provider"
                                     ELSE "pending_manual_review"]
  /\ open' = open \cup {t}
  /\ latest' = [latest EXCEPT ![Owner[t]] = t]
  /\ UNCHANGED <<pastDue, lock, readers, providerRef, listed, proofs, events,
                 expiryLogged, ledger, isPro, captured>>

\* expires_at passes: 30 minutes for CMI, seven days for a manual rail.
Deadline(t) ==
  /\ status[t] # "none"
  /\ t \notin pastDue
  /\ pastDue' = pastDue \cup {t}
  /\ UNCHANGED <<status, open, lock, latest, readers, providerRef, listed,
                 proofs, events, expiryLogged, ledger, isPro, captured>>

-----------------------------------------------------------------------------
(* The row lock.                                                           *)

\* Staff and student handlers read the clock once they hold the lock; the
\* callback reads it before it waits for the lock, so it may be out of date.
Lock(t) ==
  /\ status[t] # "none"
  /\ lock[t] = "free"
  /\ \E seen \in (IF t \in pastDue THEN {"late"} ELSE {"intime"})
                 \cup (IF RailOf[t] = Cmi THEN {"intime"} ELSE {}) :
       lock' = [lock EXCEPT ![t] = seen]
  /\ UNCHANGED <<status, open, pastDue, latest, readers, providerRef, listed,
                 proofs, events, expiryLogged, ledger, isPro, captured>>

\* A handler that returns or raises without a change (a repeated approval, a
\* 403, a 409, a known proof), and one that dies before its commit.
GiveUp(t) ==
  /\ lock[t] # "free"
  /\ Unlock(t)
  /\ UNCHANGED <<status, open, pastDue, latest, readers, providerRef, listed,
                 proofs, events, expiryLogged, ledger, isPro, captured>>

-----------------------------------------------------------------------------
(* Manual rails: proofs, review, reconciliation.                           *)

SubmitProofUnlisted(t, d) ==
  /\ lock[t] = "intime"
  /\ UnderReview(t)
  /\ d \notin proofs[t]
  /\ proofs' = [proofs EXCEPT ![t] = @ \cup {d}]
  /\ Unlock(t)
  /\ UNCHANGED <<status, open, pastDue, latest, readers, providerRef, listed,
                 events, expiryLogged, ledger, isPro, captured>>

SubmitProof(t, d) ==
  /\ lock[t] = "intime"
  /\ UnderReview(t)
  /\ d \notin proofs[t]
  /\ proofs' = [proofs EXCEPT ![t] = @ \cup {d}]
  /\ listed' = [listed EXCEPT ![t] = @ \cup {d}]
  /\ Unlock(t)
  /\ UNCHANGED <<status, open, pastDue, latest, readers, providerRef, events,
                 expiryLogged, ledger, isPro, captured>>

\* Approval, reconciliation and proof upload find the request too late.
ExpireManual(t) ==
  /\ lock[t] = "late"
  /\ UnderReview(t)
  /\ Expire(t, listed[t])
  /\ Unlock(t)
  /\ UNCHANGED <<pastDue, latest, readers, providerRef, proofs, events,
                 captured>>

ApproveClosed(t, actor) ==
  /\ lock[t] = "intime"
  /\ RailOf[t] \in ManualRail
  /\ status[t] # "paid"
  /\ actor # Owner[t]
  /\ Confirm(t)
  /\ Unlock(t)
  /\ UNCHANGED <<pastDue, latest, readers, providerRef, listed, proofs, events,
                 captured>>

Approve(t, actor) ==
  /\ lock[t] = "intime"
  /\ UnderReview(t)
  /\ actor # Owner[t]
  /\ Confirm(t)
  /\ Unlock(t)
  /\ UNCHANGED <<pastDue, latest, readers, providerRef, listed, proofs, events,
                 captured>>

RejectClosed(t) ==
  /\ lock[t] # "free"
  /\ RailOf[t] \in ManualRail
  /\ status[t] # "failed"
  /\ Settle(t, "failed", "payment_rejected")
  /\ Unlock(t)
  /\ UNCHANGED <<pastDue, latest, readers, providerRef, listed, proofs, events,
                 isPro, captured>>

\* A rejection does not look at the deadline.
Reject(t) ==
  /\ lock[t] # "free"
  /\ UnderReview(t)
  /\ Settle(t, "failed", "payment_rejected")
  /\ Unlock(t)
  /\ UNCHANGED <<pastDue, latest, readers, providerRef, listed, proofs, events,
                 isPro, captured>>

ReconcileUnchecked(t, r, claim, actor) ==
  /\ lock[t] = "intime"
  /\ UnderReview(t)
  /\ actor # Owner[t]
  /\ providerRef' = [providerRef EXCEPT ![t] = r]
  /\ claim = "approved"
  /\ Confirm(t)
  /\ events' = events \cup {EventOf(t, r, claim, "confirmed")}
  /\ Unlock(t)
  /\ UNCHANGED <<pastDue, latest, readers, listed, proofs, captured>>

ReconcileUnrecorded(t, r, claim, actor) ==
  /\ lock[t] = "intime"
  /\ UnderReview(t)
  /\ actor # Owner[t]
  /\ ~Recorded(RailOf[t], r)
  /\ providerRef' = [providerRef EXCEPT ![t] = r]
  /\ claim = "approved"
  /\ Confirm(t)
  /\ Unlock(t)
  /\ UNCHANGED <<pastDue, latest, readers, listed, proofs, events, captured>>

\* A report row r names request t. The event is looked up before the lock is
\* taken; the unique constraint catches what was recorded in between.
Reconcile(t, r, claim, actor) ==
  /\ lock[t] = "intime"
  /\ UnderReview(t)
  /\ actor # Owner[t]
  /\ ~Recorded(RailOf[t], r)
  /\ providerRef' = [providerRef EXCEPT ![t] = r]
  /\ \/ /\ claim = "approved"
        /\ Confirm(t)
        /\ events' = events \cup {EventOf(t, r, claim, "confirmed")}
     \/ /\ claim = "mismatch"
        /\ Settle(t, "mismatch", "payment_mismatch")
        /\ events' = events \cup {EventOf(t, r, claim, "mismatch")}
        /\ UNCHANGED isPro
  /\ Unlock(t)
  /\ UNCHANGED <<pastDue, latest, readers, listed, proofs, captured>>

\* The request is no longer pending: the reference is recorded against it.
ReconcileClosed(t, r, claim, actor) ==
  /\ lock[t] # "free"
  /\ RailOf[t] \in ManualRail
  /\ ~Unsettled(t)
  /\ actor # Owner[t]
  /\ ~Recorded(RailOf[t], r)
  /\ ~(status[t] = "paid" /\ providerRef[t] = r /\ claim = "approved")
  /\ events' = events \cup {EventOf(t, r, claim, "ignored")}
  /\ Unlock(t)
  /\ UNCHANGED <<status, open, pastDue, latest, readers, providerRef, listed,
                 proofs, expiryLogged, ledger, isPro, captured>>

\* No request has the reference code of the row.
ReconcileUnknown(rail, r, claim) ==
  /\ ~Recorded(rail, r)
  /\ events' = events \cup
       {[provider |-> rail, ref |-> r, txn |-> NoTxn, claim |-> claim,
         outcome |-> "unmatched"]}
  /\ UNCHANGED <<status, open, pastDue, lock, latest, readers, providerRef,
                 listed, proofs, expiryLogged, ledger, isPro, captured>>

-----------------------------------------------------------------------------
(* process_cmi_callback.                                                   *)

\* CMI may deliver a callback again, but r always means the same
\* authorisation, of the same order and with the same result.
SameAuthorisation(t, r, claim) ==
  \A e \in events :
    (e.provider = Cmi /\ e.ref = r) => (e.txn = t /\ e.claim = claim)

\* The answer ACTION=POSTAUTH, unless the handler dies before it is sent.
AnswerPostauth(t, r) ==
  \E sent \in BOOLEAN :
    captured' = IF sent THEN captured \cup {<<t, r>>} ELSE captured

CallbackDecidesAgain(t, r, claim) ==
  /\ RailOf[t] = Cmi
  /\ lock[t] = "intime"
  /\ status[t] # "paid"
  /\ SameAuthorisation(t, r, claim)
  /\ ~Recorded(Cmi, r)
  /\ claim = "approved"
  /\ providerRef' = [providerRef EXCEPT ![t] = r]
  /\ Confirm(t)
  /\ events' = events \cup {EventOf(t, r, claim, "confirmed")}
  /\ AnswerPostauth(t, r)
  /\ Unlock(t)
  /\ UNCHANGED <<pastDue, latest, readers, listed, proofs>>

CallbackDecides(t, r, claim) ==
  /\ RailOf[t] = Cmi
  /\ lock[t] = "intime"
  /\ status[t] = "pending_provider"
  /\ SameAuthorisation(t, r, claim)
  /\ ~Recorded(Cmi, r)
  /\ providerRef' = [providerRef EXCEPT ![t] = r]
  /\ \/ /\ claim = "approved"
        /\ Confirm(t)
        /\ events' = events \cup {EventOf(t, r, claim, "confirmed")}
        /\ AnswerPostauth(t, r)
     \/ /\ claim = "declined"
        /\ Settle(t, "failed", "payment_failed")
        /\ events' = events \cup {EventOf(t, r, claim, "declined")}
        /\ UNCHANGED <<isPro, captured>>
     \/ /\ claim = "mismatch"
        /\ Settle(t, "mismatch", "payment_mismatch")
        /\ events' = events \cup {EventOf(t, r, claim, "mismatch")}
        /\ UNCHANGED <<isPro, captured>>
  /\ Unlock(t)
  /\ UNCHANGED <<pastDue, latest, readers, listed, proofs>>

\* Too late: the row is expired in one commit, the callback recorded as
\* ignored in a second one, which a crash may prevent.
CallbackTooLate(t, r, claim) ==
  /\ RailOf[t] = Cmi
  /\ lock[t] = "late"
  /\ status[t] = "pending_provider"
  /\ SameAuthorisation(t, r, claim)
  /\ ~Recorded(Cmi, r)
  /\ Expire(t, listed[t])
  /\ \E logged \in BOOLEAN :
       events' = IF logged
                 THEN events \cup {EventOf(t, r, claim, "ignored")}
                 ELSE events
  /\ Unlock(t)
  /\ UNCHANGED <<pastDue, latest, readers, providerRef, proofs, captured>>

\* The row is paid already, or closed in another way.
CallbackIgnored(t, r, claim) ==
  /\ RailOf[t] = Cmi
  /\ lock[t] # "free"
  /\ status[t] # "pending_provider"
  /\ SameAuthorisation(t, r, claim)
  /\ ~Recorded(Cmi, r)
  /\ events' = events \cup {EventOf(t, r, claim, "ignored")}
  /\ Unlock(t)
  /\ UNCHANGED <<status, open, pastDue, latest, readers, providerRef, listed,
                 proofs, expiryLogged, ledger, isPro, captured>>

CallbackRepeatedUnpaid(t, r, claim) ==
  /\ RailOf[t] = Cmi
  /\ lock[t] # "free"
  /\ SameAuthorisation(t, r, claim)
  /\ Recorded(Cmi, r)
  /\ IF claim = "approved" THEN AnswerPostauth(t, r) ELSE UNCHANGED captured
  /\ Unlock(t)
  /\ UNCHANGED <<status, open, pastDue, latest, readers, providerRef, listed,
                 proofs, events, expiryLogged, ledger, isPro>>

\* A callback recorded before is answered from the row alone.
CallbackRepeated(t, r, claim) ==
  /\ RailOf[t] = Cmi
  /\ lock[t] # "free"
  /\ SameAuthorisation(t, r, claim)
  /\ Recorded(Cmi, r)
  /\ IF status[t] = "paid" /\ claim = "approved"
     THEN AnswerPostauth(t, r)
     ELSE UNCHANGED captured
  /\ Unlock(t)
  /\ UNCHANGED <<status, open, pastDue, latest, readers, providerRef, listed,
                 proofs, events, expiryLogged, ledger, isPro>>

\* The order is not one of ours; the signature may be wrong as well.
CallbackUnknown(r, claim) ==
  /\ \/ /\ SameAuthorisation(NoTxn, r, claim)
        /\ ~Recorded(Cmi, r)
        /\ events' = events \cup
             {[provider |-> Cmi, ref |-> r, txn |-> NoTxn, claim |-> claim,
               outcome |-> "ignored"]}
     \/ events' = events \cup
          {[provider |-> Cmi, ref |-> NoRef, txn |-> NoTxn,
            claim |-> "mismatch", outcome |-> "invalid"]}
  /\ UNCHANGED <<status, open, pastDue, lock, latest, readers, providerRef,
                 listed, proofs, expiryLogged, ledger, isPro, captured>>

\* The signature does not verify: the payload is recorded and nothing else.
CallbackInvalid(t) ==
  /\ RailOf[t] = Cmi
  /\ lock[t] # "free"
  /\ events' = events \cup {EventOf(t, NoRef, "mismatch", "invalid")}
  /\ Unlock(t)
  /\ UNCHANGED <<status, open, pastDue, latest, readers, providerRef, listed,
                 proofs, expiryLogged, ledger, isPro, captured>>

-----------------------------------------------------------------------------
(* get_current_payment_request: a read without the lock, a later write.    *)

ReadCurrent(u) ==
  /\ latest[u] # NoTxn
  /\ status[latest[u]] \in Pending
  /\ latest[u] \in pastDue
  /\ readers' = readers \cup {[txn |-> latest[u], proofs |-> listed[latest[u]]]}
  /\ UNCHANGED <<status, open, pastDue, lock, latest, providerRef, listed,
                 proofs, events, expiryLogged, ledger, isPro, captured>>

\* The UPDATE waits for the row lock and names the row by id only. When the
\* expiry event turns out to exist the handler starts over from a fresh copy.
ExpireStale(rd) ==
  /\ lock[rd.txn] = "free"
  /\ \E kept \in {rd.proofs} \cup
                 (IF rd.txn \in expiryLogged THEN {listed[rd.txn]} ELSE {}) :
       Expire(rd.txn, kept)
  /\ readers' = readers \ {rd}
  /\ UNCHANGED <<pastDue, lock, latest, providerRef, proofs, events, captured>>

ReaderDies(rd) ==
  /\ readers' = readers \ {rd}
  /\ UNCHANGED <<status, open, pastDue, lock, latest, providerRef, listed,
                 proofs, events, expiryLogged, ledger, isPro, captured>>

-----------------------------------------------------------------------------
Student(t) ==
  \/ Create(t)
  \/ ReleaseExpired(t)
  \/ Deadline(t)
  \/ \E d \in Digest : SubmitProof(t, d)

Review(t) ==
  \/ Lock(t)
  \/ GiveUp(t)
  \/ ExpireManual(t)
  \/ Reject(t)
  \/ \E a \in User : Approve(t, a)
  \/ \E a \in User, r \in Ref, c \in {"approved", "mismatch"} :
       Reconcile(t, r, c, a) \/ ReconcileClosed(t, r, c, a)

Callback(t, r, c) ==
  \/ CallbackDecides(t, r, c)
  \/ CallbackTooLate(t, r, c)
  \/ CallbackIgnored(t, r, c)
  \/ CallbackRepeated(t, r, c)

Next ==
  \/ \E t \in Txn : Student(t) \/ Review(t) \/ CallbackInvalid(t)
  \/ \E t \in Txn, r \in Ref, c \in Claim : Callback(t, r, c)
  \/ \E r \in Ref, c \in Claim : CallbackUnknown(r, c)
  \/ \E m \in ManualRail, r \in Ref, c \in {"approved", "mismatch"} :
       ReconcileUnknown(m, r, c)
  \/ \E u \in User : ReadCurrent(u)
  \/ \E rd \in readers : ExpireStale(rd) \/ ReaderDies(rd)

Spec == Init /\ [][Next]_vars

-----------------------------------------------------------------------------
(* What finance and the student rely on.                                   *)

Undecided(t) == status[t] = "none" \/ Unsettled(t)
Confirmed(t) == ledger[t] = <<"payment_confirmed">>

\* A student has at most one open request per rail, however many tabs race to
\* create it; and a request keeps its key exactly while it is pending, so that
\* a closed one never stands in the way of the next.
OpenRequests ==
  /\ \A s, t \in open : Key(s) = Key(t) => s = t
  /\ \A t \in Txn : t \in open <=> Unsettled(t)

\* Review, reconciliation, callbacks and expiry together enter at most one
\* finance decision per request, whatever order they arrive in.
OneVerdict == \A t \in Txn : Len(ledger[t]) <= 1

\* A closed row says what the ledger says. Only "expired" may hide a decision
\* (see PaidStaysPaid), and then there is an expiry event for the row.
StatusFollowsLedger ==
  \A t \in Txn :
    /\ status[t] = "paid" => Confirmed(t)
    /\ status[t] = "failed" =>
         ledger[t] \in {<<"payment_failed">>, <<"payment_rejected">>}
    /\ status[t] = "mismatch" => ledger[t] = <<"payment_mismatch">>
    /\ Undecided(t) => ledger[t] = <<>>
    /\ status[t] = "expired" <=> t \in expiryLogged

\* One bank line or card authorisation settles at most one request of its
\* rail, even when two handlers look it up before either has recorded it.
ReferenceSettlesOne ==
  \A s, t \in Txn :
    /\ RailOf[s] = RailOf[t]
    /\ providerRef[s] # NoRef
    /\ providerRef[s] = providerRef[t]
    => s = t

\* A request gets a reference with its decision, and the reference is then in
\* provider_events, where the unique constraint keeps it from being used again.
RefsAreRecorded ==
  \A t \in Txn :
    providerRef[t] # NoRef =>
      ~Undecided(t) /\ Recorded(RailOf[t], providerRef[t])

\* User.is_pro is the projection of the ledger that access-billing.md calls it:
\* set for exactly the students with a confirmed payment.
ProIsPaidFor == isPro = {Owner[t] : t \in {x \in Txn : Confirmed(x)}}

\* The bank is told to capture money only for an authorisation that was
\* recorded as approved for a request whose payment is in the ledger.
CaptureIsBooked ==
  \A c \in captured :
    /\ Confirmed(c[1])
    /\ \E e \in events : /\ e.provider = Cmi
                         /\ e.ref = c[2]
                         /\ e.txn = c[1]
                         /\ e.claim = "approved"

\* While a request is under review the proofs staff see in its metadata are
\* the proofs that were recorded.
ProofsAreListed ==
  \A t \in Txn : Unsettled(t) => listed[t] = proofs[t]

\* No step changes a decided status, except that a get_current handler which
\* read the row while it was pending may still write "expired" over it.
DecidedIsFinal ==
  [][\A t \in Txn :
       status[t] \notin Pending \cup {"none"} /\ status'[t] # status[t]
         => status'[t] = "expired" /\ \E rd \in readers : rd.txn = t]_vars

\* The finance records are the source of truth (access-billing.md): a payment
\* in the ledger is a paid request.
PaidStaysPaid == \A t \in Txn : Confirmed(t) => status[t] = "paid"

\* A later approved callback does not make the bank capture a second
\* authorisation for a paid request.
CapturedOnce == \A c, d \in captured : c[1] = d[1] => c = d

\* The inductive invariant of PaymentGateway_proofs. RefsAreRecorded is what
\* makes ReferenceSettlesOne inductive, StatusFollowsLedger does so for the
\* others.
Books ==
  /\ TypeOK
  /\ OpenRequests
  /\ StatusFollowsLedger
  /\ OneVerdict
  /\ ProIsPaidFor
  /\ RefsAreRecorded
  /\ ReferenceSettlesOne
  /\ CaptureIsBooked

\* The handlers, with their locks and the unlocked reader, implement the
\* promise of PaymentSettlement.
Verdicts == INSTANCE PaymentSettlement WITH
  Verdict <- Entry,
  verdict <- [t \in Txn |-> IF ledger[t] = <<>> THEN "open" ELSE ledger[t][1]],
  basis <- providerRef,
  pro <- isPro

DecidesAsPromised == Verdicts!Spec
=============================================================================
