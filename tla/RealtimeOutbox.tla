--------------------------- MODULE RealtimeOutbox ---------------------------
(***************************************************************************)
(* The outbox of backend/app/services/realtime_outbox.py.  A request adds  *)
(* rows to realtime_outbox in its own database transaction; workers (the   *)
(* scheduled job, the internal endpoint, the drains that a professor's     *)
(* request leaves in the background) claim a batch in one transaction,     *)
(* publish it to Firestore without any lock, and write all its results in  *)
(* a second transaction that names the rows by id only.  A worker may die  *)
(* in between; the rows it claimed may be claimed again after 300 seconds, *)
(* whether it died or is only slow.                                        *)
(***************************************************************************)
EXTENDS Naturals, Sequences, FiniteSets, SequencesExt, Lists

CONSTANTS
  Event,       \* places for outbox rows; a purged row makes room for another
  Worker,      \* runs of process_realtime_outbox that may overlap
  Cron,        \* the scheduled one
  Limit,       \* rows claimed at most in one batch
  MaxAttempts, \* claims after which a failed row is given up
  MaxCrashes,  \* bound: workers that die or whose commit fails
  MaxRequeues, \* bound: requests to requeue what failed
  MaxOverruns  \* bound: rows whose worker outlives its lock

ASSUME OutboxConstants ==
  /\ Cron \in Worker
  /\ Limit \in Nat \ {0}
  /\ MaxAttempts \in Nat \ {0}
  /\ MaxCrashes \in Nat
  /\ MaxRequeues \in Nat
  /\ MaxOverruns \in Nat

VARIABLES
  row,       \* RealtimeOutbox.status; "none": there is no row
  attempts,  \* RealtimeOutbox.attempts
  due,       \* rows whose available_at has come, in that order
  stale,     \* publishing rows locked for OUTBOX_STALE_LOCK_SECONDS or more
  claim,     \* claim[w][e]: the attempt worker w holds e for, or 0
  answer,    \* answer[w][e]: what Firestore said to w
  delivered, \* rows with a document in Firestore
  overran,   \* rows that some worker held until the lock was stale
  doomed,    \* rows a purge has selected and not deleted yet
  crashes, requeues

vars == <<row, attempts, due, stale, claim, answer, delivered, overran,
          doomed, crashes, requeues>>

Deliverable == {"pending", "retry"}
Terminal == {"published", "dead"}
RowStatus == Deliverable \cup Terminal \cup {"none", "publishing"}

TypeOK ==
  /\ row \in [Event -> RowStatus]
  /\ attempts \in [Event -> Nat]
  /\ due \in Seq(Event)
  /\ stale \subseteq Event
  /\ claim \in [Worker -> [Event -> Nat]]
  /\ answer \in [Worker -> [Event -> {"none", "ok", "failed"}]]
  /\ delivered \subseteq Event
  /\ overran \subseteq Event
  /\ doomed \subseteq Event
  /\ crashes \in 0 .. MaxCrashes
  /\ requeues \in 0 .. MaxRequeues

Init ==
  /\ row = [e \in Event |-> "none"]
  /\ attempts = [e \in Event |-> 0]
  /\ due = <<>>
  /\ stale = {}
  /\ claim = [w \in Worker |-> [e \in Event |-> 0]]
  /\ answer = [w \in Worker |-> [e \in Event |-> "none"]]
  /\ delivered = {}
  /\ overran = {}
  /\ doomed = {}
  /\ crashes = 0
  /\ requeues = 0

Held(w) == {e \in Event : claim[w][e] > 0}
Holders(e) == {w \in Worker : claim[w][e] > 0}
Without(S) == Kept(due, {i \in DOMAIN due : due[i] \notin S})

LetGo(w) ==
  /\ claim' = [claim EXCEPT ![w] = [e \in Event |-> 0]]
  /\ answer' = [answer EXCEPT ![w] = [e \in Event |-> "none"]]

-----------------------------------------------------------------------------
\* enqueue_realtime_event, with the commit of the request that calls it.
Enqueue(e) ==
  /\ row[e] = "none"
  /\ Holders(e) = {}
  /\ row' = [row EXCEPT ![e] = "pending"]
  /\ due' = Append(due, e)
  /\ delivered' = delivered \ {e}
  /\ overran' = overran \ {e}
  /\ UNCHANGED <<attempts, stale, claim, answer, doomed, crashes, requeues>>

\* The delay of a retry is over.
BecomeDue(e) ==
  /\ row[e] = "retry"
  /\ e \notin Range(due)
  /\ due' = Append(due, e)
  /\ UNCHANGED <<row, attempts, stale, claim, answer, delivered, overran,
                 doomed, crashes, requeues>>

\* 300 seconds have passed since the row was claimed last.
LockTimesOut(e) ==
  /\ row[e] = "publishing"
  /\ e \notin stale
  /\ stale' = stale \cup {e}
  /\ \/ Holders(e) = {} /\ UNCHANGED overran
     \/ /\ Holders(e) # {}
        /\ Cardinality(overran) < MaxOverruns
        /\ e \notin overran
        /\ overran' = overran \cup {e}
  /\ UNCHANGED <<row, attempts, due, claim, answer, delivered, doomed, crashes,
                 requeues>>

ClaimableWhileFresh(e) == row[e] \in Deliverable \cup {"publishing"}
ClaimableNeverStale(e) == row[e] \in Deliverable

Claimable(e) ==
  \/ row[e] \in Deliverable
  \/ row[e] = "publishing" /\ e \in stale

\* The Limit oldest claimable rows, by available_at.
Batch ==
  LET ready == {i \in DOMAIN due : Claimable(due[i])}
  IN  {due[i] : i \in {j \in ready : Cardinality(ready \cap 1 .. j) <= Limit}}

\* Claiming commits before anything is published. Rows another transaction
\* has locked are skipped, so that two workers never claim a row together.
Claim(w) ==
  /\ Held(w) = {}
  /\ Batch # {}
  /\ row' = [e \in Event |-> IF e \in Batch THEN "publishing" ELSE row[e]]
  /\ attempts' = [e \in Event |-> IF e \in Batch THEN attempts[e] + 1
                                                 ELSE attempts[e]]
  /\ stale' = stale \ Batch
  /\ claim' = [claim EXCEPT ![w] =
                 [e \in Event |-> IF e \in Batch THEN attempts[e] + 1 ELSE 0]]
  /\ UNCHANGED <<due, answer, delivered, overran, doomed, crashes, requeues>>

\* publish_realtime_message tries twice; when it answers false the document
\* may have been written all the same.
Publish(w, e) ==
  /\ claim[w][e] > 0
  /\ answer[w][e] = "none"
  /\ \/ /\ answer' = [answer EXCEPT ![w][e] = "ok"]
        /\ delivered' = delivered \cup {e}
     \/ /\ answer' = [answer EXCEPT ![w][e] = "failed"]
        /\ \/ UNCHANGED delivered
           \/ delivered' = delivered \cup {e}
  /\ UNCHANGED <<row, attempts, due, stale, claim, overran, doomed, crashes,
                 requeues>>

VerdictAnswer(w, e) == answer[w][e]

VerdictHopeful(w, e) ==
  IF claim[w][e] >= MaxAttempts THEN "dead" ELSE "published"

VerdictTooEarly(w, e) ==
  CASE answer[w][e] = "ok" -> "published"
    [] answer[w][e] # "ok" /\ claim[w][e] + 1 >= MaxAttempts -> "dead"
    [] OTHER -> "retry"

\* The worker goes by the attempt it claimed, not by what the row says now.
Verdict(w, e) ==
  CASE answer[w][e] = "ok" -> "published"
    [] answer[w][e] # "ok" /\ claim[w][e] >= MaxAttempts -> "dead"
    [] OTHER -> "retry"

\* One commit for the batch, once every message has been answered. A row that
\* is tried again later is no longer due. If a row is gone the commit may fail
\* as a whole, or write the others: that depends on how the driver batches it.
Finish(w) ==
  LET there == {e \in Held(w) : row[e] # "none"}
  IN  /\ Held(w) # {}
      /\ \A e \in Held(w) : answer[w][e] # "none"
      /\ \/ /\ row' = [e \in Event |-> IF e \in there THEN Verdict(w, e)
                                                    ELSE row[e]]
            /\ stale' = stale \ there
            /\ due' = Without(there)
            /\ UNCHANGED crashes
         \/ /\ there # Held(w)
            /\ crashes < MaxCrashes
            /\ crashes' = crashes + 1
            /\ UNCHANGED <<row, stale, due>>
      /\ LetGo(w)
      /\ UNCHANGED <<attempts, delivered, overran, doomed, requeues>>

\* The process dies, or its second commit fails.
Crash(w) ==
  /\ Held(w) # {}
  /\ crashes < MaxCrashes
  /\ crashes' = crashes + 1
  /\ LetGo(w)
  /\ UNCHANGED <<row, attempts, due, stale, delivered, overran, doomed,
                 requeues>>

RequeueTerminal ==
  LET failed == {e \in Event : row[e] \in Terminal}
  IN  /\ requeues < MaxRequeues
      /\ failed # {}
      /\ requeues' = requeues + 1
      /\ row' = [e \in Event |-> IF e \in failed THEN "retry" ELSE row[e]]
      /\ attempts' = [e \in Event |-> IF e \in failed THEN 0 ELSE attempts[e]]
      /\ due' = Without(failed) \o SetToSeq(failed)
      /\ UNCHANGED <<stale, claim, answer, delivered, overran, doomed, crashes>>

\* requeue_failed_realtime_outbox: all that failed is due now.
Requeue ==
  LET failed == {e \in Event : row[e] \in {"dead", "retry"}}
  IN  /\ requeues < MaxRequeues
      /\ failed # {}
      /\ requeues' = requeues + 1
      /\ row' = [e \in Event |-> IF e \in failed THEN "retry" ELSE row[e]]
      /\ attempts' = [e \in Event |-> IF e \in failed THEN 0 ELSE attempts[e]]
      /\ due' = Without(failed) \o SetToSeq(failed)
      /\ UNCHANGED <<stale, claim, answer, delivered, overran, doomed, crashes>>

\* purge_realtime_outbox looks for rows that were closed a day ago or earlier,
\* so that no worker remembers them, and deletes them by id.
PurgeSelects(S) ==
  /\ doomed = {}
  /\ S # {}
  /\ \A e \in S : row[e] \in Terminal /\ Holders(e) = {}
  /\ doomed' = S
  /\ UNCHANGED <<row, attempts, due, stale, claim, answer, delivered, overran,
                 crashes, requeues>>

PurgeDeletes ==
  /\ doomed # {}
  /\ row' = [e \in Event |-> IF e \in doomed THEN "none" ELSE row[e]]
  /\ attempts' = [e \in Event |-> IF e \in doomed THEN 0 ELSE attempts[e]]
  /\ due' = Without(doomed)
  /\ stale' = stale \ doomed
  /\ delivered' = delivered \ doomed
  /\ doomed' = {}
  /\ UNCHANGED <<claim, answer, overran, crashes, requeues>>

-----------------------------------------------------------------------------
Next ==
  \/ \E e \in Event : Enqueue(e) \/ BecomeDue(e) \/ LockTimesOut(e)
  \/ \E w \in Worker : Claim(w) \/ Finish(w) \/ Crash(w)
  \/ \E w \in Worker, e \in Event : Publish(w, e)
  \/ Requeue
  \/ \E S \in SUBSET Event : PurgeSelects(S)
  \/ PurgeDeletes

\* Time passes, the scheduler starts the job every minute, and a run that does
\* not die gets its answers and ends. Nothing else is bound to happen.
Fairness ==
  /\ \A e \in Event : WF_vars(BecomeDue(e)) /\ WF_vars(LockTimesOut(e))
  /\ WF_vars(Claim(Cron))
  /\ \A w \in Worker : WF_vars(Finish(w))
  /\ \A w \in Worker, e \in Event : WF_vars(Publish(w, e))

Spec == Init /\ [][Next]_vars /\ Fairness

-----------------------------------------------------------------------------
\* A row says published only if its document is in Firestore, even when
\* several workers wrote about the row.
PublishedWasDelivered ==
  \A e \in Event : row[e] = "published" => e \in delivered

\* However the job, the endpoint and the background drains overlap, and
\* whoever dies, no two of them publish a row together unless one was slower
\* than the lock timeout.
SoleHolder ==
  \A e \in Event : e \notin overran => Cardinality(Holders(e)) <= 1

\* Unless a worker overran its lock, a row is given up only when its attempts
\* are used up, and every attempt beyond them is one of a worker that died or
\* could not commit.
RetryBudget ==
  \A e \in Event : e \notin overran =>
    /\ row[e] = "dead" => attempts[e] >= MaxAttempts
    /\ attempts[e] <= MaxAttempts + crashes

\* A published row is never taken up again, unless a worker overran its lock.
PublishedUnlessOverran ==
  [][\A e \in Event :
       row[e] = "published" /\ e \notin overran
         => row'[e] \in {"published", "none"}]_vars

\* The claim of drain_realtime_outbox_in_background that overlapping with the
\* job is safe: what one of them published stays published.
PublishedStays ==
  [][\A e \in Event :
       row[e] = "published" => row'[e] \in {"published", "none"}]_vars

\* The claim of test_purge_realtime_outbox_deletes_only_old_terminal_rows: a row
\* that is still to be delivered is never deleted.
PurgesOnlyTerminal ==
  [][\A e \in Event :
       row[e] # "none" /\ row'[e] = "none" => row[e] \in Terminal]_vars

\* Every row is published in the end, or given up where the diagnostics count
\* it: none is forgotten with a worker that died.
EventuallySettled ==
  \A e \in Event :
    row[e] \in Deliverable \cup {"publishing"}
      ~> row[e] \in Terminal \cup {"none"}
=============================================================================
