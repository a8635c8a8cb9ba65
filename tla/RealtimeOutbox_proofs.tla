----------------------- MODULE RealtimeOutbox_proofs -----------------------
(* What RealtimeOutbox keeps for any rows, workers, batches and attempts.  *)
(* The order in which rows are due matters to no property but its type.    *)
EXTENDS RealtimeOutbox, Lists_proofs, FiniteSetTheorems, TLAPS

Shape ==
  /\ row \in [Event -> RowStatus]
  /\ attempts \in [Event -> Nat]
  /\ claim \in [Worker -> [Event -> Nat]]
  /\ answer \in [Worker -> [Event -> {"none", "ok", "failed"}]]
  /\ crashes \in Nat

\* A worker has answers only for rows it holds, a document behind every "ok", and a
\* row that was purged forgets its attempts.
Answers ==
  /\ \A w \in Worker, e \in Event : answer[w][e] # "none" => claim[w][e] > 0
  /\ \A w \in Worker, e \in Event :
       answer[w][e] = "ok" => e \in delivered \/ row[e] = "none"
  /\ \A e \in Event : row[e] = "none" => attempts[e] = 0

\* The row of a held claim is as the claim left it, unless the lock was overrun or
\* the row purged; so it cannot be claimed.
Holding ==
  \A e \in Event : e \notin overran =>
    /\ \A v, w \in Holders(e) : v = w
    /\ \A w \in Holders(e) :
         \/ row[e] = "none"
         \/ row[e] = "publishing" /\ e \notin stale /\ claim[w][e] = attempts[e]

\* A row that waits has an attempt left; one that is publishing and held by nobody
\* has cost a crash.
Budget ==
  \A e \in Event : e \notin overran =>
    /\ row[e] \in Deliverable => attempts[e] < MaxAttempts
    /\ row[e] = "dead" => attempts[e] >= MaxAttempts
    /\ attempts[e] <= MaxAttempts + crashes
    /\ row[e] = "publishing" /\ Holders(e) = {} => attempts[e] < MaxAttempts + crashes

OutboxInv == Shape /\ Answers /\ PublishedWasDelivered /\ Holding /\ Budget

-----------------------------------------------------------------------------
\* A claimed row is claimable (the WHERE of process_realtime_outbox).
LEMMA BatchIsClaimable ==
  \A e \in Batch : Claimable(e)
  BY DEF Batch

LEMMA OutboxStarts == Init => OutboxInv
  BY OutboxConstants
     DEF Init, OutboxInv, Shape, Answers, PublishedWasDelivered, Holding, Budget, Holders,
         RowStatus, Deliverable, Terminal

LEMMA EnqueueKeeps ==
  ASSUME OutboxInv, NEW e \in Event, Enqueue(e)
  PROVE  OutboxInv'
<1>1. Shape'
  BY DEF OutboxInv, Shape, Enqueue, RowStatus, Deliverable, Terminal
<1>2. \A f \in Event : f # e => row'[f] = row[f]
  BY DEF OutboxInv, Shape, Enqueue
<1>3. row[e] = "none" /\ row'[e] = "pending" /\ Holders(e) = {}
  BY DEF OutboxInv, Shape, Enqueue
<1>4. \A f : Holders(f)' = Holders(f)
  BY DEF Enqueue, Holders
<1>5. Answers'
  BY <1>2, <1>3 DEF OutboxInv, Shape, Answers, Enqueue, Holders
<1>6. PublishedWasDelivered'
  BY <1>2, <1>3 DEF OutboxInv, PublishedWasDelivered, Enqueue
<1>7. Holding'
  BY <1>2, <1>3, <1>4 DEF OutboxInv, Holding, Enqueue
<1>8. Budget'
  BY <1>2, <1>3, <1>4, OutboxConstants
     DEF OutboxInv, Shape, Answers, Budget, Enqueue, Deliverable
<1> QED  BY <1>1, <1>5, <1>6, <1>7, <1>8 DEF OutboxInv

LEMMA TimeKeeps ==
  ASSUME OutboxInv, NEW e \in Event, BecomeDue(e) \/ LockTimesOut(e)
  PROVE  OutboxInv'
<1>1. UNCHANGED <<row, attempts, claim, answer, delivered, crashes>>
  BY DEF BecomeDue, LockTimesOut
<1>2. \A f : Holders(f)' = Holders(f)
  BY <1>1 DEF Holders
<1>3. overran \subseteq overran'
  BY DEF BecomeDue, LockTimesOut
<1>4. Shape' /\ Answers' /\ PublishedWasDelivered'
  BY <1>1 DEF OutboxInv, Shape, Answers, PublishedWasDelivered
<1>5. Budget'
  BY <1>1, <1>2, <1>3 DEF OutboxInv, Budget
<1>6. Holding'
  <2>1. \A f \in Event : f \notin overran' /\ f \in stale' /\ f \notin stale => Holders(f) = {}
    BY DEF BecomeDue, LockTimesOut
  <2> QED  BY <2>1, <1>1, <1>2, <1>3 DEF OutboxInv, Holding
<1> QED  BY <1>4, <1>5, <1>6 DEF OutboxInv

LEMMA ClaimKeeps ==
  ASSUME OutboxInv, NEW w \in Worker, Claim(w)
  PROVE  OutboxInv'
<1>1. \A e \in Event : Claimable(e) \/ e \notin Batch
  BY BatchIsClaimable
<1> DEFINE B == Batch
<1>2. \A e \in Event : /\ row'[e] = IF e \in B THEN "publishing" ELSE row[e]
                       /\ attempts'[e] = IF e \in B THEN attempts[e] + 1 ELSE attempts[e]
                       /\ claim'[w][e] = IF e \in B THEN attempts[e] + 1 ELSE 0
                       /\ \A v \in Worker : v # w => claim'[v][e] = claim[v][e]
                       /\ claim[w][e] = 0 /\ answer[w][e] = "none"
  BY DEF Claim, OutboxInv, Shape, Held, Answers
<1>3. /\ stale' = stale \ B
      /\ UNCHANGED <<answer, delivered, overran, crashes>>
  BY DEF Claim
<1>4. Shape'
  BY DEF Claim, OutboxInv, Shape, RowStatus
<1>5. \A e \in Event : e \in B => row[e] # "none" /\ row[e] # "published" /\ row[e] # "dead"
  BY <1>1 DEF Claimable, Deliverable
<1> HIDE DEF B
<1>6. Answers'
  BY <1>2, <1>3, <1>5 DEF OutboxInv, Shape, Answers
<1>7. PublishedWasDelivered'
  BY <1>2, <1>3 DEF OutboxInv, PublishedWasDelivered
<1>8. \A e \in Event : e \in B /\ e \notin overran => Holders(e) = {}
  BY <1>1, <1>5 DEF OutboxInv, Holding, Claimable, Deliverable, B
<1>9. \A e \in Event : e \notin B => Holders(e)' = Holders(e)
  BY <1>2 DEF Holders
<1>10. \A e \in Event : e \in B /\ e \notin overran => Holders(e)' = {w}
  BY <1>2, <1>8 DEF Holders, OutboxInv, Shape
<1>11. Holding'
  BY <1>2, <1>3, <1>9, <1>10 DEF OutboxInv, Holding, Holders
<1>12. \A e \in Event : e \in B /\ e \notin overran => attempts[e] < MaxAttempts + crashes
  BY <1>1, <1>8, OutboxConstants
     DEF OutboxInv, Shape, Budget, Claimable, Deliverable, B
<1>13. Budget'
  <2> SUFFICES ASSUME NEW e \in Event, e \notin overran
               PROVE  /\ row'[e] \in Deliverable => attempts'[e] < MaxAttempts
                      /\ row'[e] = "dead" => attempts'[e] >= MaxAttempts
                      /\ attempts'[e] <= MaxAttempts + crashes
                      /\ row'[e] = "publishing" /\ Holders(e)' = {}
                           => attempts'[e] < MaxAttempts + crashes
    BY <1>3 DEF Budget
  <2>1. CASE e \in B
    <3>1. row'[e] = "publishing" /\ attempts'[e] = attempts[e] + 1 /\ Holders(e)' # {}
      BY <2>1, <1>2, <1>10
    <3>2. attempts[e] < MaxAttempts + crashes
      BY <2>1, <1>12
    <3> QED  BY <3>1, <3>2, OutboxConstants DEF OutboxInv, Shape, Deliverable
  <2>2. CASE e \notin B
    BY <2>2, <1>2, <1>9 DEF OutboxInv, Budget
  <2> QED  BY <2>1, <2>2
<1> QED  BY <1>4, <1>6, <1>7, <1>11, <1>13 DEF OutboxInv

LEMMA PublishKeeps ==
  ASSUME OutboxInv, NEW w \in Worker, NEW e \in Event, Publish(w, e)
  PROVE  OutboxInv'
<1>1. UNCHANGED <<row, attempts, stale, claim, overran, crashes>> /\ delivered \subseteq delivered'
  BY DEF Publish
<1>2. \A f : Holders(f)' = Holders(f)
  BY <1>1 DEF Holders
<1>3. PICK a \in {"ok", "failed"} : /\ answer' = [answer EXCEPT ![w][e] = a]
                                    /\ a = "ok" => e \in delivered'
  <2>1. CASE answer' = [answer EXCEPT ![w][e] = "ok"] /\ delivered' = delivered \cup {e}
    BY <2>1
  <2>2. CASE answer' = [answer EXCEPT ![w][e] = "failed"]
    BY <2>2
  <2> QED  BY <2>1, <2>2 DEF Publish
<1>4. /\ answer' \in [Worker -> [Event -> {"none", "ok", "failed"}]]
      /\ \A v \in Worker, f \in Event :
           answer'[v][f] = IF v = w /\ f = e THEN a ELSE answer[v][f]
  BY <1>3 DEF OutboxInv, Shape
<1>5. Shape'
  BY <1>1, <1>4 DEF OutboxInv, Shape
<1>6. Answers'
  <2>1. claim[w][e] > 0
    BY DEF Publish
  <2>2. ASSUME NEW v \in Worker, NEW f \in Event
        PROVE  /\ answer'[v][f] # "none" => claim[v][f] > 0
               /\ answer'[v][f] = "ok" => f \in delivered' \/ row[f] = "none"
    <3>1. CASE v = w /\ f = e
      BY <2>1, <3>1, <1>3, <1>4
    <3>2. CASE ~(v = w /\ f = e)
      BY <3>2, <1>1, <1>4 DEF OutboxInv, Answers
    <3> QED  BY <3>1, <3>2
  <2>3. UNCHANGED <<row, attempts, claim>>
    BY <1>1
  <2> QED  BY <2>2, <2>3 DEF OutboxInv, Answers
<1>7. PublishedWasDelivered' /\ Holding' /\ Budget'
  BY <1>1, <1>2 DEF OutboxInv, PublishedWasDelivered, Holding, Budget
<1> QED  BY <1>5, <1>6, <1>7 DEF OutboxInv

\* A worker that lets go holds nothing; the others hold what they held.
LEMMA LettingGo ==
  ASSUME OutboxInv, NEW w \in Worker, LetGo(w)
  PROVE  /\ claim' \in [Worker -> [Event -> Nat]]
         /\ answer' \in [Worker -> [Event -> {"none", "ok", "failed"}]]
         /\ \A e \in Event : Holders(e)' = Holders(e) \ {w}
         /\ \A e \in Event, v \in Worker :
              \/ v # w /\ claim'[v][e] = claim[v][e] /\ answer'[v][e] = answer[v][e]
              \/ v = w /\ claim'[v][e] = 0 /\ answer'[v][e] = "none"
<1>1. /\ claim' \in [Worker -> [Event -> Nat]]
      /\ answer' \in [Worker -> [Event -> {"none", "ok", "failed"}]]
  BY DEF OutboxInv, Shape, LetGo
<1>2. \A e \in Event, v \in Worker :
         \/ v # w /\ claim'[v][e] = claim[v][e] /\ answer'[v][e] = answer[v][e]
         \/ v = w /\ claim'[v][e] = 0 /\ answer'[v][e] = "none"
  BY DEF OutboxInv, Shape, LetGo
<1>3. \A e \in Event : Holders(e)' = Holders(e) \ {w}
  <2> SUFFICES ASSUME NEW e \in Event PROVE Holders(e)' = Holders(e) \ {w}
    OBVIOUS
  <2>1. \A v : v \in Holders(e)' <=> v \in Holders(e) \ {w}
    BY <1>1, <1>2 DEF OutboxInv, Shape, Holders
  <2> QED  BY <2>1
<1> QED  BY <1>1, <1>2, <1>3

\* Letting go with a crash leaves every row for a later worker.
LEMMA DroppingKeeps ==
  ASSUME OutboxInv, NEW w \in Worker, LetGo(w), crashes' = crashes + 1,
         UNCHANGED <<row, attempts, stale, delivered, overran>>
  PROVE  OutboxInv'
<1>1. Shape'
  BY LettingGo DEF OutboxInv, Shape
<1>2. Answers' /\ PublishedWasDelivered'
  BY LettingGo DEF OutboxInv, Answers, PublishedWasDelivered
<1>3. Holding'
  <2>1. \A e \in Event : \A v \in Holders(e)' : v \in Holders(e) /\ claim'[v][e] = claim[v][e]
    BY LettingGo DEF Holders
  <2> QED  BY <2>1 DEF OutboxInv, Holding
<1>4. Budget'
  <2> SUFFICES ASSUME NEW e \in Event, e \notin overran
               PROVE  /\ row[e] \in Deliverable => attempts[e] < MaxAttempts
                      /\ row[e] = "dead" => attempts[e] >= MaxAttempts
                      /\ attempts[e] < MaxAttempts + (crashes + 1)
    BY OutboxConstants DEF Budget, OutboxInv, Shape
  <2> QED  BY OutboxConstants DEF OutboxInv, Shape, Budget
<1> QED  BY <1>1, <1>2, <1>3, <1>4 DEF OutboxInv

\* The second commit writes the rows that are still there.
LEMMA SettlingKeeps ==
  ASSUME OutboxInv, NEW w \in Worker, LetGo(w),
         \A e \in Held(w) : answer[w][e] # "none",
         UNCHANGED <<attempts, delivered, overran, crashes>>,
         row' = [e \in Event |-> IF e \in {f \in Held(w) : row[f] # "none"}
                                 THEN Verdict(w, e) ELSE row[e]],
         stale' = stale \ {f \in Held(w) : row[f] # "none"}
  PROVE  OutboxInv'
<1> DEFINE There == {f \in Held(w) : row[f] # "none"}
<1>1. \A e \in Event : row'[e] = IF e \in There THEN Verdict(w, e) ELSE row[e]
  OBVIOUS
<1>2. \A e \in Event :
        \/ Verdict(w, e) = "published" /\ answer[w][e] = "ok"
        \/ Verdict(w, e) = "dead" /\ claim[w][e] >= MaxAttempts
        \/ Verdict(w, e) = "retry" /\ ~(claim[w][e] >= MaxAttempts)
  BY DEF Verdict
<1>3. \A e \in There : e \in Event /\ w \in Holders(e) /\ row[e] # "none" /\ claim[w][e] > 0
  BY DEF Held, Holders
<1>4. \A e \in Event : w \in Holders(e) => e \in There \/ row[e] = "none"
  BY DEF Held, Holders
<1>5. \A e \in There : row'[e] # "none"
  BY <1>1, <1>2, <1>3
<1> HIDE DEF There
<1>6. Shape'
  BY <1>1, <1>2, <1>3, LettingGo DEF OutboxInv, Shape, RowStatus, Deliverable, Terminal
<1>7. Answers'
  <2>1. \A e \in Event : row'[e] = "none" <=> row[e] = "none"
    BY <1>1, <1>3, <1>5
  <2>2. \A e \in Event, v \in Worker :
          answer'[v][e] # "none" => answer'[v][e] = answer[v][e] /\ claim'[v][e] = claim[v][e]
    BY LettingGo
  <2> QED  BY <2>1, <2>2 DEF OutboxInv, Answers
<1>8. PublishedWasDelivered'
  BY <1>1, <1>2, <1>3 DEF OutboxInv, Answers, PublishedWasDelivered
<1>9. \A e \in There : e \notin overran =>
        /\ claim[w][e] = attempts[e] /\ row[e] = "publishing"
        /\ Holders(e) = {w} /\ Holders(e)' = {}
  BY <1>3, LettingGo DEF OutboxInv, Holding
<1>10. Holding'
  <2> SUFFICES ASSUME NEW e \in Event, e \notin overran', Holders(e)' # {}
               PROVE  /\ \A u, v \in Holders(e)' : u = v
                      /\ \A v \in Holders(e)' :
                           \/ row'[e] = "none"
                           \/ /\ row'[e] = "publishing" /\ e \notin stale'
                              /\ claim'[v][e] = attempts'[e]
    BY DEF Holding
  <2>1. e \notin There /\ row'[e] = row[e]
    BY <1>1, <1>9
  <2>2. \A v \in Holders(e)' : v \in Holders(e) /\ claim'[v][e] = claim[v][e]
    BY LettingGo DEF Holders
  <2>3. stale' \subseteq stale
    OBVIOUS
  <2> QED  BY <2>1, <2>2, <2>3 DEF OutboxInv, Holding
<1>11. Budget'
  <2> SUFFICES ASSUME NEW e \in Event, e \notin overran'
               PROVE  /\ row'[e] \in Deliverable => attempts'[e] < MaxAttempts
                      /\ row'[e] = "dead" => attempts'[e] >= MaxAttempts
                      /\ attempts'[e] <= MaxAttempts + crashes'
                      /\ row'[e] = "publishing" /\ Holders(e)' = {}
                           => attempts'[e] < MaxAttempts + crashes'
    BY DEF Budget
  <2>1. CASE e \in There
    BY <2>1, <1>1, <1>2, <1>9, OutboxConstants DEF OutboxInv, Shape, Budget, Deliverable
  <2>2. CASE e \notin There
    <3>1. row[e] = "none" \/ w \notin Holders(e)
      BY <2>2, <1>4
    <3>2. row'[e] = row[e] /\ (row[e] = "none" \/ Holders(e)' = Holders(e))
      <4>1. Holders(e)' = Holders(e) \ {w}
        BY LettingGo
      <4> QED  BY <4>1, <3>1, <2>2, <1>1
    <3> QED  BY <3>2 DEF OutboxInv, Budget
  <2> QED  BY <2>1, <2>2
<1> QED  BY <1>6, <1>7, <1>8, <1>10, <1>11 DEF OutboxInv

LEMMA WorkerEnds ==
  ASSUME OutboxInv, NEW w \in Worker, Finish(w) \/ Crash(w)
  PROVE  OutboxInv'
<1>1. CASE Crash(w)
  BY <1>1, DroppingKeeps DEF Crash
<1>2. CASE Finish(w) /\ crashes' = crashes + 1 /\ UNCHANGED <<row, stale, due>>
  BY <1>2, DroppingKeeps DEF Finish
<1>3. CASE Finish(w) /\ ~(crashes' = crashes + 1 /\ UNCHANGED <<row, stale, due>>)
  BY <1>3, SettlingKeeps DEF Finish
<1> QED  BY <1>1, <1>2, <1>3

LEMMA RequeueKeeps ==
  ASSUME OutboxInv, Requeue
  PROVE  OutboxInv'
<1> DEFINE Failed == {e \in Event : row[e] \in {"dead", "retry"}}
<1>1. \A e \in Event :
        /\ row'[e] = IF e \in Failed THEN "retry" ELSE row[e]
        /\ attempts'[e] = IF e \in Failed THEN 0 ELSE attempts[e]
  BY DEF Requeue
<1>2. UNCHANGED <<stale, claim, answer, delivered, overran, crashes>>
  BY DEF Requeue
<1>3. \A f : Holders(f)' = Holders(f)
  BY <1>2 DEF Holders
<1>4. Shape'
  BY <1>2 DEF Requeue, OutboxInv, Shape, RowStatus, Deliverable
<1>5. Answers' /\ PublishedWasDelivered'
  BY <1>1, <1>2 DEF OutboxInv, Answers, PublishedWasDelivered
<1>6. Holding'
  BY <1>1, <1>2, <1>3 DEF OutboxInv, Holding
<1>7. Budget'
  BY <1>1, <1>2, <1>3, OutboxConstants DEF OutboxInv, Shape, Budget, Deliverable
<1> QED  BY <1>4, <1>5, <1>6, <1>7 DEF OutboxInv

LEMMA PurgeKeeps ==
  ASSUME OutboxInv, PurgeDeletes
  PROVE  OutboxInv'
<1>1. \A e \in Event :
        /\ row'[e] = IF e \in doomed THEN "none" ELSE row[e]
        /\ attempts'[e] = IF e \in doomed THEN 0 ELSE attempts[e]
  BY DEF PurgeDeletes
<1>2. /\ UNCHANGED <<claim, answer, overran, crashes>>
      /\ stale' \subseteq stale /\ delivered' = delivered \ doomed
  BY DEF PurgeDeletes
<1>3. \A f : Holders(f)' = Holders(f)
  BY <1>2 DEF Holders
<1>4. Shape'
  BY <1>2 DEF PurgeDeletes, OutboxInv, Shape, RowStatus
<1>5. Answers' /\ PublishedWasDelivered'
  BY <1>1, <1>2 DEF OutboxInv, Answers, PublishedWasDelivered
<1>6. Holding'
  BY <1>1, <1>2, <1>3 DEF OutboxInv, Holding
<1>7. Budget'
  BY <1>1, <1>2, <1>3, OutboxConstants DEF OutboxInv, Shape, Budget, Deliverable
<1> QED  BY <1>4, <1>5, <1>6, <1>7 DEF OutboxInv

LEMMA OutboxStep ==
  OutboxInv /\ [Next]_vars => OutboxInv'
<1> SUFFICES ASSUME OutboxInv, [Next]_vars PROVE OutboxInv'
  OBVIOUS
<1>1. CASE \E e \in Event : Enqueue(e) \/ BecomeDue(e) \/ LockTimesOut(e)
  BY <1>1, EnqueueKeeps, TimeKeeps
<1>2. CASE \E w \in Worker : Claim(w) \/ Finish(w) \/ Crash(w)
  BY <1>2, ClaimKeeps, WorkerEnds
<1>3. CASE \E w \in Worker, e \in Event : Publish(w, e)
  BY <1>3, PublishKeeps
<1>4. CASE Requeue
  BY <1>4, RequeueKeeps
<1>5. CASE PurgeDeletes
  BY <1>5, PurgeKeeps
<1>6. CASE UNCHANGED vars \/ \E S \in SUBSET Event : PurgeSelects(S)
  BY <1>6 DEF vars, PurgeSelects, OutboxInv, Shape, Answers, PublishedWasDelivered, Holding,
              Budget, Holders
<1> QED  BY <1>1, <1>2, <1>3, <1>4, <1>5, <1>6 DEF Next

-----------------------------------------------------------------------------
\* The parts hold together, whatever workers overlap, die or are slow.
THEOREM OutboxInvariant == Spec => []OutboxInv
  BY OutboxStarts, OutboxStep, PTL DEF Spec

\* A row says published only if Firestore has its document.
THEOREM PublishedAreDelivered == Spec => []PublishedWasDelivered
<1>1. OutboxInv => PublishedWasDelivered
  BY DEF OutboxInv
<1> QED  BY <1>1, OutboxInvariant, PTL

\* No two workers hold one row, unless one of them overran its lock.
THEOREM OneHolder == Spec => []SoleHolder
<1>1. OutboxInv => SoleHolder
  <2> SUFFICES ASSUME OutboxInv, NEW e \in Event, e \notin overran
               PROVE  Cardinality(Holders(e)) <= 1
    BY DEF SoleHolder
  <2>1. CASE Holders(e) = {}
    BY <2>1, FS_EmptySet
  <2>2. CASE Holders(e) # {}
    <3>1. PICK w \in Holders(e) : Holders(e) = {w}
      BY <2>2 DEF OutboxInv, Holding
    <3> QED  BY <3>1, FS_Singleton
  <2> QED  BY <2>1, <2>2
<1> QED  BY <1>1, OutboxInvariant, PTL

\* A row is given up with its attempts used up, and attempts beyond them are those
\* of workers that died.
THEOREM AttemptsAreBounded == Spec => []RetryBudget
<1>1. OutboxInv => RetryBudget
  BY DEF OutboxInv, Budget, RetryBudget
<1> QED  BY <1>1, OutboxInvariant, PTL

\* What was published stays so, or is purged, unless a worker overran its lock: a late
\* commit of another worker or a new claim cannot reach the row.
THEOREM PublishedIsFinal == Spec => PublishedUnlessOverran
<1> DEFINE Final == \A e \in Event :
                      row[e] = "published" /\ e \notin overran
                        => row'[e] \in {"published", "none"}
<1>1. ASSUME OutboxInv, [Next]_vars PROVE [Final]_vars
  <2> SUFFICES ASSUME NEW e \in Event, row[e] = "published", e \notin overran
               PROVE  row'[e] \in {"published", "none"}
    BY DEF vars
  <2>1. row \in [Event -> RowStatus]
    BY <1>1 DEF OutboxInv, Shape
  <2>2. CASE \E f \in Event : Enqueue(f)
    BY <2>1, <2>2 DEF Enqueue
  <2>3. ASSUME NEW w \in Worker, Claim(w) PROVE row'[e] = "published"
    <3>1. e \notin Batch
      BY BatchIsClaimable DEF Claimable, Deliverable
    <3> QED  BY <2>3, <3>1 DEF Claim
  <2>4. ASSUME NEW w \in Worker, Finish(w) PROVE row'[e] = "published"
    <3>1. e \notin Held(w)
      BY <1>1 DEF OutboxInv, Holding, Held, Holders
    <3> QED  BY <2>1, <2>4, <3>1 DEF Finish
  <2>5. CASE Requeue
    BY <2>5 DEF Requeue
  <2>6. CASE PurgeDeletes
    BY <2>6 DEF PurgeDeletes
  <2>7. CASE UNCHANGED row
    BY <2>7
  <2> QED
    BY <1>1, <2>2, <2>3, <2>4, <2>5, <2>6, <2>7
       DEF Next, vars, BecomeDue, LockTimesOut, Crash, Publish, PurgeSelects
<1>2. Spec => [][Final]_vars
  BY <1>1, OutboxInvariant, PTL DEF Spec
<1> QED  BY <1>2 DEF PublishedUnlessOverran

-----------------------------------------------------------------------------
(* Types.                                                                  *)

\* However many places there are, finitely many rows exist: only so can a request to
\* requeue list the failed ones.
TableOK == TypeOK /\ IsFiniteSet({e \in Event : row[e] # "none"})

LEMMA TableStarts == Init => TableOK
<1> SUFFICES ASSUME Init PROVE TableOK
  OBVIOUS
<1>1. {e \in Event : row[e] # "none"} = {}
  BY DEF Init
<1>2. TypeOK
  BY OutboxConstants DEF Init, TypeOK, RowStatus, Deliverable, Terminal
<1> QED  BY <1>1, <1>2, FS_EmptySet DEF TableOK

\* No row but an enqueued one comes to exist.
LEMMA FewerRows ==
  ASSUME TableOK, \A e \in Event : row[e] = "none" => row'[e] = "none"
  PROVE  IsFiniteSet({e \in Event : row'[e] # "none"})
<1>1. {e \in Event : row'[e] # "none"} \subseteq {e \in Event : row[e] # "none"}
  OBVIOUS
<1> QED  BY <1>1, FS_Subset DEF TableOK

LEMMA WithoutIsList ==
  ASSUME TypeOK, NEW S PROVE Without(S) \in Seq(Event)
<1> DEFINE K == {i \in DOMAIN due : due[i] \notin S}
<1>1. due \in Seq(Event) /\ K \in SUBSET DOMAIN due
  BY DEF TypeOK
<1> HIDE DEF K
<1>2. Kept(due, K) \in Seq(Event)
  BY <1>1, KeptIsList
<1> QED  BY <1>2 DEF Without, K

LEMMA RequeuedIsList ==
  ASSUME TableOK, NEW S \in SUBSET Event, \A e \in S : row[e] # "none"
  PROVE  Without(S) \o SetToSeq(S) \in Seq(Event)
<1>1. IsFiniteSet(S)
  <2>1. S \in SUBSET {e \in Event : row[e] # "none"}
    OBVIOUS
  <2> QED  BY <2>1, FS_Subset DEF TableOK
<1>2. SetToSeq(S) \in Seq(S)
  BY <1>1, Listing
<1>3. SetToSeq(S) \in Seq(Event)
  BY <1>2
<1>4. Without(S) \in Seq(Event)
  BY WithoutIsList DEF TableOK
<1> QED  BY <1>3, <1>4

LEMMA RowsKeepTypes ==
  ASSUME TableOK, NEW e \in Event, Enqueue(e) \/ BecomeDue(e) \/ LockTimesOut(e)
  PROVE  TableOK'
<1>1. TypeOK
  BY DEF TableOK
<1>2. CASE Enqueue(e)
  <2>1. TypeOK'
    BY <1>1, <1>2 DEF TypeOK, Enqueue, RowStatus, Deliverable
  <2>2. {f \in Event : row'[f] # "none"} = {f \in Event : row[f] # "none"} \cup {e}
    BY <1>1, <1>2 DEF TypeOK, Enqueue
  <2>3. IsFiniteSet({f \in Event : row[f] # "none"})
    BY DEF TableOK
  <2> QED  BY <2>1, <2>2, <2>3, FS_AddElement DEF TableOK
<1>3. CASE BecomeDue(e)
  BY <1>1, <1>3, FewerRows DEF TypeOK, BecomeDue, TableOK
<1>4. CASE LockTimesOut(e)
  BY <1>1, <1>4, FewerRows DEF TypeOK, LockTimesOut, TableOK
<1> QED  BY <1>2, <1>3, <1>4

LEMMA WorkersKeepTypes ==
  ASSUME TableOK, NEW w \in Worker,
         Claim(w) \/ Finish(w) \/ Crash(w) \/ \E e \in Event : Publish(w, e)
  PROVE  TableOK'
<1>1. TypeOK
  BY DEF TableOK
<1>2. CASE Claim(w)
  <2>1. Batch \subseteq {e \in Event : row[e] # "none"}
    <3>1. Batch \subseteq Event
      <4>1. \A i \in DOMAIN due : due[i] \in Event
        BY <1>1 DEF TypeOK
      <4> QED  BY <4>1 DEF Batch
    <3> QED  BY <3>1, BatchIsClaimable DEF Claimable, Deliverable
  <2> DEFINE B == Batch
  <2>2. /\ row' = [e \in Event |-> IF e \in B THEN "publishing" ELSE row[e]]
        /\ attempts' = [e \in Event |-> IF e \in B THEN attempts[e] + 1 ELSE attempts[e]]
        /\ stale' = stale \ B
        /\ claim' = [claim EXCEPT ![w] = [e \in Event |-> IF e \in B THEN attempts[e] + 1 ELSE 0]]
        /\ UNCHANGED <<due, answer, delivered, overran, doomed, crashes, requeues>>
    BY <1>2 DEF Claim
  <2> HIDE DEF B
  <2>3. TypeOK'
    BY <1>1, <2>2 DEF TypeOK, RowStatus
  <2>4. \A e \in Event : row[e] = "none" => row'[e] = "none"
    BY <2>1, <2>2 DEF B
  <2> QED  BY <2>3, <2>4, FewerRows DEF TableOK
<1>3. ASSUME NEW e \in Event, Publish(w, e) PROVE TableOK'
  <2>1. PICK a \in {"ok", "failed"} : answer' = [answer EXCEPT ![w][e] = a]
    BY <1>3 DEF Publish
  <2>2. answer' \in [Worker -> [Event -> {"none", "ok", "failed"}]]
    BY <1>1, <2>1 DEF TypeOK
  <2>3. delivered' \subseteq Event
    BY <1>1, <1>3 DEF TypeOK, Publish
  <2>4. UNCHANGED <<row, attempts, due, stale, claim, overran, doomed, crashes, requeues>>
    BY <1>3 DEF Publish
  <2>5. TypeOK'
    BY <1>1, <2>2, <2>3, <2>4 DEF TypeOK
  <2> QED  BY <2>4, <2>5, FewerRows DEF TableOK
<1>4. ASSUME LetGo(w)
      PROVE  /\ claim' \in [Worker -> [Event -> Nat]]
             /\ answer' \in [Worker -> [Event -> {"none", "ok", "failed"}]]
  BY <1>1, <1>4 DEF LetGo, TypeOK
<1>5. CASE Crash(w)
  <2>1. crashes' \in 0 .. MaxCrashes
    BY <1>1, <1>5, OutboxConstants DEF TypeOK, Crash
  <2>2. UNCHANGED <<row, attempts, due, stale, delivered, overran, doomed, requeues>>
    BY <1>5 DEF Crash
  <2>3. TypeOK'
    BY <1>1, <1>4, <1>5, <2>1, <2>2 DEF TypeOK, Crash
  <2> QED  BY <2>2, <2>3, FewerRows DEF TableOK
<1>6. CASE Finish(w)
  <2> DEFINE There == {e \in Held(w) : row[e] # "none"}
  <2>1. crashes' \in 0 .. MaxCrashes
    BY <1>1, <1>6, OutboxConstants DEF TypeOK, Finish
  <2>2. due' \in Seq(Event) /\ stale' \subseteq Event
    <3>1. due' = due \/ due' = Without(There)
      BY <1>6 DEF Finish
    <3>2. Without(There) \in Seq(Event)
      BY <1>1, WithoutIsList
    <3> QED  BY <1>1, <1>6, <3>1, <3>2 DEF TypeOK, Finish
  <2>3. row' \in [Event -> RowStatus] /\ \A e \in Event : row[e] = "none" => row'[e] = "none"
    <3>1. \A e \in Event : Verdict(w, e) \in RowStatus
      BY DEF Verdict, RowStatus, Deliverable, Terminal
    <3>2. \/ UNCHANGED row
          \/ row' = [e \in Event |-> IF e \in There THEN Verdict(w, e) ELSE row[e]]
      BY <1>6 DEF Finish
    <3> QED  BY <1>1, <3>1, <3>2 DEF TypeOK
  <2>4. LetGo(w) /\ UNCHANGED <<attempts, delivered, overran, doomed, requeues>>
    BY <1>6 DEF Finish
  <2>5. TypeOK'
    BY <1>1, <1>4, <2>1, <2>2, <2>3, <2>4 DEF TypeOK
  <2> QED  BY <2>3, <2>5, FewerRows DEF TableOK
<1> QED  BY <1>2, <1>3, <1>5, <1>6

LEMMA RequeueKeepsTypes ==
  ASSUME TableOK, Requeue PROVE TableOK'
<1> DEFINE failed == {e \in Event : row[e] \in {"dead", "retry"}}
<1>1. TypeOK
  BY DEF TableOK
<1>2. due' \in Seq(Event)
  <2>1. due' = Without(failed) \o SetToSeq(failed)
    BY DEF Requeue
  <2>2. failed \in SUBSET Event /\ \A e \in failed : row[e] # "none"
    OBVIOUS
  <2> HIDE DEF failed
  <2> QED  BY <2>1, <2>2, RequeuedIsList
<1>3. /\ row' \in [Event -> RowStatus] /\ attempts' \in [Event -> Nat]
      /\ \A e \in Event : row[e] = "none" => row'[e] = "none"
  BY <1>1 DEF Requeue, TypeOK, RowStatus, Deliverable
<1>4. requeues' \in 0 .. MaxRequeues
  BY <1>1, OutboxConstants DEF Requeue, TypeOK
<1>5. UNCHANGED <<stale, claim, answer, delivered, overran, doomed, crashes>>
  BY DEF Requeue
<1>6. TypeOK'
  BY <1>1, <1>2, <1>3, <1>4, <1>5 DEF TypeOK
<1> QED  BY <1>3, <1>6, FewerRows DEF TableOK

LEMMA PurgeKeepsTypes ==
  ASSUME TableOK, PurgeDeletes \/ \E S \in SUBSET Event : PurgeSelects(S)
  PROVE  TableOK'
<1>1. TypeOK
  BY DEF TableOK
<1>2. CASE PurgeDeletes
  <2>1. due' \in Seq(Event)
    BY <1>1, <1>2, WithoutIsList DEF PurgeDeletes
  <2>2. /\ row' \in [Event -> RowStatus] /\ attempts' \in [Event -> Nat]
        /\ \A e \in Event : row[e] = "none" => row'[e] = "none"
    BY <1>1, <1>2 DEF PurgeDeletes, TypeOK, RowStatus
  <2>3. TypeOK'
    BY <1>1, <1>2, <2>1, <2>2 DEF TypeOK, PurgeDeletes
  <2> QED  BY <2>2, <2>3, FewerRows DEF TableOK
<1>3. ASSUME NEW S \in SUBSET Event, PurgeSelects(S) PROVE TableOK'
  BY <1>1, <1>3, FewerRows DEF PurgeSelects, TypeOK, TableOK
<1> QED  BY <1>2, <1>3

LEMMA TableStep == TableOK /\ [Next]_vars => TableOK'
<1> SUFFICES ASSUME TableOK, [Next]_vars PROVE TableOK'
  OBVIOUS
<1>1. CASE UNCHANGED vars
  BY <1>1, FewerRows DEF vars, TableOK, TypeOK
<1> QED
  BY <1>1, RowsKeepTypes, WorkersKeepTypes, RequeueKeepsTypes, PurgeKeepsTypes DEF Next

\* The table, the batches and the queue of what is due keep their types.
THEOREM OutboxTypes == Spec => []TypeOK
<1>1. TableOK => TypeOK
  BY DEF TableOK
<1> QED  BY <1>1, TableStarts, TableStep, PTL DEF Spec
=============================================================================
