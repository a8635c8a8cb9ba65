# Kresco: a TLA+ model of the web application and its backend

TLA+ modules for the parts of Kresco whose correctness depends on what happens
in between: between two database commits in the backend (`src/backend/app`), and
between a request and its answer, a page and its reload, one tab and another in
the web application (`src/frontend`). The modules are checked with TLC on small
instances; the theorems of the eight `*_proofs` modules are proved with TLAPS for
every instance.

## 1. The system

Kresco is a learning platform. A FastAPI application serves a Next.js client.
The server's whole state is a PostgreSQL database, with Firestore for messages to
browsers, VdoCipher for video and CMI for card payments. Every request is an
asynchronous handler with a database session of its own: handlers interleave at
every commit and at every row lock, and run under READ COMMITTED. A job starts
once a minute to deliver realtime events. The client keeps state in four places
with four lifetimes: a component's refs and hooks (until it is unmounted; going
to another lesson or conversation does not unmount it), the SWR caches and the
zustand store (until a full load), `localStorage` (shared by the tabs of a
browser) and cookies (one jar per host).

### Backend

| component | state | operations | hard behaviour |
|---|---|---|---|
| Payment requests (`payment_gateway.py`) | `payment_transactions`, `payment_provider_events`, `payment_transaction_proofs`, `finance_ledger_entries`, `User.is_pro` | create, upload proof, approve, reject, reconcile, CMI callback, read current request, expire | racing decisions, expiry by unlocked readers, callbacks that come again, references used twice |
| Reconciliation imports (same file) | `payment_reconciliation_imports`, `..._rows` | import a report row by row | several commits per row, crashes in between, two imports of one report |
| Refund requests (`refund_requests.py`) | `refund_requests`, ledger | create, review | two reviewers, unlocked read of the payment |
| Subject access (`payment_entitlements.py`, `manual_access_grants.py`, `access.py`) | `user_subject_entitlements`, `manual_access_grants` | grant by payment, grant and revoke by staff, read | payments and staff interleave without locks, time passes |
| Realtime outbox (`realtime_outbox.py`, `scheduled.py`, `routers/internal.py`) | `realtime_outbox`, Firestore | enqueue, claim, publish, write results, requeue, purge | overlapping, dying and slow workers |
| XP (`xp.py`, `xp_adjustments.py`, `daily_quests.py`) | `user_xp`, `xp_transactions`, `xp_daily_cap_usage`, `daily_quests` | award, adjust, claim a quest | idempotency keys, caps, midnight |
| Quiz submission (`quiz_attempt_submission.py` and what it calls) | attempts, mistake notebook, concept mastery | submit | repeated submissions, first attempt against retry |
| Exercise and exam banks, course progress, live session lifecycle | progress rows, VdoCipher streams | attempt, watch, start, end | rows created on demand, a remote stream |
| Authentication, rate limits, permissions, reports, read models, media | tokens, caches, files | | little state of the domain |

### Web application, with the handlers it talks to

| component | state | operations | hard behaviour |
|---|---|---|---|
| Course studio (`StudioBoard.tsx`, `lib/studioDiff.ts`, `lib/studioProject.ts`; `professor_change_apply.py`, `admin_change_requests.py`) | the edited tree, change requests and their operations, the course's tables | edit, submit, withdraw, reopen, replace, review in part, apply | diff and replay of trees, operations that refer to each other, any subset approved |
| Whiteboard (`useTopicWhiteboard.ts`, `TopicWorkspaceWhiteboard.tsx`; `interaction_mutations.py`) | scene, draft, document with a version | load, draw, autosave, leave | crashes, two tabs or browsers, lost answers, optimistic versions |
| Navigation (`proxy.ts`, `AuthGuard.tsx`, `GuestGuard.tsx`, `lib/store.ts`, `lib/authSession.ts`) | cookies and snapshots per host, client store, page and stage of its guard | sign in, sign out, onboard, go anywhere | three parties redirect on different evidence, sessions end elsewhere |
| Chat pages (student's and professor's; `professor_chat_mutations.py`) | cached lists, requests, channel | send, retry, edit, delete, switch, refresh, poll | optimistic changes against refreshes and events |
| Live room (both pages, `lib/liveSessionData.ts`; `professor_live_interactions.py`) | cached list, feed, channel | post, answer, take back, poll | merged reads, events and answers in any order |
| Exam page (`exam/[subjectId]/page.tsx`, `lib/examDraft.ts`) | answers, draft, timer, submissions | start, choose, submit, reload, time up | reloads, failures, an edited quiz |
| Video progress (`useVideoProgress.ts`, two players; `course_topic_mutations.py`) | positions, saves, completions | open a lesson, watch, save, complete | answers for the lesson before |
| Focus timer, notes, quizzes, exercises, rendering, simulations | | | see "Not modelled" |

How they interact. A confirmed payment (three places in `payment_gateway.py`)
sets `is_pro` and calls `grant_paid_subject_entitlements` in its own
transaction; manual grants write the same table. Refunds read a payment's status
and write the same ledger. Chat, live sessions and course handlers enqueue
outbox rows in their own transaction and leave a drain of the outbox in the
background; the chat and live pages see the outbox as events that come late,
in any order, or, when Firestore refuses them, not at all, and then poll. The
pages share nothing with each other but the session that `Navigation` is about.

What makes each component correct, in one sentence: one finance decision per
request, and everything else (status, `is_pro`, references, captures) agrees
with it; access is explained by payments and audited grants; each event is
delivered or given up visibly, and by one worker at a time; an approved change
request turns the course into what the professor proposed; no stroke on the
server is overwritten unseen, an unsaved scene is resumed by a browser whose
clock is not behind, and a dirty scene is saved; a page is shown to the
account whose session pays for it, and the browser comes to rest; a list
converges to the server's; what is graded is what was entered; a lesson's
progress is its own.

## 2. Modules

| module | models |
|---|---|
| `PaymentSettlement` | what is promised about payments, abstractly: a request is decided at most once, for good, a reference decides at most one request of its rail, and pro access follows confirmed decisions |
| `PaymentGateway`, `MCPaymentGateway` | the handlers of `payment_gateway.py`, and their instances |
| `RealtimeOutbox`, `MCRealtimeOutbox` | the outbox and its instances |
| `SubjectAccess` | entitlement rows and who writes them |
| `StudioTree` | the studio's trees; `buildOperations` and `projectOperations` as functions of trees |
| `CourseStudio`, `MCCourseStudio` | the studio page, change requests, review and application; its instance |
| `Whiteboard`, `Navigation`, `ProfessorChat`, `LiveRoom`, `ExamSession`, `VideoProgress` | the client components of these names |
| `MCClients` | the six of them in one instance |
| `Lists` | the sequence of the elements at chosen places of another one, in their order |
| `Lists_proofs` | what `Lists` and the listing of a finite set return |
| `PaymentGateway_proofs`, `RealtimeOutbox_proofs`, `SubjectAccess_proofs`, `Whiteboard_proofs`, `ProfessorChat_proofs`, `CourseStudio_proofs` | theorems about the modules of these names |
| `Clients_proofs` | theorems about `ExamSession`, `VideoProgress`, `LiveRoom` and `Navigation`, and about the composition `MCClients` |

Names follow the code where they can. Operators that end in what a bug would do
(`ApproveClosed`, `RevokeReadsCurrent`, `PollStatusOnly`) are faulty variants;
nothing uses them in the specification. Replacing the correct definition by its
variant makes one property fail, which shows that the property says something.

### PaymentGateway

A handler that decides about a request takes `SELECT ... FOR UPDATE` on its row
and writes status, `open_request_key`, provider event, ledger entry and
`is_pro` in one transaction. It is two steps here: `Lock(t)`, which also samples
whether `expires_at` has passed, and one of the committing actions, each of
which holds the lock and releases it.

| action | code |
|---|---|
| `Create` | `create_pending_manual_payment_request`, `create_pending_cmi_payment_request`: the insert under the unique open key |
| `ReleaseExpired` | `_release_expired_open_*_request`: the commit before the insert |
| `Deadline` | `expires_at` passes |
| `SubmitProof`, `Approve`, `Reject` | the handlers of these names |
| `Reconcile`, `ReconcileClosed`, `ReconcileUnknown` | `reconcile_manual_payment_transaction`: decides, finds the request closed, finds none |
| `ExpireManual` | approval, reconciliation or upload that comes too late |
| `CallbackDecides`, `CallbackTooLate`, `CallbackIgnored`, `CallbackRepeated`, `CallbackUnknown`, `CallbackInvalid` | the exits of `process_cmi_callback` |
| `GiveUp` | a handler that returns, raises or dies without writing |
| `ReadCurrent`, `ExpireStale`, `ReaderDies` | `get_current_payment_request`: the read, the later write by primary key, and a death between them |

`Settle`, `Confirm` and `Expire` are the parts handlers share. The clock of a
callback is sampled before it waits for the lock, hence the second choice in
`Lock`. The unique constraint on provider events is the guard `~Recorded`: a
handler whose insert is refused rolls back, which is `GiveUp`, and starts again.
`captured` records the answers `ACTION=POSTAUTH`, which make the bank take the
money; an answer may be lost when the process dies.

Abstractions: one plan; an amount, currency or client that does not fit is the
claim `mismatch`; instructions, form fields, monitoring and exports are left out.
CMI (outside the repository) is taken to send a `TransId` with every signed
callback and to use one `TransId` for one authorisation of one order
(`SameAuthorisation`); it may send each callback any number of times.

### RealtimeOutbox

`Claim` is `_claim_realtime_outbox_batch` with its commit: the `Limit` oldest
due rows, skipping locked ones, become `publishing` and cost an attempt.
`Publish` is one message and its answer; a negative answer does not mean that
nothing was written. `Finish` is the commit of the results, which names rows by
id and asks nobody whether they still belong to the worker. `LockTimesOut` lets
300 seconds pass; if a worker still holds the row, the row counts as `overran`.
`Crash` is a worker that dies or cannot commit. `Requeue` and the purge
(`PurgeSelects`, `PurgeDeletes`: it reads without a lock and deletes by id) are
the internal endpoints and the second half of the job. An `Event` is a place for
a row: after a purge it stands for a new row, once no worker remembers the old.

### SubjectAccess

None of the writers takes a lock, so each is a read (`ConfirmReads`,
`GrantReads`, `RevokeReads`) and a commit (`ConfirmCommits`, `GrantCommits`,
`RevokeCommits`), with `Abort` in between. `Open` is what `build_access_context`
computes; `promised` remembers what was paid for, `overtaken` the pairs for
which a grant was committed while a revocation was under way. The audit records
stand in the order of their commits.

### StudioTree and CourseStudio

A tree gives each node the sequence of its children and one value for all its
fields. `BuildOperations` is `buildOperations`: creations and updates in the
order of the tree, moves, deletions at the end. `Project...` is
`projectOperations`, which replays them on the tree of the day when a pending
request is opened again. `CourseStudio` has the tables (`row`), the requests
with their operations, and the professor's open page; an edit, a submission, a
withdrawal, a reopening, a replacement and a review are one action each. A
review picks any subset of the operations and applies them one by one, in the
order of the request, as `professor_change_apply.py` does: a deletion takes what
hangs below it, a move sets the place and the parent of its node only, an operation whose target is
gone fails. One review runs at a time. Siblings stand in the order of `order` and `id`,
and the place of each is the number of those before it (`InOrder`). The rows a course
starts with hang from a chapter, a lesson or the course, as the foreign keys demand
(`StudioCourse`); nothing is assumed about their numbers.

### Whiteboard

Each tab loads the document (`Mount`, `ServeCanvas`, `LoadAnswered`,
`LoadFailed`), draws (`Draw`, and `Touch` for Excalidraw's reports without a new
stroke), saves (`SaveCanvas` and the server's `CheckVersion` and `CommitScene`,
which are two steps because the version is compared in memory and written
without a condition) and is left or closed (`Leave`). A tab is one instance of the
hook. A save that is out when its tab is left ends there, and still writes the draft,
unless the tab was closed (`AnswerUnheard`); the page that the student opens again
meanwhile is another tab of the same browser. A scene is its set of strokes.
`document` is the row: scene, version and `updated_at`. The draft in `localStorage`
is written with every change, and by the answer to a save.

`LoadAnswered` compares, as the code does, the time of the draft with the time of the
document. The first is `Date.now()` in the browser, the second the start of the
transaction that wrote the row, by the database's clock `now` (`ClockTicks`). Nothing in
the code makes the two agree, so `Readings` gives a browser in `Slow` any time up to
the server's, and one in `Fast` any time from it on, anew at each reading; a browser may
be in both.

### Navigation

One browser, one tab, the hosts of the site, each with its cookies and its
`localStorage`. `ProxyAnswer` is what `proxy.ts` answers to a request;
`PageAnswered` mounts a page; `GuestSends`, `ProfileAnswered`, `ProfileRefused`,
`ProfileFails` are the guards; the forms and menus follow. The kind of the stored
user says what the client knows of it: a snapshot, a whole profile merged into
a snapshot (whose mark stays), or a whole profile. Sessions expire, lapse and are
revoked from elsewhere at any time.

### ProfessorChat and LiveRoom

One page of either side is watched; the other party, the outbox and the network
are the environment. The cache is SWR's as the pages use it: a local change
writes under the key of the conversation that is open now, and throws away the
refresh under way for it. A request is carried out, refused, or carried out with
its answer lost. In the live room the list is read in full, or merged into by
polls, events and answers (`mergeLiveInteractions`), in any order. A poll throws away
the full read under way when it starts, and again when it ends or fails. The page may
subscribe anew at any time (`Resubscribes`), because the effect depends on a function
that each render makes again. A read of a chat key that is no longer open and fails
is not asked again.

### ExamSession

The page, its draft, the quiz and the submissions. `Show` is a change of the
page's state together with the effect that writes the draft. `Hydrated` is what
a page that starts over makes of the draft: it drops the answers the edited quiz
no longer offers, and the draft altogether if its questions changed. Questions are compared in
their order (`QuestionsOf`), as `sameQuestionOrder` does. A
submission is graded, answered, or fails; the page it came from may be gone.
Grading is one step here: that the server recognises an identical submission by its
hash, and may refuse one by its rate limit, is not told apart from a graded one and
a failure.

### VideoProgress

Either player, and the lessons opened one after another in a component that
stays mounted. A position runs from 0 to near the end (`NearEnd`). The server keeps
what the time since the last write allows (`Recorded`), also when it refuses the
completion that carried it (`Complete`, 409), and a completion may be carried out
with its answer lost (`WriteFails`). `LessonsKeptApart` is about answers that
arrive when another lesson is open.

### MCClients

The six client components share no state. A product of six state spaces would
only multiply, so each behaviour picks one component (`active`), and the others
rest in a state where none of their fair actions is enabled: fairness of the
whole is then the fairness of the one that runs. The instance thus checks the
union of six state spaces in one run. Conversations are alike, and so are
lessons: the first is open at the start, so the instance assumes that there is
a first conversation (`FirstExists`). A session that Firestore refuses from the start is
a student's; the professor's is refused only later.

## 3. Runs

| run | instance | distinct states | result |
|---|---|---|---|
| `payment_bank` | two bank requests of one student, two staff, one reference, one proof | 619 000 | holds |
| `payment_card` | two card requests of one student, two authorisations | 428 000 | holds |
| `payment_captured_once` | as above | | `CapturedOnce` is violated |
| `payment_lost_update` | two students, one bank request each | | `PaidStaysPaid` is violated |
| `outbox` | two rows, the job and one drain; one crash, one overrun, one requeue; two attempts | 439 000 | holds |
| `outbox_overlap` | the same | | `PublishedStays` is violated |
| `outbox_purge` | the same | | `PurgesOnlyTerminal` is violated |
| `subject_access` | one student, two subjects, three days, three acts of staff, two operations at once | 2 621 000 | holds |
| `subject_access_paid` | the same | | `PaidKeepsAccess` is violated |
| `course_studio` | two chapters, two lessons and two tabs, with room for one new node of each kind; two requests, two edits | 169 000 | holds |
| `clients` | the six client components, bounds below | 1 006 000 | holds |
| `navigation_loop` | a student and a professor, the landing host and the student host, one sign-in | | `RedirectsEnd` is violated |

Why the bounds are enough to be interesting. Every property about payments
relates at most two requests and one reference; two requests of one student on
one rail compete for the open key and, with one bank reference, for that
reference. Two authorisations are needed for a second capture, and each can be
delivered any number of times. In the outbox two rows make batches of one and
two, two workers overlap, and two attempts reach every branch of the retry rule;
crashes, overruns and requeues are bounded by `MaxCrashes`, `MaxOverruns` and
`MaxRequeues` because each could repeat for ever. Three days are a past, a
present and a future for a grant; three acts of staff are two overlapping grants
and a revocation; `MaxBusy` is two, so every pair of operations overlaps.

The course has both what a lesson can be moved into and what it can be moved
past; two edits make every pair of operations that refer to each other (create
and move into, move out and delete, delete and reorder), in one request or in
two that follow each other. The whiteboard has two tabs of one browser or two
browsers, three strokes of which one is an image, three openings of the page and
one lost message: a crash, a draft, and another tab that saves in between. The clocks
have two readings (`MaxTime` is 1), before and after a tick of the server's; the first
browser's may be ahead, the second's behind, so that `DraftIsResumed` is checked for
a clock that is ahead and the second browser drops a draft. Two
sign-ins let one account follow another on a host; one outage is a logout that
fails. In the chat one text is enough to be sent, fail, be sent again and be
edited or deleted against one change of the other party and one change of
conversation. The live room has one interaction, moderated twice, and two
failures: a refused channel and a failed read. The quiz loses an option in one
edition and gets a question in the next; two visits and two attempts make a
reload in either attempt; no edition has the questions of another in a different
order, which the theorem covers. Two lessons opened one after the other, one save and
one failed request are what a late answer needs; two positions (`NearEnd` is 1) tell
an unwatched lesson from a watched one, and the theorem covers any number. Every bound is a `Max...`
constant, used in the guards of the actions it limits.

### What holds

* Payments: one open request per student and rail, tied to being pending
  (`OpenRequests`); one ledger decision per request (`OneVerdict`), with which
  status and expiry events agree (`StatusFollowsLedger`); a reference settles one
  request and is recorded when it does (`ReferenceSettlesOne`,
  `RefsAreRecorded`); `is_pro` is exactly the projection of the ledger
  (`ProIsPaidFor`); money is captured only for booked payments
  (`CaptureIsBooked`); proofs under review are those uploaded
  (`ProofsAreListed`; a row that a stale expiry has closed is under review no more, and
  may list fewer); a decided status changes only as in the first item below
  (`DecidedIsFinal`); all handlers implement `PaymentSettlement`
  (`DecidesAsPromised`).
* Outbox: `published` means that Firestore has the document
  (`PublishedWasDelivered`); one worker at a time holds a row (`SoleHolder`),
  attempts stay within the limit plus the failed runs (`RetryBudget`) and
  published rows stay so (`PublishedUnlessOverran`), each unless a worker
  outlived its lock; every row is settled in the end (`EventuallySettled`).
* Access: audit records explain manual access (`AuditExplainsAccess`) unless a
  grant overtook a revocation; a paying student is left without a subject only
  where a manual row covered it at the time (`PaidUnlessCovered`); revocations
  never touch paid rows (`RevokeSparesPaid`).
* Studio: a request approved as a whole, on the tree it was made from, gives the
  tree that was proposed (`ApprovalYieldsProposal`); a reopened request shows the
  tree the professor left (`ResumesUnlessReordered`, with the two exceptions below);
  whatever subset is approved, what is reported as applied is so in the tables
  (`AppliedHasEffect`) and nothing else changed (`ChangesAreApproved`).
* Whiteboard: strokes of another browser are not overwritten unseen
  (`NothingOverwrittenUnseen`), an unsaved scene is resumed by a browser whose
  clock is not behind the server's (`DraftIsResumed`), a dirty scene gets saved
  (`DirtyIsSaved`; the page calls a scene clean when a save of it is answered, see below).
* Navigation: a guarded page is on show for the account of its session, which may
  see it (`ShownToItsOwner`); the browser comes to rest unless sessions are split
  between hosts (`NavigationSettles`).
* Chat: a stored message is shown once (`ShownOnce`) and stored once per lost
  answer at most (`TextsStoredOnce`); a polling page converges
  (`PollingConverges`). Live room: a polling page shows everything listed for it
  (`LivePollConverges`).
* Exam: what is graded is what was entered (`GradedAsEntered`); an open attempt
  whose time is up gets a result (`TimeUpIsSubmitted`). Video: lessons are kept
  apart (`LessonsKeptApart`).

### What does not hold, shown by a run

* `PaidStaysPaid`: `get_current_payment_request` reads a request without its
  lock and may write `expired` over an approval committed since. Ledger and
  `is_pro` stay right; the status, which refunds and the student's page use, is
  wrong.
* `CapturedOnce`: a callback that was recorded before is answered from the
  status of the request alone, so the redelivery of a second authorisation that
  was recorded as ignored is answered `ACTION=POSTAUTH`.
* `PublishedStays`: a drain slower than the lock timeout writes over the result
  of the worker that took its rows.
* `PurgesOnlyTerminal`: a purge deletes a row that was requeued after it was
  selected.
* `PaidKeepsAccess`: a payment skips subjects that a temporary grant covers;
  when the grant ends, the student who paid loses the subject.
* `RedirectsEnd`: the proxy sends a session it believes live from the landing
  host to a workspace host that has no cookie, which sends it back, for ever.

### Exceptions the properties state, and what else was met

These were found while the code was translated. They are in the models, and the
properties name them as exceptions, or they lie just outside the models.

* Studio. `projectOperations` loses the parent of a lesson or tab reordered
  among the same siblings (`studioProject.ts:142`, `149`), so a reopened request
  does not show that move. `placeAt` (78-81) puts a node at its index in the list as it
  is at that point of the replay, while nodes that a later operation deletes or moves
  away are still in it: a chapter with lessons 4 and 5, into which lesson 6 is dragged
  before 4, from which 4 is removed and to which a lesson is added, is proposed as 6, 5,
  new and reopens as 6, new, 5; four chapters A B C D dragged to C B D A reopen in
  another order as well. So `ResumesUnlessReordered` speaks of requests in which nothing
  created or moved stands before a sibling that was neither (`PlacedLast`). The server
  is not concerned, because it sorts by the stored places (`ApprovalYieldsProposal`). A
  failed reorder has already set the order of its node. Outside the model: overlapping reviews apply operations twice, and a
  foreign-key failure of one approved operation undoes the whole review.
* Whiteboard. Two saves between whose check and write another one commits are
  both accepted; a scene edited while its save was out, whose answer is lost, has
  a draft older than the document. A browser whose clock is behind the server's drops
  its draft when it loads the document that the draft was drawn on
  (`useTopicWhiteboard.ts:106-107`): a stroke drawn after a save, in a page left before
  the next one, is lost; a browser whose clock is ahead may show a draft that the
  document has replaced, and its save is then refused with 409. A stroke drawn while a save is out is
  marked clean by the answer (176-183), which also replaces the draft (185-190): it is on
  the canvas only, until the editor reports its scene again (`Touch`), and is lost if
  the page is left before. `DirtyIsSaved` speaks of scenes the page calls dirty and
  does not see this.
* Chat. An answer that comes when another conversation is open is applied under
  that one's key and blanks it until the next refresh; a refresh thrown away by a
  local change is not repeated; a failed message vanishes with the next refresh;
  the professor's page appends a sent message it may already show
  (`app/professor/chat/page.tsx:230-233`), hence `side = "student"` in
  `ShownOnce`; a retry after a lost answer stores the text twice.
* Live room. A student's page only merges, so what the professor took back stays
  until a reload, hence the direction of `LivePollConverges`; a stale event can
  set a status back on a page that listens.
* Payments. A stale expiry also writes `metadata_json` from the copy it loaded and
  drops a proof that was uploaded since; the proof's own row stays.
* Exam. A page reloaded while its submission is out shows the attempt as open and
  submits again; a failure when the time is up is followed by another attempt at
  once, without a pause.
* Video. An answer for the lesson before clears the flag that a completion of the
  new one is under way, which is then posted twice (the server takes it once); the
  YouTube player does not repeat a refused completion.
* Navigation. A profile merged into a snapshot keeps the snapshot's mark, so
  `/onboarding` shows its sign-in form to somebody who is signed in.

### Fairness

Fairness is weak, and only where the code, a timer or the network provides it;
users, failures and staff are under no obligation.

* Outbox: retry delays and lock timeouts pass; `scheduled.py` starts the job
  every minute, so `Claim(Cron)` is taken when it can be; a run that does not die
  gets an answer for each message (the client has timeouts) and commits. Drains,
  requeues and purges are under no obligation. `EventuallySettled` counts a
  deleted row as settled, which `outbox_purge` shows to be too kind in one case.
* Whiteboard: the autosave timer of a dirty scene fires, and a save that is out
  comes to an end.
* Navigation: the browser loads what it is sent to and the guards' requests are
  answered. Strong fairness is assumed of `LogoutAnswered` only: a page that asks
  for a logout again and again gets through once. Failures are bounded by
  `MaxOutages`.
* Chat and live room: requests and reads are answered, the first snapshot comes
  or the interval timer of the fallback poll runs.
* Exam: the one-second timer runs and submissions are answered.

## 4. Proofs

Each proof module assumes only what the module it extends assumes of its
constants, in a named `ASSUME`; sets and bounds may have any size. In particular
the payment theorems hold for any number of users, requests, rails and
references, the outbox theorems for any number of rows, workers, crashes and
overruns, the access theorems for any finite set of subjects and any number of
operations at once, the exam theorems for any history of editions, the studio theorems for any
course, any requests and any approved part of them, the theorems
about chat and live room for any number of conversations, texts, changes of the
other party and failures.

| module | theorem | says |
|---|---|---|
| `PaymentGateway_proofs` | `TypeCorrect` | `[]TypeOK` |
| | `DecidesOnce`, `ReferencesSettleOne`, `ProFollowsLedger`, `CapturesAreBooked`, `RequestsFollowLedger`, `OneOpenRequest`, `ReferencesRecorded`, `ProofsStayListed` | `OneVerdict`, `ReferenceSettlesOne`, `ProIsPaidFor`, `CaptureIsBooked`, `StatusFollowsLedger` with `OpenRequests`, `OpenRequests`, `RefsAreRecorded`, `ProofsAreListed` |
| | `DecidedStays` | the action property `DecidedIsFinal` |
| | `ImplementsSettlement` | `Spec` implements `PaymentSettlement` |
| `RealtimeOutbox_proofs` | `OutboxTypes`, `PublishedAreDelivered`, `OneHolder`, `AttemptsAreBounded` | `TypeOK`, `PublishedWasDelivered`, `SoleHolder`, `RetryBudget` |
| | `PublishedIsFinal` | the action property `PublishedUnlessOverran` |
| `SubjectAccess_proofs` | `AccessTypes`, `PaidSubjectsStay`, `AuditIsComplete` | `TypeOK`, `PaidUnlessCovered`, `AuditExplainsAccess` |
| | `PaidRowsStay` | the action property `RevokeSparesPaid` |
| `Whiteboard_proofs` | `BoardInvariant`, `BoardTypes` | the inductive invariant, and `BoardTypeOK` |
| | `OthersKept`, `UnsavedIsResumed` | the action properties `NothingOverwrittenUnseen` and `DraftIsResumed` |
| `ProfessorChat_proofs` | `ChatInvariant`, `ChatTypes`, `StudentSeesOnce`, `StoredOnce` | the inductive invariant, `ChatTypeOK`, `ShownOnce` and `TextsStoredOnce` |
| `CourseStudio_proofs` | `StudioInvariant`, `StudioTypes` | the inductive invariant, and `TypeOK` |
| | `ReviewsChangeWhatIsApproved`, `AppliedOperationsHold` | the action properties `ChangesAreApproved` and `AppliedHasEffect` |
| | `ApprovalGivesProposal` | `ApprovalYieldsProposal` |
| `Clients_proofs` | `ExamInvariant`, `ExamTypes`, `GradesAreEarned` | the inductive invariant, `ExamTypeOK` and `GradedAsEntered` |
| | `VideoInvariant`, `VideoTypes`, `LessonsStayApart` | the inductive invariant, `VideoTypeOK` and `LessonsKeptApart` |
| | `LiveTypes` | `LiveTypeOK` of the live room |
| | `NavInvariant`, `NavigationTypes`, `PagesFollowSessions` | the inductive invariant, `NavTypeOK` and `ShownToItsOwner` |
| | `ClientInvariant`, `ClientTypesHold` | the six inductive invariants together, and `ClientTypes`, for the composition |

None of these invariants is inductive alone.

*Payments.* `OneVerdict` needs to know that an undecided request has an empty
ledger, in whatever order handlers come, and that is `StatusFollowsLedger`; the
unlocked reader can only turn a status into `expired`, which is not undecided, so
the clause survives it. `ReferenceSettlesOne` needs `RefsAreRecorded`: a handler
may set a reference only if no event has it, and every reference in use is in an
event. `CaptureIsBooked` needs that a paid status means a confirmed ledger, and
that a recorded callback never changes its claim. `ProIsPaidFor` needs
`OneVerdict` so that a confirmed ledger stays confirmed. `Books` is their
conjunction, with the open keys and the types. `ProofsAreListed` is extended to
requests not yet made (`Listed`): whoever writes an old copy of `metadata_json`
closes the request with it. The refinement maps a request's ledger to its verdict
and the reference on its row to `basis`: the committing actions are `Decide`
steps, all others stutter.

*Outbox.* `PublishedWasDelivered` needs `Answers`: a worker has a positive answer
only for a document that is in Firestore, or for a row purged since. `SoleHolder`
needs `Holding`: the row of a held claim is as the claim left it, `publishing`
and not timed out, so that nobody can claim it again, unless the lock was overrun.
`RetryBudget` needs `Budget`: a row that waits has an attempt left, and one that
is `publishing` and held by nobody has cost a crash. `OutboxInv` is their
conjunction with the types they rest on. `PublishedUnlessOverran` follows from the
same invariant: results are written by the worker that holds the row, or by one that
was overrun. That the queue of due rows stays a sequence of rows (`TableOK`) needs
that the rows there are finitely many, because the table is listed when they are
claimed.

*Lists.* Queues and chat lists drop elements at some places and keep the order of the
others. `Kept` says which element stands where afterwards by rank, so that its lemmas
hold without an induction over the list: `Place` is a bijection in increasing order
(`PlacesInOrder`), hence what is kept was there, once if it was there once.

*Access.* `Targets`, `Sources` and `Backing` say what an operation that has read
and not yet committed may rely on: a revocation names manual rows of its own
student and subject, and for each subject a confirmation leaves out, some row
opened it on that day and only a revocation has ended it since. They carry what
was true at the read over to the commit, across every commit in between.

*Exam.* `ExamInv` says that the page, the draft and every submission hold
`entered`; the step that matters is a page that starts over on an edited quiz,
where page and history are cut down to what is still offered alike. `ExamShape`
has what the types rest on: an open page shows an edition that the quiz has had,
answers only its questions, and has the draft that it would write now.

*Video.* `LessonsKeptApart` needs that no position in the page, no resume point and
no write under way is ahead of what its own lesson's player has reached
(`NothingAhead`), and that a completion answered as saved is in the database
(`AnswersAreTrue`).

*Whiteboard.* `NothingOverwrittenUnseen` is about one step, the write of a save that
was checked, and rests on what a version number stands for everywhere else: a scene
that a page, a draft or a save takes for the current version has the strokes that other
browsers have put into it, and none is taken for a later one (`Covers`, in `BoardInv`).
Three places make that hard. The
editor keeps what was drawn while a save was out, so it must not fall behind the scene
saved (`behind` in `GoodPage`); the answer to a save writes a draft after the page was
left; and a checked save still has to know that its base is the last version when it
is written, which is so unless it was overtaken.

*Navigation.* `ShownToItsOwner` is nearly inductive: only the guard's answer puts a
page on show, and it does so in the name of the cookie's owner. What has to be carried
along is that a cookie that is there has an owner (`SessionsAreOwned`), that ending
sessions and losing cookies never give one to somebody else, and that the pages and
paths that the proxy and the forms compute are the application's (`ProxyAnswers`,
`Destinations`).

*Drafts of a whiteboard.* `DraftIsResumed` rests on the times, so `ResumeInv` says that
an unsaved draft that is based on the current version is `Fresh`: in a browser whose
clock is not behind, its time is not before the document's. It also says that the draft has
what an open page shows unsaved unless another tab of the browser wrote it, and that it
has, fresh, what a closed tab may resume (`DraftServes` is what a step owes to the page
it shows). It holds until a save is overtaken, which is where the property stops as well.
What makes a draft fresh is that the document's time is never after the server's now
(`GoodDocument`), and that such a browser never reads an earlier one.

*Chat.* `ShownOnce` and `TextsStoredOnce` are about lists that are changed at once by
the page, by answers, by events and by refreshes. `ChatInv` has four parts.
`ListsAreTrue`: every entry of the server, of a refresh under way or of a cached list is
a stored message or an unsent text, and on the student's page no two of one list are
the same. `RequestsAreTrue`: a request under way has the text of its entry, two requests
never have one text, and the message that an answer names is the one that was stored.
`TextsHaveOneHome`: a text waits under one key, that of the conversation that it is being
sent to, and is not marked as failed while its request is under way; this is what keeps
a retry from being pressed twice. `CopiesAreCounted`: a text has at most one stored copy
more than there were lost answers, and none more as long as it may still be stored.

*Live room.* `LiveInv` says that interactions are numbered from one on and that whatever
is cached, read, announced or under way is about one of them; merging keeps that
(`OverlaidIsOfRoom`).

*Studio.* `StudioInv` says that rows, trees and requests fit: rows hang from rows of the
level above that are there, every tree on a page or in a request is `Sound` (each node
in one place, below a node of the level above, and none without a holder), and a pending
request is `Applicable` to the rows as they are, and `Coherent`: undecided, with at most
one update and one move of a node, and neither for a node it deletes. The first half of
the argument is about the page: an edit, a deletion and each step of `projectOperations`
keep a tree `Sound`, and what `buildOperations` makes of two sound trees fits
(`OpsFit`): targets and parents are of the kinds the operation needs, an id is named
where there is a row, a new key is created once, and no node that is to be deleted is
the parent that another operation names. The second half is about
`apply_change_operations`, which is a fold over the operations: `Carried` holds after
each of them, whatever subset is approved and whatever failed so far. It says that the
rows fit, that a reference resolved so far is an id of its kind that had no row, that
enough ids are left for the creations to come, that every row that differs is
`Explained` by an operation so far, and that what hangs from a node with a deletion to
come hung from it before. The last part is what `ChangesAreApproved` turns on: a
cascading deletion takes what is below its target *now*, and the property allows only
what was below it *when the review began*. `Effective` is carried along in the same way,
for `AppliedHasEffect`: each operation applied so far `Lasts`, that is, it shows in the
row of its node, or that row went with a holder, and a reference resolved so far is the
id of the operation that created it. A step keeps this because of `Coherent`: the only
other operation about the same row writes other fields (`StepSpares`). The case that
remains is a deletion that takes an applied node along, and there the proof must know
under whom the node hangs: where it hung at first, or where an applied move put it
(`Hangs`).

`ApprovalYieldsProposal` needs a second invariant, `ProposalInv`, which says where a
request comes from: one that is still `current` has the operations that
`buildOperations` makes of the tree in the tables and its proposal, and names no node of
the server that is not in that tree. The rest is about one review and goes in three
parts. `PendingAsks` says what such operations are without their order in the list
(`Asked`): each creates, updates or moves an entry of the proposal as that entry is, or
deletes a row that the proposal no longer has; every entry that is new, changed or
displaced has its operation, and so has every topmost row that is gone; and a creation
stands before whatever names its key. `WholeIsApplied` carries `Ongoing` through the fold:
nothing has failed, rows the proposal keeps are there and as they were but for the
operations so far, and a row outside it is untouched, gone, or created by one of them.
At the end that gives `Placement`: each entry of the proposal has a row with its fields,
its place and its parent. `TreeIsCalled` goes back from rows to trees: no other row is
left (`OnlyTheTree`), so that sorting the children of each node by their places gives the
list of the proposal (`InOrderIs`), under the ids that `Called` gives to new keys.
`Dense` is a hypothesis, as in the property: it is about the course before the review,
and the theorem gives it back for the course afterwards.

*Composition.* `ClientInv` is the conjunction of the six invariants. A component that
does not run rests in a state that it could have reached, and each action of `Next` is
an action of the one that runs and leaves the others' variables alone.

The proofs have one step per action, or one lemma, and what the parts shared by
handlers do is stated once. Some things stay with TLC. Liveness (`EventuallySettled`,
`DirtyIsSaved`, `NavigationSettles`, `PollingConverges`, `LivePollConverges`,
`TimeUpIsSubmitted`) is out of the prover's reach.
Of the properties of `CourseStudio`, `ResumesUnlessReordered` stays with TLC: it compares
the replay of the operations on a tree with the proposal, and the replay counts indexes in
lists that still change, so that the invariant would have to give the list of each node
after each operation. All other invariants and action properties that the passing runs
check are theorems.

## 5. Not modelled, and why

* Pages that render, and forms with one request each: most of the web
  application's lines (`QuizPrimitiveRenderers`, `CourseContentRenderer`,
  `PdfViewer`, the `figma` components, the administration's forms) and the
  numerical simulations. They keep no state beyond one request.
* The focus timer (`hooks/useFocusEngine.ts`): a record in `localStorage`. Two
  tabs overwrite each other's record, the second before it has read it
  (183-216 against 104-130); two running tabs count double. There is no rule in
  the code to hold it to.
* The pricing page (`app/pricing/page.tsx`), whose button stays busy when the
  user is identified while a request is made.
* Refund requests: one conditional status each. Two staff may ask for a refund of
  one payment, because its status is read without a lock
  (`refund_requests.py:74`), and `PaidStaysPaid` says how far that status can be
  trusted.
* Reconciliation imports: the rows are reconciled by `Reconcile`; the import's own
  rows, which say `error` for a settled request after a crash in between (1309),
  and which two imports of one report race for (1317), are left out. So is the
  answer to a repeated row that was refused before (605).
* XP, caps, quests, quiz grading, mistakes and mastery: arithmetic over days and
  idempotent rows, seen by the exam page as one step.
* Within the modelled parts. Payments: several plans, so that a pro student may
  pay for a second request (374). Access: tiers, feature keys, subjects created
  after a payment; a longer grant given while a shorter one runs is a `no_op`
  (`manual_access_grants.py:70`), and the first entitlement row of a user locks
  every other subject (`access.py:101`), both by design. Outbox: two purges at
  once, duplicates in Firestore under random ids. Studio: overlapping reviews,
  the older single-change requests, media, lost answers of a submission.
  Whiteboard: the second, expanded editor, and a change of lesson while the
  hook stays mounted. It has no key (`TopicWorkspaceWhiteboard.tsx:35-38`, rendered in
  `TopicWorkspacePanels.tsx:236`), so it stays when both lessons open on a notes tab;
  then the answer to a save that was out writes the old lesson's scene, version and clean
  flag into the new one's page, whose own saves wait for it
  (`useTopicWhiteboard.ts:167-184` name no target), and a load that fails leaves the old
  scene on show. Navigation: several tabs, e-mail verification, Google's redirect. Chat:
  starting a conversation, prefetch, images, unread counters, pages of history,
  pins and search. Live room: the session's own lifecycle and stream. Exam: two
  tabs that share a draft. Video: XP for a completion.
