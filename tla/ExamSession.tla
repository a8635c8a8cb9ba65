---------------------------- MODULE ExamSession ----------------------------
(***************************************************************************)
(* An exam in one browser: the page (app/(dashboard)/exam/[subjectId]),    *)
(* its draft in localStorage (lib/examDraft.ts), the quiz SWR keeps fresh, *)
(* and the grading server.  The page may be closed, reloaded or opened in  *)
(* another visit at any moment, the quiz may be edited under the student,  *)
(* and a submission may fail, or be graded and not answered.               *)
(***************************************************************************)
EXTENDS Integers, Sequences

CONSTANTS Editions,        \* the quiz as edited over time
          MaxVisits,       \* bound: times the page is opened
          MaxAttempts,     \* bound: attempts started
          MaxExamFailures  \* bound: submissions that fail or lose their answer

ASSUME ExamAssumption ==
    /\ Len(Editions) \in Nat \ {0} /\ DOMAIN Editions = 1 .. Len(Editions)
    /\ {MaxVisits, MaxAttempts, MaxExamFailures} \subseteq Nat

VARIABLES
    edition,    \* the current edition of the quiz
    paper,      \* the open page, or Closed
    examDraft,  \* the draft in localStorage, or NoExamDraft
    posts,      \* submissions under way
    graded,     \* what the server graded: pairs <<answers, entered>>
    timeUp,     \* the time of the attempt in the draft has run out
    entered,    \* what the student has chosen in this attempt
    visits, attempts, examFailures

examVars == <<edition, paper, examDraft, posts, graded, timeUp, entered,
              visits, attempts, examFailures>>

Closed  == [open |-> FALSE]
NoExamDraft == [kept |-> FALSE]
NoAnswers == <<>>

\* The options of each question, and the questions in their order.
Quiz(e)  == Editions[e].options
QuestionsOf(e) == Editions[e].order

-----------------------------------------------------------------------------
(* The draft. *)

\* The answers that the quiz, as it is now, still offers.
sanitizeDraftAnswers(answers, e) ==
    [q \in {p \in DOMAIN answers \cap DOMAIN Quiz(e) : answers[p] \in Quiz(e)[p]}
        |-> answers[q]]

readExamDraft(d, e) == d.kept /\ d.questions = QuestionsOf(e)

\* Nothing to keep before the start; everything after it.
Written(p) ==
    IF ~p.started /\ ~p.submitted THEN NoExamDraft
    ELSE [kept |-> TRUE, questions |-> QuestionsOf(p.edition), answers |-> p.answers,
          started |-> p.started, submitted |-> p.submitted, result |-> p.result]

\* As below, when the draft is written once at the start and once at the end only.
ShowUnwritten(p) ==
    /\ paper' = p
    /\ examDraft' = IF paper.open /\ p.started = paper.started
                   /\ p.submitted = paper.submitted
                THEN examDraft ELSE Written(p)

\* Every change of the page's state is followed by the effect that keeps the draft.
Show(p) == paper' = p /\ examDraft' = Written(p)

Blank(e) == [open |-> TRUE, edition |-> e, answers |-> NoAnswers, started |-> FALSE,
             submitted |-> FALSE, submitting |-> FALSE, called |-> FALSE, result |-> FALSE]

\* resetExamState or restoreExamState, on the quiz as loaded.  A submission without
\* a result is forgotten.
Hydrated(e) ==
    IF readExamDraft(examDraft, e)
    THEN LET finished == examDraft.submitted /\ examDraft.result
         IN  [Blank(e) EXCEPT !.answers = sanitizeDraftAnswers(examDraft.answers, e),
                              !.started = examDraft.started \/ finished,
                              !.submitted = finished, !.called = finished,
                              !.result = finished]
    ELSE Blank(e)

\* The student's choices, through the same changes of the quiz.
StillOffered(p) == IF p.started THEN sanitizeDraftAnswers(entered, p.edition) ELSE NoAnswers

-----------------------------------------------------------------------------
ExamInit ==
    /\ edition = 1 /\ paper = Closed /\ examDraft = NoExamDraft
    /\ posts = {} /\ graded = {} /\ timeUp = FALSE /\ entered = NoAnswers
    /\ visits = 0 /\ attempts = 0 /\ examFailures = 0

OpenExam ==
    /\ ~paper.open /\ visits < MaxVisits
    /\ Show(Hydrated(edition))
    /\ entered' = StillOffered(paper')
    /\ timeUp' = (timeUp /\ paper'.started)
    /\ visits' = visits + 1
    /\ UNCHANGED <<edition, posts, graded, attempts, examFailures>>

\* SWR brings another edition: the page starts over from the draft.
QuizRevalidated ==
    /\ paper.open /\ paper.edition # edition
    /\ Show(Hydrated(edition))
    /\ entered' = StillOffered(paper')
    /\ timeUp' = (timeUp /\ paper'.started)
    /\ UNCHANGED <<edition, posts, graded, visits, attempts, examFailures>>

\* The tab is closed or reloaded; what it had sent may still arrive.
CloseExam ==
    /\ paper.open
    /\ paper' = Closed
    /\ posts' = {[s EXCEPT !.page = 0] : s \in posts}
    /\ UNCHANGED <<edition, examDraft, graded, timeUp, entered, visits, attempts, examFailures>>

startExam ==
    /\ paper.open /\ ~paper.started /\ attempts < MaxAttempts
    /\ Show([paper EXCEPT !.started = TRUE])
    /\ entered' = NoAnswers /\ attempts' = attempts + 1
    /\ UNCHANGED <<edition, posts, graded, timeUp, visits, examFailures>>

\* The questions are on the screen.
Questions == paper.open /\ paper.started /\ ~(paper.submitted /\ (paper.result \/ paper.submitting))

chooseAnswer(q, o) ==
    /\ Questions /\ q \in DOMAIN Quiz(paper.edition) /\ o \in Quiz(paper.edition)[q]
    /\ LET Put(f) == [x \in DOMAIN f \cup {q} |-> IF x = q THEN o ELSE f[x]]
       IN  /\ Show([paper EXCEPT !.answers = Put(@)])
           /\ entered' = Put(entered)
    /\ UNCHANGED <<edition, posts, graded, timeUp, visits, attempts, examFailures>>

\* The button and the timer both come here; submitCalledRef lets one through.
handleSubmit ==
    /\ ~paper.called
    /\ Show([paper EXCEPT !.called = TRUE, !.submitted = TRUE, !.submitting = TRUE])
    /\ posts' = posts \cup {[page |-> visits, answers |-> paper.answers,
                             entered |-> entered, at |-> "asked"]}
    /\ UNCHANGED <<edition, graded, timeUp, entered, visits, attempts, examFailures>>

pressSubmit == Questions /\ handleSubmit

updateTime == paper.open /\ paper.started /\ ~paper.submitted /\ timeUp /\ handleSubmit

resetExamAttempt ==
    /\ paper.open /\ paper.submitted /\ paper.result
    /\ Show(Blank(paper.edition))
    /\ timeUp' = FALSE /\ entered' = NoAnswers
    /\ UNCHANGED <<edition, posts, graded, visits, attempts, examFailures>>

-----------------------------------------------------------------------------
(* The server, and its answers. *)

SubmissionGraded(s) ==
    /\ s.at = "asked"
    /\ graded' = graded \cup {<<s.answers, s.entered>>}
    /\ posts' = (posts \ {s}) \cup {[s EXCEPT !.at = "graded"]}
    /\ UNCHANGED <<edition, paper, examDraft, timeUp, entered, visits, attempts, examFailures>>

Alive(s) == paper.open /\ s.page = visits

SubmissionAnswered(s) ==
    /\ s.at = "graded"
    /\ posts' = posts \ {s}
    /\ IF Alive(s) THEN Show([paper EXCEPT !.result = TRUE, !.submitting = FALSE])
       ELSE UNCHANGED <<paper, examDraft>>
    /\ UNCHANGED <<edition, graded, timeUp, entered, visits, attempts, examFailures>>

\* As below, when the failure does not let the next submission through.
SubmissionFailsForGood(s) ==
    /\ examFailures < MaxExamFailures /\ examFailures' = examFailures + 1
    /\ posts' = posts \ {s}
    /\ IF Alive(s) THEN Show([paper EXCEPT !.submitted = FALSE, !.submitting = FALSE])
       ELSE UNCHANGED <<paper, examDraft>>
    /\ UNCHANGED <<edition, graded, timeUp, entered, visits, attempts>>

\* Refused or lost, or its answer lost.
SubmissionFails(s) ==
    /\ examFailures < MaxExamFailures /\ examFailures' = examFailures + 1
    /\ posts' = posts \ {s}
    /\ IF Alive(s)
       THEN Show([paper EXCEPT !.submitted = FALSE, !.called = FALSE, !.submitting = FALSE])
       ELSE UNCHANGED <<paper, examDraft>>
    /\ UNCHANGED <<edition, graded, timeUp, entered, visits, attempts>>

-----------------------------------------------------------------------------
QuizEdited ==
    /\ edition < Len(Editions) /\ edition' = edition + 1
    /\ UNCHANGED <<paper, examDraft, posts, graded, timeUp, entered, visits, attempts, examFailures>>

\* The clock runs whether the page is open or not.
TimeRunsOut ==
    /\ ~timeUp /\ examDraft.kept /\ examDraft.started /\ ~examDraft.submitted
    /\ timeUp' = TRUE
    /\ UNCHANGED <<edition, paper, examDraft, posts, graded, entered, visits, attempts, examFailures>>

ExamNext ==
    \/ OpenExam \/ CloseExam \/ QuizRevalidated \/ QuizEdited \/ TimeRunsOut
    \/ startExam \/ pressSubmit \/ updateTime \/ resetExamAttempt
    \/ \E e \in DOMAIN Editions : \E q \in DOMAIN Quiz(e) : \E o \in Quiz(e)[q] : chooseAnswer(q, o)
    \/ \E s \in posts : SubmissionGraded(s) \/ SubmissionAnswered(s) \/ SubmissionFails(s)

\* The interval timer runs and submissions are answered in the end.
ExamFairness ==
    /\ WF_examVars(updateTime)
    /\ WF_examVars(\E s \in posts : SubmissionGraded(s) \/ SubmissionAnswered(s))

ExamSpec == ExamInit /\ [][ExamNext]_examVars /\ ExamFairness

-----------------------------------------------------------------------------
ExamTypeOK ==
    /\ edition \in DOMAIN Editions
    /\ paper.open =>
         /\ paper.edition \in 1 .. edition
         /\ DOMAIN paper.answers \subseteq DOMAIN Quiz(paper.edition)
         /\ paper.submitting => paper.submitted /\ paper.called
         /\ examDraft = Written(paper)
    /\ examDraft.kept => examDraft.started
    /\ visits \in 0 .. MaxVisits /\ attempts \in 0 .. MaxAttempts
    /\ examFailures \in 0 .. MaxExamFailures

\* What is graded is what the student chose in the attempt, through reloads, failed
\* submissions and editions of the quiz; nothing is lost but what the quiz no longer
\* offers, and nothing comes in from an attempt before.
GradedAsEntered == \A g \in graded : g[1] = g[2]

\* An attempt whose time is up does not stay on an open page without a result: the
\* timer submits it, again after a failure (page.tsx, 112-141).
TimeUpIsSubmitted ==
    []<>(paper.open /\ paper.started /\ timeUp => paper.submitted /\ paper.result)
=============================================================================
