--------------------------- MODULE VideoProgress ---------------------------
(***************************************************************************)
(* The video of a topic page (hooks/useVideoProgress.ts in                 *)
(* components/VideoPlayer.tsx and YouTubeVideoPlayer.tsx).  The component  *)
(* stays mounted when another lesson is opened, so answers for one lesson  *)
(* come in while the next one plays.  VideoPlayer awaits that a completion *)
(* is saved before it announces it to the page, the YouTube player does    *)
(* not.  A position is how far the lesson was watched, up to near its end.  *)
(***************************************************************************)
EXTENDS Integers, FiniteSets

CONSTANTS Lesson,            \* the lessons of the topic
          NearEnd,           \* the position from which a lesson counts as watched
          MaxOpened,         \* bound: lessons opened
          MaxSaves,          \* bound: periodic saves and flushes of a hidden page
          MaxVideoFailures   \* bound: requests that fail

ASSUME VideoAssumption ==
    {NearEnd, MaxOpened, MaxSaves, MaxVideoFailures} \subseteq Nat

VARIABLES
    player,     \* which of the two: "vdo" or "youtube"
    lesson,     \* the lesson opened, lessonIdentityRef
    stage,      \* "loading", "read" (the stream came), "ready" or "failed"
    resumeAt,   \* where the server said to resume
    position,   \* where the player is
    playing,    \* isPlaying
    reported, saving,   \* completionReportedRef, completionSaveInFlightRef
    lastSaved,
    writes,     \* progress and completion requests under way
    watched,    \* the server: lesson -> how far it was watched
    completed,  \* the server: completed lessons
    furthest,   \* lesson -> how far the player ever was in it
    announced,  \* lessons the page was told are complete
    openings, saves, videoFailures

videoVars == <<player, lesson, stage, resumeAt, position, playing, reported, saving,
               lastSaved, writes, watched, completed, furthest, announced,
               openings, saves, videoFailures>>
screen == <<player, lesson, stage, resumeAt>>
serverSide == <<watched, completed>>
budget == <<openings, saves, videoFailures>>

Later(a, b) == IF a >= b THEN a ELSE b

\* A completion is sent as the whole duration.
Write(kind, l, at) == [kind |-> kind, lesson |-> l, at |-> at, st |-> "sent"]

currentWatchedSeconds == IF stage = "ready" THEN Later(position, resumeAt) ELSE resumeAt

-----------------------------------------------------------------------------
VideoInit ==
    /\ player \in {"vdo", "youtube"}
    /\ lesson \in Lesson
    /\ stage = "loading" /\ resumeAt = 0 /\ position = 0 /\ playing = FALSE
    /\ reported = FALSE /\ saving = FALSE /\ lastSaved = 0
    /\ writes = {} /\ watched = [l \in Lesson |-> 0] /\ completed = {}
    /\ furthest = [l \in Lesson |-> 0] /\ announced = {}
    /\ openings = 0 /\ saves = 0 /\ videoFailures = 0

\* The player of the lesson before is torn down, its position saved for that lesson,
\* and the hook starts over.
openLesson(l) ==
    /\ l # lesson /\ openings < MaxOpened /\ openings' = openings + 1
    /\ lesson' = l /\ stage' = "loading" /\ resumeAt' = 0 /\ position' = 0
    /\ reported' = FALSE /\ saving' = FALSE /\ lastSaved' = 0
    /\ writes' = IF stage \in {"read", "ready"}
                 THEN writes \cup {Write("progress", lesson, currentWatchedSeconds)}
                 ELSE writes
    /\ UNCHANGED <<player, playing, serverSide, furthest, announced, saves, videoFailures>>

\* The stream carries the position to resume from (the YouTube player has it with
\* the lesson); a read for another lesson is cancelled.
fetchStream ==
    /\ stage = "loading"
    /\ \/ stage' = "read" /\ resumeAt' = watched[lesson] /\ UNCHANGED videoFailures
       \/ /\ videoFailures < MaxVideoFailures /\ videoFailures' = videoFailures + 1
          /\ stage' = "failed" /\ UNCHANGED resumeAt
    /\ UNCHANGED <<player, lesson, position, playing, reported, saving, lastSaved, writes,
                   serverSide, furthest, announced, openings, saves>>

playerReady ==
    /\ stage = "read" /\ stage' = "ready"
    /\ position' = resumeAt
    /\ UNCHANGED <<player, lesson, resumeAt, playing, reported, saving, lastSaved, writes,
                   serverSide, furthest, announced, budget>>

handlePlay ==
    /\ stage = "ready" /\ ~playing /\ playing' = TRUE
    /\ UNCHANGED <<screen, position, reported, saving, lastSaved, writes, serverSide, furthest,
                   announced, budget>>

handlePause ==
    /\ stage = "ready" /\ playing /\ playing' = FALSE
    /\ UNCHANGED <<screen, position, reported, saving, lastSaved, writes, serverSide, furthest,
                   announced, budget>>

watch ==
    /\ stage = "ready" /\ playing /\ position < NearEnd
    /\ position' = position + 1
    /\ furthest' = [furthest EXCEPT ![lesson] = Later(@, position')]
    /\ UNCHANGED <<screen, playing, reported, saving, lastSaved, writes, serverSide, announced,
                   budget>>

\* Near the end, or when the video ends.
reportCompletion ==
    /\ stage = "ready" /\ position = NearEnd /\ ~reported /\ ~saving
    /\ writes' = writes \cup {Write("complete", lesson, NearEnd)}
    /\ playing' = FALSE
    /\ IF player = "vdo"
       THEN saving' = TRUE /\ UNCHANGED <<reported, announced>>
       ELSE reported' = TRUE /\ announced' = announced \cup {lesson} /\ UNCHANGED saving
    /\ UNCHANGED <<screen, position, lastSaved, serverSide, furthest, budget>>

\* Every thirty seconds of playback, and when the page is hidden.
saveProgress ==
    /\ saves < MaxSaves /\ saves' = saves + 1
    /\ \/ /\ playing /\ stage = "ready" /\ position # lastSaved
          /\ lastSaved' = position
          /\ writes' = writes \cup {Write("progress", lesson, position)}
       \/ /\ writes' = writes \cup {Write("progress", lesson, currentWatchedSeconds)}
          /\ UNCHANGED lastSaved
    /\ UNCHANGED <<screen, position, playing, reported, saving, serverSide, furthest, announced,
                   openings, videoFailures>>

-----------------------------------------------------------------------------
(* The server keeps the furthest position.  Only the answer to a           *)
(* completion is looked at.                                                *)

\* A write that comes too early counts as far as the time since the last one allows:
\* bounded_topic_watch_seconds.
Recorded(w) ==
    \E at \in watched[w.lesson] .. Later(watched[w.lesson], w.at) :
        watched' = [watched EXCEPT ![w.lesson] = at]

\* A completion needs the position recorded near the end, else it is refused (409).
Complete(w) ==
    w.kind = "complete" /\ (w.lesson \in completed \/ watched'[w.lesson] = NearEnd)

Carried(w) ==
    /\ Recorded(w)
    /\ completed' = IF Complete(w) THEN completed \cup {w.lesson} ELSE completed

Ended(w, st) ==
    writes' = (writes \ {w}) \cup (IF w.kind = "complete" THEN {[w EXCEPT !.st = st]} ELSE {})

WriteServed(w) ==
    /\ w.st = "sent"
    /\ Carried(w) /\ Ended(w, IF Complete(w) THEN "saved" ELSE "refused")
    /\ UNCHANGED <<screen, position, playing, reported, saving, lastSaved, furthest,
                   announced, budget>>

\* A completion is lost, or its answer when it was carried out; progress that is
\* lost is as if it had come too early.
WriteFails(w) ==
    /\ w.st = "sent" /\ w.kind = "complete" /\ videoFailures < MaxVideoFailures
    /\ videoFailures' = videoFailures + 1
    /\ UNCHANGED serverSide \/ Carried(w)
    /\ Ended(w, "refused")
    /\ UNCHANGED <<screen, position, playing, reported, saving, lastSaved, furthest,
                   announced, openings, saves>>

\* As below, for whichever lesson is open by now.
CompletionAnsweredToAny(w) ==
    /\ w.st \in {"saved", "refused"} /\ writes' = writes \ {w}
    /\ IF player = "vdo"
       THEN /\ saving' = FALSE /\ reported' = (w.st = "saved")
            /\ announced' = IF reported' THEN announced \cup {lesson} ELSE announced
       ELSE UNCHANGED <<reported, saving, announced>>
    /\ UNCHANGED <<screen, position, playing, lastSaved, serverSide, furthest, budget>>

\* The YouTube player does not look at the answer.  An answer for another lesson
\* ends the wait of the lesson that is open.
CompletionAnswered(w) ==
    /\ w.st \in {"saved", "refused"} /\ writes' = writes \ {w}
    /\ IF player = "vdo"
       THEN /\ saving' = FALSE
            /\ IF w.lesson = lesson
               THEN /\ reported' = (w.st = "saved")
                    /\ announced' = IF reported' THEN announced \cup {lesson} ELSE announced
               ELSE UNCHANGED <<reported, announced>>
       ELSE UNCHANGED <<reported, saving, announced>>
    /\ UNCHANGED <<screen, position, playing, lastSaved, serverSide, furthest, budget>>

VideoNext ==
    \/ \E l \in Lesson : openLesson(l)
    \/ fetchStream \/ playerReady \/ handlePlay \/ handlePause \/ watch
    \/ reportCompletion \/ saveProgress
    \/ \E w \in writes : WriteServed(w) \/ WriteFails(w) \/ CompletionAnswered(w)

VideoSpec == VideoInit /\ [][VideoNext]_videoVars

-----------------------------------------------------------------------------
VideoTypeOK ==
    /\ lesson \in Lesson /\ stage \in {"loading", "read", "ready", "failed"}
    /\ {position, resumeAt, lastSaved} \subseteq 0 .. NearEnd
    /\ completed \subseteq Lesson /\ announced \subseteq Lesson
    /\ \A w \in writes : w.lesson \in Lesson /\ w.at \in 0 .. NearEnd
    /\ player = "youtube" => ~saving

\* Lessons are kept apart, whichever answers come in after another one was opened: no
\* lesson is recorded further than its own player was, and VideoPlayer announces a
\* lesson complete only when the server has it so.
LessonsKeptApart ==
    /\ \A l \in Lesson : watched[l] <= furthest[l]
    /\ player = "vdo" => announced \subseteq completed
=============================================================================
