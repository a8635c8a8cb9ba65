----------------------------- MODULE Whiteboard -----------------------------
(***************************************************************************)
(* The whiteboard of a lesson (hooks/useTopicWhiteboard.ts and             *)
(* components/topic-workspace/TopicWorkspaceWhiteboard.tsx): a scene that  *)
(* a student draws in one or more browser tabs, kept in localStorage while *)
(* it is dirty and saved to the server under the version it was loaded     *)
(* with.  A scene is the set of its strokes.  The editor, Excalidraw,      *)
(* takes a scene when it is mounted and reports its own afterwards.        *)
(***************************************************************************)
EXTENDS Naturals

CONSTANTS
  Tab,         \* tabs with the page of one lesson
  Placements,  \* in which browser each tab may run: a set of functions on Tab
  MaxStrokes,  \* bound: MaxStrokes[c] strokes are drawn in tab c
  Images,      \* the strokes that are pasted images
  Slow,        \* browsers whose clock may be behind the server's
  Fast,        \* browsers whose clock may be ahead of it
  MaxTime,     \* bound: the last reading of a clock
  MaxMounts,   \* bound: times the page is opened, in all tabs together
  MaxBoardFailures \* bound: requests and answers that are lost

ASSUME WhiteboardBounds ==
  /\ MaxStrokes \in [Tab -> Nat] /\ MaxTime \in Nat /\ MaxMounts \in Nat
  /\ MaxBoardFailures \in Nat
  /\ \A p \in Placements : DOMAIN p = Tab
  /\ Images \subseteq Tab \X Nat

VARIABLES
  browser,   \* where each tab runs; the tabs of a browser share localStorage
  now,       \* the server's clock
  document,  \* the row of the canvas document, of version 0 while there is none
  draft,     \* draft[b]: what localStorage of browser b holds
  tab,       \* the page in each tab
  drawn,     \* drawn[c]: strokes drawn in tab c so far
  mounts,    \* times the page was opened so far
  boardFailures, \* requests and answers lost so far
  resumable, \* resumable[c]: what tab c showed, unsaved, when it was last left
  overtaken  \* a save was written over another one since its version was read

boardVars == <<browser, now, document, draft, tab, drawn, mounts, boardFailures,
               resumable, overtaken>>

Stroke == UNION {{c} \X (1 .. MaxStrokes[c]) : c \in Tab}
NoScene == {<<0, 0>>}   \* not a scene
IsScene(s) == s \in SUBSET Stroke
NoDraft == [dirty |-> FALSE, scene |-> NoScene, base |-> 0, at |-> 0]
NoPut == [st |-> "none", scene |-> {}, base |-> 0, read |-> 0, at |-> 0]
Refused == [NoPut EXCEPT !.st = "conflict"]

\* What get_user_canvas_document answers when there is no row.
NoDocument == [scene |-> {}, version |-> 0, at |-> 0]

SyncStatus == {"loading", "saved", "dirty", "saving", "offline", "error", "conflict"}

\* stage: closed, loading (the GET is out), answered (its answer, got, is on
\* the way), open, or left with a save still on its way.  stray: another tab has
\* written the draft.
NoPage == [stage |-> "closed", got |-> NoDocument, editor |-> {},
           scene |-> {}, version |-> 0, dirty |-> FALSE, status |-> "loading",
           put |-> NoPut, stray |-> FALSE]

BoardInit ==
  /\ browser \in Placements
  /\ now = 0
  /\ document = NoDocument
  /\ draft = [b \in {browser[c] : c \in Tab} |-> NoDraft]
  /\ tab = [c \in Tab |-> NoPage]
  /\ drawn = [c \in Tab |-> 0]
  /\ mounts = 0
  /\ boardFailures = 0
  /\ resumable = [c \in Tab |-> NoScene]
  /\ overtaken = FALSE

HasImage(s) == s \cap Images # {}

\* What Date.now() may return in browser b.
Readings(b) == (IF b \in Slow THEN 0 ELSE now) .. (IF b \in Fast THEN MaxTime ELSE now)

ClockTicks ==
  /\ now < MaxTime
  /\ now' = now + 1
  /\ UNCHANGED <<browser, document, draft, tab, drawn, mounts, boardFailures,
                 resumable, overtaken>>

-----------------------------------------------------------------------------
(* Loading *)

\* The hook is mounted and asks for the document.
Mount(c) ==
  /\ tab[c].stage = "closed"
  /\ mounts < MaxMounts
  /\ mounts' = mounts + 1
  /\ tab' = [tab EXCEPT ![c] = [NoPage EXCEPT !.stage = "loading"]]
  /\ UNCHANGED <<browser, now, document, draft, drawn, boardFailures, resumable, overtaken>>

\* get_user_canvas_document.
ServeCanvas(c) ==
  /\ tab[c].stage = "loading"
  /\ tab' = [tab EXCEPT ![c].stage = "answered", ![c].got = document]
  /\ UNCHANGED <<browser, now, document, draft, drawn, mounts, boardFailures,
                 resumable, overtaken>>

ShowScene(c, scene, version, dirty, status) ==
  /\ tab' = [tab EXCEPT ![c] = [NoPage EXCEPT
       !.stage = "open", !.scene = scene, !.editor = scene,
       !.version = version, !.dirty = dirty, !.status = status]]
  /\ resumable' = [resumable EXCEPT ![c] = NoScene]

\* A mutant: the document is always preferred when it can be loaded.
LoadDocument(c) ==
  /\ tab[c].stage = "answered"
  /\ ShowScene(c, tab[c].got.scene, tab[c].got.version, FALSE, "saved")
  /\ UNCHANGED <<browser, now, document, draft, drawn, mounts, boardFailures, overtaken>>

\* A dirty draft that is not older than the document is preferred to it: the
\* browser's time of the one is compared with the server's of the other.
LoadAnswered(c) ==
  LET d == draft[browser[c]]
      local == d.dirty /\ d.at >= tab[c].got.at
  IN  /\ tab[c].stage = "answered"
      /\ IF local THEN ShowScene(c, d.scene, d.base, TRUE, "offline")
                  ELSE ShowScene(c, tab[c].got.scene, tab[c].got.version, FALSE, "saved")
      /\ UNCHANGED <<browser, now, document, draft, drawn, mounts, boardFailures, overtaken>>

\* Any draft is shown when the document cannot be loaded, else an empty scene.
LoadFailed(c) ==
  LET d == draft[browser[c]]
  IN  /\ tab[c].stage \in {"loading", "answered"}
      /\ boardFailures < MaxBoardFailures
      /\ boardFailures' = boardFailures + 1
      /\ IF d # NoDraft THEN ShowScene(c, d.scene, d.base, d.dirty, "offline")
                        ELSE ShowScene(c, {}, 0, FALSE, "error")
      /\ UNCHANGED <<browser, now, document, draft, drawn, mounts, overtaken>>

-----------------------------------------------------------------------------
(* Drawing *)

\* Tab c shows page and writes the draft that its browser's tabs share.
WriteDraft(c, page, d) ==
  /\ tab' = [e \in Tab |->
       IF e = c THEN page
       ELSE [tab[e] EXCEPT !.stray = @ \/ (browser[e] = browser[c] /\ tab[e].stage = "open")]]
  /\ draft' = [draft EXCEPT ![browser[c]] = d]
  /\ resumable' = [e \in Tab |-> IF browser[e] = browser[c] THEN NoScene ELSE resumable[e]]

\* handleSceneChange with what an editor of tab c now holds.
SceneChange(c, page, scene) ==
  IF scene = page.scene
  THEN /\ tab' = [tab EXCEPT ![c] = page]
       /\ UNCHANGED <<draft, resumable>>
  ELSE \E at \in Readings(browser[c]) :
         WriteDraft(c,
           [page EXCEPT !.scene = scene, !.dirty = TRUE,
                        !.status = IF HasImage(scene) THEN "error" ELSE "dirty"],
           [dirty |-> TRUE, scene |-> scene, base |-> page.version, at |-> at])

Draw(c) ==
  /\ tab[c].stage = "open"
  /\ drawn[c] < MaxStrokes[c]
  /\ drawn' = [drawn EXCEPT ![c] = @ + 1]
  /\ LET scene == tab[c].editor \cup {<<c, drawn[c] + 1>>}
     IN  SceneChange(c, [tab[c] EXCEPT !.editor = scene], scene)
  /\ UNCHANGED <<browser, now, document, mounts, boardFailures, overtaken>>

\* Excalidraw also reports its scene when only the view or the selection
\* changed; it keeps what was drawn while a save was out.
Touch(c) ==
  /\ tab[c].stage = "open" /\ tab[c].editor # tab[c].scene
  /\ SceneChange(c, tab[c], tab[c].editor)
  /\ UNCHANGED <<browser, now, document, drawn, mounts, boardFailures, overtaken>>

-----------------------------------------------------------------------------
(* Saving *)

\* The autosave timer or the button: a refused save only changes the status.
SaveRefused(c) ==
  /\ tab[c].stage = "open" /\ tab[c].put.st = "none"
  /\ tab[c].dirty /\ HasImage(tab[c].scene)
  /\ tab' = [tab EXCEPT ![c].status = "error"]
  /\ UNCHANGED <<browser, now, document, draft, drawn, mounts, boardFailures,
                 resumable, overtaken>>

\* A mutant: a save that has failed is not tried again.
SaveCanvasOnce(c) ==
  /\ tab[c].stage = "open" /\ tab[c].put.st = "none"
  /\ tab[c].dirty /\ ~ HasImage(tab[c].scene)
  /\ tab[c].status # "error"
  /\ tab' = [tab EXCEPT ![c].status = "saving",
       ![c].put = [st |-> "sent", scene |-> tab[c].scene, base |-> tab[c].version,
                   read |-> 0, at |-> 0]]
  /\ UNCHANGED <<browser, now, document, draft, drawn, mounts, boardFailures,
                 resumable, overtaken>>

SaveCanvas(c) ==
  /\ tab[c].stage = "open" /\ tab[c].put.st = "none"
  /\ tab[c].dirty /\ ~ HasImage(tab[c].scene)
  /\ tab' = [tab EXCEPT ![c].status = "saving",
       ![c].put = [st |-> "sent", scene |-> tab[c].scene, base |-> tab[c].version,
                   read |-> 0, at |-> 0]]
  /\ UNCHANGED <<browser, now, document, draft, drawn, mounts, boardFailures,
                 resumable, overtaken>>

\* A mutant: the version the scene is based on is not looked at.
CheckAnyVersion(c) ==
  /\ tab[c].put.st = "sent"
  /\ tab' = [tab EXCEPT ![c].put =
       [@ EXCEPT !.st = "checked", !.read = document.version, !.at = now]]
  /\ UNCHANGED <<browser, now, document, draft, drawn, mounts, boardFailures,
                 resumable, overtaken>>

\* save_user_canvas_document reads the document and compares the versions.  The
\* start of its transaction becomes updated_at.
CheckVersion(c) ==
  /\ tab[c].put.st = "sent"
  /\ tab' = [tab EXCEPT ![c].put =
       IF @.base = document.version
       THEN [@ EXCEPT !.st = "checked", !.read = document.version, !.at = now]
       ELSE Refused]
  /\ UNCHANGED <<browser, now, document, draft, drawn, mounts, boardFailures,
                 resumable, overtaken>>

\* It writes the version after the one it read; of two first versions one is
\* refused by the unique constraint.
CommitScene(c) ==
  LET put == tab[c].put
      refused == put.read = 0 /\ document.version # 0
  IN  /\ put.st = "checked"
      /\ tab' = [tab EXCEPT ![c].put =
           IF refused THEN Refused ELSE [@ EXCEPT !.st = "ok", !.base = 0, !.at = 0]]
      /\ IF refused THEN UNCHANGED <<document, resumable, overtaken>>
         ELSE /\ document' = [scene |-> put.scene, version |-> put.read + 1, at |-> put.at]
              /\ resumable' = [d \in Tab |-> NoScene]
              /\ overtaken' = (overtaken \/ put.read # document.version)
      /\ UNCHANGED <<browser, now, draft, drawn, mounts, boardFailures>>

\* What the page is when its save has come to an end.
AfterSave(c, page) ==
  IF page.stage = "open" THEN [page EXCEPT !.put = NoPut] ELSE NoPage

\* The saved scene becomes the page's, and the draft's, whatever was drawn
\* meanwhile.  The draft is also written when the page has been left.  Nobody
\* reads the time of a draft that is not dirty.
SaveAnswered(c) ==
  LET put == tab[c].put
      page == AfterSave(c, [tab[c] EXCEPT !.scene = put.scene, !.version = put.read + 1,
                                        !.dirty = FALSE, !.status = "saved"])
  IN  /\ put.st = "ok"
      /\ WriteDraft(c, page, [dirty |-> FALSE, scene |-> put.scene, base |-> put.read + 1,
                              at |-> 0])
      /\ UNCHANGED <<browser, now, document, drawn, mounts, boardFailures, overtaken>>

\* Nobody hears the answer when the tab has been closed or reloaded.
AnswerUnheard(c) ==
  /\ tab[c].stage = "left" /\ tab[c].put.st \in {"ok", "conflict"}
  /\ tab' = [tab EXCEPT ![c] = NoPage]
  /\ UNCHANGED <<browser, now, document, draft, drawn, mounts, boardFailures, resumable, overtaken>>

SaveConflicts(c) ==
  /\ tab[c].put.st = "conflict"
  /\ tab' = [tab EXCEPT ![c] = AfterSave(c, [tab[c] EXCEPT !.status = "conflict"])]
  /\ UNCHANGED <<browser, now, document, draft, drawn, mounts, boardFailures,
                 resumable, overtaken>>

\* The request is lost before it is handled, or its answer afterwards.
SaveFails(c) ==
  /\ tab[c].put.st \in {"sent", "ok", "conflict"}
  /\ boardFailures < MaxBoardFailures
  /\ boardFailures' = boardFailures + 1
  /\ tab' = [tab EXCEPT ![c] = AfterSave(c, [tab[c] EXCEPT !.status = "error"])]
  /\ UNCHANGED <<browser, now, document, draft, drawn, mounts, resumable, overtaken>>

\* The page is left for another one of the application, or the tab is closed or
\* reloaded; a save that is out goes on.  The page that the student opens again
\* before its answer is that of another tab in the same browser: a tab is one
\* instance of the hook.
Leave(c) ==
  /\ tab[c].stage \in {"loading", "answered", "open"}
  /\ tab' = [tab EXCEPT ![c] = IF tab[c].put = NoPut THEN NoPage
                               ELSE [NoPage EXCEPT !.stage = "left", !.put = tab[c].put]]
  /\ resumable' = IF tab[c].stage = "open" /\ tab[c].dirty /\ tab[c].put = NoPut
                     /\ tab[c].version = document.version /\ ~ tab[c].stray
                  THEN [resumable EXCEPT ![c] = tab[c].scene] ELSE resumable
  /\ UNCHANGED <<browser, now, document, draft, drawn, mounts, boardFailures, overtaken>>

BoardStep(c) ==
  \/ Mount(c) \/ ServeCanvas(c) \/ LoadAnswered(c) \/ LoadFailed(c)
  \/ Draw(c) \/ Touch(c)
  \/ SaveRefused(c) \/ SaveCanvas(c) \/ CheckVersion(c) \/ CommitScene(c)
  \/ SaveAnswered(c) \/ AnswerUnheard(c) \/ SaveConflicts(c) \/ SaveFails(c)
  \/ Leave(c)

BoardNext == (\E c \in Tab : BoardStep(c)) \/ ClockTicks

\* The timer of a dirty scene fires, and the server and the network answer.
BoardFairness ==
  \A c \in Tab :
    WF_boardVars(\/ SaveCanvas(c) \/ CheckVersion(c) \/ CommitScene(c)
                 \/ SaveAnswered(c) \/ SaveConflicts(c))

BoardSpec == BoardInit /\ [][BoardNext]_boardVars /\ BoardFairness

-----------------------------------------------------------------------------
(* Properties *)

BoardTypeOK ==
  /\ IsScene(document.scene) /\ document.at <= now /\ now <= MaxTime
  /\ \A b \in DOMAIN draft : draft[b] = NoDraft \/ IsScene(draft[b].scene)
  /\ \A c \in Tab :
       /\ tab[c].stage \in {"closed", "loading", "answered", "open", "left"}
       /\ tab[c].status \in SyncStatus
       /\ tab[c].put.st \in {"none", "sent", "checked", "ok", "conflict"}
       /\ IsScene(tab[c].scene) /\ IsScene(tab[c].editor)
  /\ boardFailures \in 0 .. MaxBoardFailures

\* No save drops a stroke another browser has put on the server: the version it
\* is based on travels with the scene through drafts, failed loads and lost
\* answers (save_user_canvas_document's 409).  Excepted is a
\* save that was overtaken between its check and its write, which do not lock.
NothingOverwrittenUnseen ==
  [][\A c \in Tab :
       tab[c].put.st = "checked" /\ ~ overtaken' =>
         \A s \in document.scene :
           browser[s[1]] # browser[c] /\ tab'[c].put.st = "ok"
           => s \in document'.scene]_boardVars

\* A page that was left or crashed with an unsaved scene shows that scene when
\* it is opened again, if no save was out and nothing was written since (the
\* local draft of useTopicWhiteboard.ts, 103-120).  Excepted are a scene that no
\* longer belongs to the current version, and a browser whose clock may be behind
\* the server's: its draft may seem older than the document it was drawn on.
DraftIsResumed ==
  [][\A c \in Tab :
       (/\ ~ overtaken /\ resumable[c] # NoScene /\ browser[c] \notin Slow
        /\ tab[c].stage \in {"loading", "answered"} /\ tab'[c].stage = "open")
       => tab'[c].scene = resumable[c]]_boardVars

\* A dirty scene does not stay unsaved (useTopicWhiteboard.ts, 203-209), unless
\* it has an image or its version is contested; failures only delay the save.
DirtyIsSaved ==
  \A c \in Tab :
    []<>(tab[c].stage = "open" /\ tab[c].dirty =>
           HasImage(tab[c].scene) \/ tab[c].status = "conflict")
=============================================================================
