------------------------- MODULE Whiteboard_proofs -------------------------
(* What Whiteboard keeps for any tabs in any browsers, any clocks, any     *)
(* strokes and any losses.                                                 *)
EXTENDS Whiteboard, TLAPS

Scene == SUBSET Stroke
Browsers == {browser[c] : c \in Tab}

Doc == [scene : Scene, version : Nat, at : Nat]
Put == [st : {"none", "sent", "checked", "ok", "conflict"}, scene : Scene,
        base : Nat, read : Nat, at : Nat]
Page == [stage : {"closed", "loading", "answered", "open", "left"}, got : Doc,
         editor : Scene, scene : Scene, version : Nat, dirty : BOOLEAN,
         status : SyncStatus, put : Put, stray : BOOLEAN]
Draft == [dirty : BOOLEAN, scene : Scene, base : Nat, at : Nat]

\* The row was written by now.
GoodDocument ==
  /\ document \in Doc /\ now \in 0 .. MaxTime /\ document.at <= now
  /\ document.version = 0 => document.scene = {}

BoardShape ==
  /\ DOMAIN browser = Tab
  /\ GoodDocument
  /\ draft \in [Browsers -> Draft \cup {NoDraft}]
  /\ tab \in [Tab -> Page]
  /\ drawn \in [Tab -> Nat] /\ \A c \in Tab : drawn[c] <= MaxStrokes[c]
  /\ boardFailures \in 0 .. MaxBoardFailures
  /\ overtaken \in BOOLEAN

\* A scene of browser b that is taken for version v is not ahead of the document, and if
\* v is the document's it has the strokes which other browsers have put there.
Covers(b, scene, v) ==
  ~ overtaken =>
    /\ v <= document.version
    /\ v = document.version => \A s \in document.scene : browser[s[1]] # b => s \in scene

GoodDraft(b, d) == d \in Draft /\ Covers(b, d.scene, d.base)

\* What a save that is done has written, unless a later version replaced it.
SavedAs(put) ==
  ~ overtaken => /\ put.read + 1 <= document.version
                 /\ put.read + 1 = document.version => document.scene = put.scene

\* The editor, which is where the next scene comes from, never falls behind the scene
\* that the page believes in, nor behind the one being saved.  A save on its way covers
\* its base; one that is checked will write the version after that, and one that is done
\* has written its scene.
GoodPage(c, page) ==
  LET put == page.put
      behind(scene) == \A s \in scene : browser[s[1]] # browser[c] => s \in page.editor
  IN  /\ page \in Page
      /\ page.stage = "answered" => Covers(browser[c], page.got.scene, page.got.version)
      /\ page.stage = "open" => /\ Covers(browser[c], page.scene, page.version)
                                /\ behind(page.scene)
                                /\ put.st # "none" => behind(put.scene)
      /\ put.st \in {"sent", "checked"} => Covers(browser[c], put.scene, put.base)
      /\ put.st = "checked" => put.read = put.base /\ put.at <= now
      /\ put.st = "ok" => SavedAs(put)

BoardInv ==
  /\ BoardShape
  /\ \A b \in Browsers : draft[b] # NoDraft => GoodDraft(b, draft[b])
  /\ \A c \in Tab : GoodPage(c, tab[c])

-----------------------------------------------------------------------------
LEMMA NoPageIsPage == NoPage \in Page /\ NoPut \in Put /\ NoDocument \in Doc
<1>1. NoDocument \in Doc
  BY DEF NoDocument, Doc, Scene
<1>2. NoPut \in Put
  BY DEF NoPut, Put, Scene
<1>3. {} \in Scene /\ "loading" \in SyncStatus
  BY DEF Scene, SyncStatus
<1> QED  BY <1>1, <1>2, <1>3 DEF NoPage, Page

\* An undrawn stroke of a tab within its bound.
LEMMA NextStroke ==
  ASSUME BoardShape, NEW c \in Tab, drawn[c] < MaxStrokes[c]
  PROVE  <<c, drawn[c] + 1>> \in Stroke
<1>1. drawn[c] + 1 \in 1 .. MaxStrokes[c]
  BY WhiteboardBounds DEF BoardShape
<1> QED  BY <1>1 DEF Stroke

\* A page that has nothing of its own.
LEMMA NoPageIsGood ==
  ASSUME NEW c \in Tab PROVE GoodPage(c, NoPage)
<1>1. NoPage \in Page /\ NoPage.stage = "closed" /\ NoPage.put = NoPut
  BY NoPageIsPage DEF NoPage
<1>2. NoPut.st = "none"
  BY DEF NoPut
<1> QED  BY <1>1, <1>2 DEF GoodPage

LEMMA BoardStarts == BoardInit => BoardInv
<1> SUFFICES ASSUME BoardInit PROVE BoardInv
  OBVIOUS
<1>1. GoodDocument /\ overtaken \in BOOLEAN
  <2>1. document = NoDocument /\ document \in Doc /\ now = 0 /\ overtaken = FALSE
    BY NoPageIsPage DEF BoardInit
  <2>2. document.at = 0 /\ document.scene = {}
    BY <2>1 DEF NoDocument
  <2>3. now \in 0 .. MaxTime
    BY <2>1, WhiteboardBounds
  <2>4. document.at <= now
    BY <2>1, <2>2
  <2> QED  BY <2>1, <2>2, <2>3, <2>4 DEF GoodDocument
<1>2. draft \in [Browsers -> Draft \cup {NoDraft}] /\ tab \in [Tab -> Page]
  BY NoPageIsPage DEF BoardInit, Browsers
<1>3. drawn \in [Tab -> Nat] /\ \A c \in Tab : drawn[c] <= MaxStrokes[c]
  BY WhiteboardBounds DEF BoardInit
<1>4. boardFailures \in 0 .. MaxBoardFailures /\ DOMAIN browser = Tab
  BY WhiteboardBounds DEF BoardInit
<1>5. \A c \in Tab : GoodPage(c, tab[c])
  BY NoPageIsGood DEF BoardInit
<1>6. \A b \in Browsers : draft[b] = NoDraft
  BY DEF BoardInit, Browsers
<1> QED  BY <1>1, <1>2, <1>3, <1>4, <1>5, <1>6 DEF BoardInv, BoardShape

-----------------------------------------------------------------------------
(* What a step of one tab leaves.                                          *)

\* The counters of the bounds.
Counters ==
  /\ drawn \in [Tab -> Nat] /\ \A c \in Tab : drawn[c] <= MaxStrokes[c]
  /\ boardFailures \in 0 .. MaxBoardFailures

LEMMA Counting ==
  ASSUME BoardShape,
         UNCHANGED drawn \/ \E c \in Tab : /\ drawn[c] < MaxStrokes[c]
                                           /\ drawn' = [drawn EXCEPT ![c] = @ + 1],
         \/ UNCHANGED boardFailures
         \/ boardFailures < MaxBoardFailures /\ boardFailures' = boardFailures + 1
  PROVE  Counters'
<1>1. boardFailures' \in 0 .. MaxBoardFailures
  BY WhiteboardBounds DEF BoardShape
<1>2. drawn' \in [Tab -> Nat] /\ \A c \in Tab : drawn'[c] <= MaxStrokes[c]
  <2>1. CASE UNCHANGED drawn
    BY <2>1 DEF BoardShape
  <2>2. ASSUME NEW c \in Tab, drawn[c] < MaxStrokes[c], drawn' = [drawn EXCEPT ![c] = @ + 1]
        PROVE  drawn' \in [Tab -> Nat] /\ \A e \in Tab : drawn'[e] <= MaxStrokes[e]
    <3>1. MaxStrokes[c] \in Nat /\ drawn[c] \in Nat
      BY WhiteboardBounds DEF BoardShape
    <3> QED  BY <2>2, <3>1 DEF BoardShape
  <2> QED  BY <2>1, <2>2
<1> QED  BY <1>1, <1>2 DEF Counters

\* What the invariant says of a page, a draft and a scene rests on these.
LEMMA RowAlone ==
  ASSUME UNCHANGED <<browser, now, document, overtaken>>
  PROVE  /\ GoodDocument' <=> GoodDocument
         /\ \A b, scene, v : Covers(b, scene, v)' <=> Covers(b, scene, v)
         /\ \A b, d : GoodDraft(b, d)' <=> GoodDraft(b, d)
         /\ \A c \in Tab : \A page : GoodPage(c, page)' <=> GoodPage(c, page)
<1>1. GoodDocument' <=> GoodDocument
  BY DEF GoodDocument
<1>2. \A b, scene, v : Covers(b, scene, v)' <=> Covers(b, scene, v)
  BY DEF Covers
<1>3. \A b, d : GoodDraft(b, d)' <=> GoodDraft(b, d)
  BY <1>2 DEF GoodDraft
<1>4. \A put : SavedAs(put)' <=> SavedAs(put)
  BY DEF SavedAs
<1>5. ASSUME NEW c \in Tab, NEW page PROVE GoodPage(c, page)' <=> GoodPage(c, page)
  BY <1>2, <1>4 DEF GoodPage
<1> QED  BY <1>1, <1>2, <1>3, <1>5

\* A step of tab c that writes neither a version nor the draft keeps the invariant, if
\* the page it shows does.
LEMMA PageChanges ==
  ASSUME BoardInv, NEW c \in Tab, NEW page, GoodPage(c, page),
         tab' = [tab EXCEPT ![c] = page],
         UNCHANGED <<browser, now, document, draft, overtaken>>, Counters'
  PROVE  BoardInv'
<1>0. page \in Page /\ BoardShape
  BY DEF GoodPage, BoardInv
<1>1. BoardShape'
  <2>1. tab' \in [Tab -> Page]
    BY <1>0 DEF BoardShape
  <2> QED  BY <1>0, <2>1, RowAlone DEF BoardShape, Browsers, Counters
<1>2. \A e \in Tab : GoodPage(e, tab'[e])
  BY <1>0 DEF BoardInv, BoardShape
<1>3. \A e \in Tab : GoodPage(e, tab[e])'
  BY <1>2, RowAlone
<1>4. (\A b \in Browsers : draft[b] # NoDraft => GoodDraft(b, draft[b]))'
  BY RowAlone DEF BoardInv, Browsers
<1> QED  BY <1>1, <1>3, <1>4 DEF BoardInv

\* So does one that writes the draft as well.
LEMMA DraftChanges ==
  ASSUME BoardInv, NEW c \in Tab, NEW page, GoodPage(c, page),
         NEW d, GoodDraft(browser[c], d), WriteDraft(c, page, d),
         UNCHANGED <<browser, now, document, overtaken>>, Counters'
  PROVE  BoardInv'
<1>1. BoardShape /\ \A e \in Tab : GoodPage(e, tab[e])
  BY DEF BoardInv
<1>2. \A e \in Tab : \E x \in BOOLEAN :
        tab'[e] = IF e = c THEN page ELSE [tab[e] EXCEPT !.stray = x]
  BY <1>1 DEF WriteDraft, BoardShape, Page
<1>3. ASSUME NEW e \in Tab, NEW x \in BOOLEAN PROVE GoodPage(e, [tab[e] EXCEPT !.stray = x])
  BY <1>1 DEF GoodPage, Page
<1>4. \A e \in Tab : GoodPage(e, tab'[e])
  BY <1>2, <1>3
<1>5. \A e \in Tab : GoodPage(e, tab[e])'
  BY <1>4, RowAlone
<1>6. BoardShape'
  <2>1. tab' \in [Tab -> Page]
    BY <1>4 DEF WriteDraft, GoodPage
  <2>2. draft' \in [Browsers -> Draft \cup {NoDraft}]
    BY <1>1 DEF BoardShape, WriteDraft, GoodDraft
  <2> QED  BY <1>1, <2>1, <2>2, RowAlone DEF BoardShape, Browsers, Counters
<1>7. (\A b \in Browsers : draft[b] # NoDraft => GoodDraft(b, draft[b]))'
  <2>1. \A b \in Browsers : draft'[b] # draft[b] => draft'[b] = d /\ b = browser[c]
    BY <1>1 DEF BoardShape, WriteDraft
  <2>2. \A b \in Browsers : draft'[b] # NoDraft => GoodDraft(b, draft'[b])
    BY <2>1 DEF BoardInv
  <2> QED  BY <2>2, RowAlone DEF Browsers
<1> QED  BY <1>5, <1>6, <1>7 DEF BoardInv

-----------------------------------------------------------------------------
(* One lemma per group of actions.                                         *)

\* Whatever is shown on loading covers the version it is taken for.
LEMMA ShowingKeeps ==
  ASSUME BoardInv, NEW c \in Tab, NEW scene \in Scene, NEW version \in Nat,
         Covers(browser[c], scene, version),
         NEW dirty \in BOOLEAN, NEW status \in SyncStatus,
         ShowScene(c, scene, version, dirty, status),
         UNCHANGED <<browser, now, document, draft, overtaken>>, Counters'
  PROVE  BoardInv'
<1> DEFINE page == [NoPage EXCEPT
             !.stage = "open", !.scene = scene, !.editor = scene,
             !.version = version, !.dirty = dirty, !.status = status]
<1>1. GoodPage(c, page)
  <2>1. page \in Page
    BY NoPageIsPage DEF NoPage, Page
  <2>2. /\ page.stage = "open" /\ page.scene = scene /\ page.editor = scene
        /\ page.version = version /\ page.put = NoPut
    BY DEF NoPage
  <2> HIDE DEF page
  <2>3. page.put.st = "none"
    BY <2>2 DEF NoPut
  <2> QED  BY <2>1, <2>2, <2>3 DEF GoodPage
<1>2. tab' = [tab EXCEPT ![c] = page]
  BY DEF ShowScene
<1> HIDE DEF page
<1> QED  BY <1>1, <1>2, PageChanges

LEMMA BoardLoadingKeeps ==
  ASSUME BoardInv, NEW c \in Tab, Mount(c) \/ ServeCanvas(c) \/ LoadAnswered(c) \/ LoadFailed(c)
  PROVE  BoardInv'
<1>1. BoardShape /\ GoodPage(c, tab[c]) /\ browser[c] \in Browsers
  BY DEF BoardInv, Browsers
<1>2. draft[browser[c]] # NoDraft => GoodDraft(browser[c], draft[browser[c]])
  BY <1>1 DEF BoardInv
<1>3. Counters'
  BY <1>1, Counting DEF Mount, ServeCanvas, LoadAnswered, LoadFailed
<1>4. CASE Mount(c)
  <2> DEFINE page == [NoPage EXCEPT !.stage = "loading"]
  <2>1. page \in Page
    BY NoPageIsPage DEF NoPage, Page
  <2>2. page.stage = "loading" /\ page.put.st = "none"
    BY DEF NoPage, NoPut
  <2>3. GoodPage(c, page)
    BY <2>1, <2>2 DEF GoodPage
  <2> HIDE DEF page
  <2>4. tab' = [tab EXCEPT ![c] = page]
    BY <1>4 DEF Mount, page
  <2> QED  BY <1>3, <1>4, <2>3, <2>4, PageChanges DEF Mount
<1>5. CASE ServeCanvas(c)
  <2> DEFINE page == [tab[c] EXCEPT !.stage = "answered", !.got = document]
  <2>1. document \in Doc /\ tab[c] \in Page
    BY <1>1 DEF BoardShape, GoodDocument, GoodPage
  <2>2. /\ page \in Page
        /\ page.stage = "answered" /\ page.put = tab[c].put /\ page.got = document
    BY <2>1 DEF Page
  <2>3. tab' = [tab EXCEPT ![c] = page]
    BY <1>1, <1>5 DEF ServeCanvas, BoardShape, Page
  <2>4. Covers(browser[c], document.scene, document.version)
    BY <2>1 DEF Covers, Doc
  <2> HIDE DEF page
  <2>5. GoodPage(c, page)
    BY <1>1, <2>2, <2>4 DEF GoodPage
  <2> QED  BY <1>3, <1>5, <2>3, <2>5, PageChanges DEF ServeCanvas
<1>6. CASE LoadAnswered(c)
  <2>1. /\ tab[c].got.scene \in Scene /\ tab[c].got.version \in Nat
        /\ Covers(browser[c], tab[c].got.scene, tab[c].got.version)
    BY <1>1, <1>6 DEF GoodPage, Page, Doc, LoadAnswered
  <2>2. draft[browser[c]].dirty => GoodDraft(browser[c], draft[browser[c]])
    BY <1>2 DEF NoDraft
  <2> QED  BY <1>3, <1>6, <2>1, <2>2, ShowingKeeps DEF LoadAnswered, GoodDraft, Draft, SyncStatus
<1>7. CASE LoadFailed(c)
  <2>1. {} \in Scene /\ Covers(browser[c], {}, 0)
    BY <1>1 DEF Scene, Covers, BoardShape, GoodDocument, Doc
  <2> QED  BY <1>2, <1>3, <1>7, <2>1, ShowingKeeps DEF LoadFailed, GoodDraft, Draft, SyncStatus
<1> QED  BY <1>4, <1>5, <1>6, <1>7

\* The times a browser may write are times.
LEMMA ReadingsAreTimes ==
  ASSUME BoardShape, NEW b
  PROVE  \A at \in Readings(b) : at \in Nat /\ (b \notin Slow => at >= now)
<1>1. now \in Nat /\ MaxTime \in Nat
  BY WhiteboardBounds DEF BoardShape, GoodDocument
<1> QED  BY <1>1 DEF Readings

LEMMA DrawingKeeps ==
  ASSUME BoardInv, NEW c \in Tab, Draw(c) \/ Touch(c)
  PROVE  BoardInv'
<1>1. BoardShape /\ GoodPage(c, tab[c])
  BY DEF BoardInv
<1>2. PICK scene \in Scene : /\ tab[c].editor \subseteq scene
                             /\ SceneChange(c, [tab[c] EXCEPT !.editor = scene], scene)
  <2>1. CASE Draw(c)
    BY <1>1, <2>1, NextStroke DEF Draw, GoodPage, Page, Scene
  <2>2. CASE Touch(c)
    BY <1>1, <2>2 DEF Touch, GoodPage, Page
  <2> QED  BY <2>1, <2>2
<1>3. Counters'
  BY <1>1, Counting DEF Draw, Touch
<1>4. /\ tab[c].stage = "open"
      /\ UNCHANGED <<browser, now, document, overtaken>>
  BY DEF Draw, Touch
<1> DEFINE page == [tab[c] EXCEPT !.editor = scene]
           changed == [page EXCEPT !.scene = scene, !.dirty = TRUE,
                                   !.status = IF HasImage(scene) THEN "error" ELSE "dirty"]
           d(at) == [dirty |-> TRUE, scene |-> scene, base |-> page.version, at |-> at]
<1>5. GoodPage(c, page) /\ page.version = tab[c].version
  BY <1>1, <1>2 DEF GoodPage, Page
<1>6. Covers(browser[c], scene, tab[c].version)
  BY <1>1, <1>2, <1>4 DEF GoodPage, Covers
<1>7. GoodPage(c, changed)
  BY <1>1, <1>2, <1>4, <1>6 DEF GoodPage, Page, SyncStatus
<1>8. \A at \in Nat : GoodDraft(browser[c], d(at))
  BY <1>1, <1>5, <1>6 DEF GoodDraft, Draft, GoodPage, Page
<1>9. \/ tab' = [tab EXCEPT ![c] = page] /\ UNCHANGED draft
      \/ \E at \in Nat : WriteDraft(c, changed, d(at))
  BY <1>1, <1>2, ReadingsAreTimes DEF SceneChange
<1> HIDE DEF page, changed, d
<1> QED  BY <1>3, <1>4, <1>5, <1>7, <1>8, <1>9, PageChanges, DraftChanges

LEMMA SavingKeeps ==
  ASSUME BoardInv, NEW c \in Tab, SaveRefused(c) \/ SaveCanvas(c) \/ CheckVersion(c)
  PROVE  BoardInv'
<1>1. BoardShape /\ GoodPage(c, tab[c])
  BY DEF BoardInv
<1>2. Counters' /\ UNCHANGED <<browser, now, document, draft, overtaken>>
  BY <1>1, Counting DEF SaveRefused, SaveCanvas, CheckVersion
<1>3. CASE SaveRefused(c)
  <2>1. GoodPage(c, [tab[c] EXCEPT !.status = "error"])
    BY <1>1 DEF GoodPage, Page, SyncStatus
  <2>2. tab' = [tab EXCEPT ![c] = [tab[c] EXCEPT !.status = "error"]]
    BY <1>1, <1>3 DEF SaveRefused, BoardShape, Page
  <2> QED  BY <1>2, <2>1, <2>2, PageChanges
<1>4. CASE SaveCanvas(c)
  <2> DEFINE put == [st |-> "sent", scene |-> tab[c].scene, base |-> tab[c].version,
                     read |-> 0, at |-> 0]
             page == [tab[c] EXCEPT !.status = "saving", !.put = put]
  <2>1. GoodPage(c, page)
    BY <1>1, <1>4 DEF SaveCanvas, GoodPage, Page, Put, SyncStatus
  <2>2. tab' = [tab EXCEPT ![c] = page]
    BY <1>1, <1>4 DEF SaveCanvas, BoardShape, Page
  <2> HIDE DEF page
  <2> QED  BY <1>2, <2>1, <2>2, PageChanges
<1>5. CASE CheckVersion(c)
  <2>1. PICK put : put = IF tab[c].put.base = document.version
                         THEN [tab[c].put EXCEPT !.st = "checked", !.read = document.version, !.at = now]
                         ELSE Refused
    OBVIOUS
  <2>2. PICK page : page = [tab[c] EXCEPT !.put = put]
    OBVIOUS
  <2>3. /\ tab[c] \in Page /\ tab[c].put \in Put /\ tab[c].put.st = "sent"
        /\ document.version \in Nat /\ now \in Nat
    BY <1>1, <1>5 DEF CheckVersion, BoardShape, GoodDocument, Doc, GoodPage, Page
  <2>4. \/ /\ put \in Put /\ put.st = "checked" /\ put.read = document.version /\ put.at = now
           /\ put.base = document.version /\ put.scene = tab[c].put.scene
           /\ tab[c].put.base = put.base
        \/ put \in Put /\ put.st = "conflict" /\ put.scene = {}
    BY <2>1, <2>3 DEF Put, Refused, NoPut, Scene
  <2>5. /\ page \in Page /\ page.put = put /\ page.stage = tab[c].stage /\ page.got = tab[c].got
        /\ page.scene = tab[c].scene /\ page.editor = tab[c].editor
        /\ page.version = tab[c].version
    BY <2>2, <2>3, <2>4 DEF Page
  <2>6. GoodPage(c, page)
    BY <1>1, <2>3, <2>4, <2>5 DEF GoodPage
  <2>7. tab' = [tab EXCEPT ![c] = page]
    BY <1>1, <1>5, <2>1, <2>2 DEF CheckVersion, BoardShape
  <2> QED  BY <1>2, <2>6, <2>7, PageChanges
<1> QED  BY <1>3, <1>4, <1>5

\* A later version leaves what the pages and the drafts of others cover.
LEMMA Writing ==
  ASSUME BoardShape, UNCHANGED <<browser, now>>, document' \in Doc,
         ~ overtaken' => ~ overtaken /\ document.version < document'.version
  PROVE  /\ \A b, scene : \A v \in Nat : Covers(b, scene, v) => Covers(b, scene, v)'
         /\ \A e \in Tab : \A page : GoodPage(e, page) => GoodPage(e, page)'
<1>1. document.version \in Nat /\ document'.version \in Nat
  BY DEF BoardShape, GoodDocument, Doc
<1>2. \A b, scene : \A v \in Nat : Covers(b, scene, v) => Covers(b, scene, v)'
  BY <1>1 DEF Covers
<1>3. ASSUME NEW e \in Tab, NEW page, GoodPage(e, page)
      PROVE  GoodPage(e, page)'
  <2>1. /\ page.got.version \in Nat /\ page.version \in Nat
        /\ page.put.base \in Nat /\ page.put.read \in Nat
    BY <1>3 DEF GoodPage, Page, Put, Doc
  <2>2. page.put.st = "ok" => SavedAs(page.put)'
    BY <1>1, <1>3, <2>1 DEF GoodPage, SavedAs
  <2>3. /\ page.stage = "answered" => Covers(browser[e], page.got.scene, page.got.version)'
        /\ page.stage = "open" => Covers(browser[e], page.scene, page.version)'
        /\ page.put.st \in {"sent", "checked"} => Covers(browser[e], page.put.scene, page.put.base)'
    BY <1>2, <1>3, <2>1 DEF GoodPage
  <2> QED  BY <1>3, <2>2, <2>3 DEF GoodPage
<1> QED  BY <1>2, <1>3

\* The row that a save writes.
RowOf(put) == [scene |-> put.scene, version |-> put.read + 1, at |-> put.at]

\* What a write that is not refused does to the row: it is put after the version it has
\* read, which was the last one unless it was overtaken.
LEMMA CommitWrites ==
  ASSUME BoardInv, NEW c \in Tab, CommitScene(c), tab'[c].put.st = "ok"
  PROVE  /\ document' = RowOf(tab[c].put)
         /\ GoodDocument' /\ overtaken' \in BOOLEAN
         /\ \A d \in Tab : resumable'[d] = NoScene
         /\ ~ overtaken' =>
              /\ ~ overtaken /\ document.version < document'.version
              /\ tab[c].put.base = document.version
<1>1. BoardShape /\ GoodPage(c, tab[c])
  BY DEF BoardInv
<1>2. /\ tab[c] \in Page /\ tab[c].put \in Put /\ tab[c].put.st = "checked"
      /\ tab[c].put.read = tab[c].put.base /\ tab[c].put.at <= now
      /\ document.version \in Nat /\ overtaken \in BOOLEAN /\ UNCHANGED now
  BY <1>1 DEF BoardShape, GoodPage, Page, CommitScene, GoodDocument, Doc
<1>3. ~(tab[c].put.read = 0 /\ document.version # 0)
  <2>1. SUFFICES ASSUME tab[c].put.read = 0 /\ document.version # 0 PROVE FALSE
    OBVIOUS
  <2>2. tab' = [tab EXCEPT ![c].put = Refused]
    BY <2>1 DEF CommitScene
  <2>3. tab'[c].put = Refused
    BY <1>1, <2>2 DEF BoardShape, Page
  <2> QED  BY <2>3 DEF Refused, NoPut
<1>4. /\ document' = RowOf(tab[c].put)
      /\ \A d \in Tab : resumable'[d] = NoScene
      /\ overtaken' = (overtaken \/ tab[c].put.read # document.version)
  BY <1>1, <1>3 DEF CommitScene, BoardShape, RowOf
<1>5. /\ tab[c].put.scene \in Scene /\ tab[c].put.read \in Nat /\ tab[c].put.at \in Nat
  BY <1>2 DEF Put
<1>6. /\ document' \in Doc /\ document'.version = tab[c].put.read + 1
      /\ document'.at = tab[c].put.at /\ document'.version # 0
  BY <1>4, <1>5 DEF Doc, RowOf
<1>7. GoodDocument'
  BY <1>1, <1>2, <1>6 DEF GoodDocument, BoardShape
<1>8. overtaken' \in BOOLEAN /\ (~ overtaken' => ~ overtaken /\ tab[c].put.read = document.version)
  BY <1>4, Zenon
<1>9. ~ overtaken' => document.version < document'.version
  BY <1>2, <1>6, <1>8
<1> QED  BY <1>2, <1>4, <1>7, <1>8, <1>9

LEMMA CommitKeeps ==
  ASSUME BoardInv, NEW c \in Tab, CommitScene(c)
  PROVE  BoardInv'
<1>1. BoardShape /\ GoodPage(c, tab[c]) /\ tab[c].put.st = "checked"
  BY DEF BoardInv, CommitScene
<1>2. Counters' /\ UNCHANGED <<browser, now, draft>>
  BY <1>1, Counting DEF CommitScene
<1>3. tab[c] \in Page /\ tab[c].put \in Put
  BY <1>1 DEF GoodPage, Page
<1>4. PICK put : /\ tab' = [tab EXCEPT ![c].put = put]
                 /\ \/ put = Refused /\ UNCHANGED <<document, overtaken>>
                    \/ put = [tab[c].put EXCEPT !.st = "ok", !.base = 0, !.at = 0]
  BY <1>1 DEF CommitScene, BoardShape
<1>5. PICK page : page = [tab[c] EXCEPT !.put = put]
  OBVIOUS
<1>6. \/ put \in Put /\ put.st = "conflict" /\ put.scene = {} /\ UNCHANGED <<document, overtaken>>
      \/ /\ put \in Put /\ put.st = "ok"
         /\ put.scene = tab[c].put.scene /\ put.read = tab[c].put.read
  <2>1. Refused \in Put /\ Refused.st = "conflict" /\ Refused.scene = {}
    BY NoPageIsPage DEF Refused, NoPut, Put
  <2>2. CASE put = [tab[c].put EXCEPT !.st = "ok", !.base = 0, !.at = 0]
    <3>1. \A p \in Put : LET q == [p EXCEPT !.st = "ok", !.base = 0, !.at = 0]
                       IN  q \in Put /\ q.st = "ok" /\ q.scene = p.scene /\ q.read = p.read
      BY DEF Put
    <3> QED  BY <1>3, <2>2, <3>1
  <2> QED  BY <1>4, <2>1, <2>2
<1>7. /\ page \in Page /\ page.put = put /\ page.stage = tab[c].stage /\ page.got = tab[c].got
      /\ page.scene = tab[c].scene /\ page.editor = tab[c].editor
      /\ page.version = tab[c].version
  BY <1>3, <1>5, <1>6 DEF Page
<1>8. tab'[c] = page /\ tab' = [tab EXCEPT ![c] = page]
  BY <1>1, <1>4, <1>5 DEF BoardShape
<1>9. CASE put.st = "conflict"
  <2>1. GoodPage(c, page)
    BY <1>1, <1>6, <1>7, <1>9 DEF GoodPage
  <2> QED  BY <1>2, <1>6, <1>8, <1>9, <2>1, PageChanges
<1>10. CASE put.st = "ok"
  <2>1. /\ document' \in Doc /\ document'.version = put.read + 1 /\ document'.scene = put.scene
        /\ GoodDocument' /\ overtaken' \in BOOLEAN
        /\ ~ overtaken' => ~ overtaken /\ document.version < document'.version
    <3>1. document'.version = put.read + 1 /\ document'.scene = put.scene
      BY <1>6, <1>7, <1>8, <1>10, CommitWrites DEF RowOf
    <3>2. /\ GoodDocument' /\ overtaken' \in BOOLEAN
          /\ ~ overtaken' => ~ overtaken /\ document.version < document'.version
      BY <1>7, <1>8, <1>10, CommitWrites
    <3> QED  BY <3>1, <3>2 DEF GoodDocument
  <2>2. \A b, scene : \A v \in Nat : Covers(b, scene, v) => Covers(b, scene, v)'
    BY <1>1, <1>2, <2>1, Writing
  <2>3. \A e \in Tab : GoodPage(e, tab[e])'
    <3>1. \A e \in Tab \ {c} : GoodPage(e, tab[e])'
      <4>1. \A e \in Tab : \A p : GoodPage(e, p) => GoodPage(e, p)'
        BY <1>1, <1>2, <2>1, Writing
      <4>2. \A e \in Tab \ {c} : tab'[e] = tab[e]
        BY <1>1, <1>8 DEF BoardShape
      <4>3. \A e \in Tab \ {c} : GoodPage(e, tab[e])
        BY DEF BoardInv
      <4> QED  BY <4>1, <4>2, <4>3 DEF GoodPage
    <3>2. GoodPage(c, tab[c])'
      <4>1. /\ page.stage = "answered" => Covers(browser[c], page.got.scene, page.got.version)
            /\ page.stage = "open" => Covers(browser[c], page.scene, page.version)
            /\ page.stage = "open" =>
                 /\ \A x \in page.scene : browser[x[1]] # browser[c] => x \in page.editor
                 /\ \A x \in put.scene : browser[x[1]] # browser[c] => x \in page.editor
        BY <1>1, <1>6, <1>7, <1>10 DEF GoodPage
      <4>2. page.got.version \in Nat /\ page.version \in Nat
        BY <1>7 DEF Page, Doc
      <4>3. /\ page.stage = "answered" => Covers(browser[c], page.got.scene, page.got.version)'
            /\ page.stage = "open" => Covers(browser[c], page.scene, page.version)'
        BY <1>2, <2>2, <4>1, <4>2
      <4>4. SavedAs(put)'
        BY <1>6, <2>1 DEF SavedAs, Doc
      <4> QED  BY <1>2, <1>7, <1>8, <1>10, <4>1, <4>3, <4>4 DEF GoodPage
    <3> QED  BY <3>1, <3>2
  <2>4. \A b \in Browsers : draft[b] # NoDraft => GoodDraft(b, draft[b])'
    <3> SUFFICES ASSUME NEW b \in Browsers, draft[b] # NoDraft PROVE GoodDraft(b, draft[b])'
      OBVIOUS
    <3>1. GoodDraft(b, draft[b]) /\ draft[b].base \in Nat
      BY DEF BoardInv, GoodDraft, Draft
    <3> QED  BY <1>2, <2>2, <3>1 DEF GoodDraft
  <2>5. BoardShape'
    <3>1. tab' \in [Tab -> Page]
      BY <1>1, <1>7, <1>8 DEF BoardShape
    <3> QED  BY <1>1, <1>2, <2>1, <3>1 DEF BoardShape, Browsers, Counters
  <2> QED  BY <1>2, <2>3, <2>4, <2>5 DEF BoardInv, Browsers
<1> QED  BY <1>6, <1>9, <1>10

\* The page that a save leaves behind: it keeps the editor, and no save is out.
LEMMA Afterwards ==
  ASSUME NEW c \in Tab, NEW page \in Page, page.stage # "answered",
         page.stage = "open" =>
           /\ Covers(browser[c], page.scene, page.version)
           /\ \A x \in page.scene : browser[x[1]] # browser[c] => x \in page.editor
  PROVE  GoodPage(c, AfterSave(c, page))
<1>1. CASE page.stage = "open"
  <2>1. PICK after : after = [page EXCEPT !.put = NoPut]
    OBVIOUS
  <2>2. after \in Page
    BY <2>1, NoPageIsPage DEF Page
  <2>3. /\ after.scene = page.scene /\ after.version = page.version
        /\ after.editor = page.editor /\ after.stage = page.stage /\ after.put.st = "none"
    BY <2>1 DEF Page, NoPut
  <2>4. GoodPage(c, after)
    BY <1>1, <2>2, <2>3 DEF GoodPage
  <2> QED  BY <1>1, <2>1, <2>4 DEF AfterSave
<1>2. CASE page.stage # "open"
  BY <1>2, NoPageIsGood DEF AfterSave
<1> QED  BY <1>1, <1>2

\* The answer that a save was done makes its scene, which is the version written, the
\* page's; the editor may have gone on.
LEMMA BoardAnswerKeeps ==
  ASSUME BoardInv, NEW c \in Tab, SaveAnswered(c)
  PROVE  BoardInv'
<1>1. BoardShape /\ GoodPage(c, tab[c]) /\ tab[c] \in Page
  BY DEF BoardInv, GoodPage
<1>2. Counters' /\ UNCHANGED <<browser, now, document, overtaken>>
  BY <1>1, Counting DEF SaveAnswered
<1> DEFINE put == tab[c].put
           done == [tab[c] EXCEPT !.scene = put.scene, !.version = put.read + 1,
                                  !.dirty = FALSE, !.status = "saved"]
           page == AfterSave(c, done)
           d == [dirty |-> FALSE, scene |-> put.scene, base |-> put.read + 1, at |-> 0]
<1>3. put \in Put /\ put.st = "ok" /\ put.read \in Nat /\ put.scene \in Scene
  BY <1>1 DEF SaveAnswered, Page, Put
<1>4. SavedAs(put)
  BY <1>1, <1>3 DEF GoodPage
<1>5. Covers(browser[c], put.scene, put.read + 1)
  BY <1>3, <1>4 DEF Covers, SavedAs
<1>6. GoodDraft(browser[c], d)
  BY <1>3, <1>5 DEF GoodDraft, Draft
<1>7. GoodPage(c, page)
  <2>1. /\ done \in Page /\ done.scene = put.scene /\ done.version = put.read + 1
        /\ done.editor = tab[c].editor /\ done.stage = tab[c].stage
    <3>1. put.scene \in Scene /\ put.read + 1 \in Nat /\ tab[c] \in Page
      BY <1>1, <1>3
    <3> HIDE DEF put
    <3> QED  BY <3>1 DEF Page, SyncStatus
  <2>2. done.stage = "open" =>
          \A x \in put.scene : browser[x[1]] # browser[c] => x \in tab[c].editor
    BY <1>1, <1>3, <2>1 DEF GoodPage
  <2> HIDE DEF done, put
  <2>3. CASE done.stage = "answered"
    BY <2>3, NoPageIsGood DEF AfterSave
  <2>4. CASE done.stage # "answered"
    BY <1>5, <2>1, <2>2, <2>4, Afterwards
  <2> QED  BY <2>3, <2>4
<1>8. WriteDraft(c, page, d)
  BY DEF SaveAnswered
<1> HIDE DEF page, d
<1> QED  BY <1>2, <1>6, <1>7, <1>8, DraftChanges

\* A page keeps a save that is out when it is left, and nothing else.
LEMMA EndingKeeps ==
  ASSUME BoardInv, NEW c \in Tab,
         SaveConflicts(c) \/ SaveFails(c) \/ AnswerUnheard(c) \/ Leave(c)
  PROVE  BoardInv'
<1>1. BoardShape /\ GoodPage(c, tab[c]) /\ tab[c] \in Page
  BY DEF BoardInv, GoodPage
<1>2. Counters' /\ UNCHANGED <<browser, now, document, draft, overtaken>>
  BY <1>1, Counting DEF SaveConflicts, SaveFails, AnswerUnheard, Leave
<1>3. ASSUME NEW status \in SyncStatus
      PROVE  GoodPage(c, AfterSave(c, [tab[c] EXCEPT !.status = status]))
  <2> DEFINE done == [tab[c] EXCEPT !.status = status]
  <2>1. /\ done \in Page /\ done.scene = tab[c].scene /\ done.version = tab[c].version
        /\ done.editor = tab[c].editor /\ done.stage = tab[c].stage
    BY <1>1 DEF Page
  <2> HIDE DEF done
  <2>2. done.stage = "open" =>
             /\ Covers(browser[c], done.scene, done.version)
             /\ \A x \in done.scene : browser[x[1]] # browser[c] => x \in done.editor
    BY <1>1, <2>1 DEF GoodPage
  <2>3. GoodPage(c, AfterSave(c, done))
    <3>1. CASE done.stage = "answered"
      BY <3>1, NoPageIsGood DEF AfterSave
    <3>2. CASE done.stage # "answered"
      BY <2>1, <2>2, <3>2, Afterwards
    <3> QED  BY <3>1, <3>2
  <2> QED  BY <2>3 DEF done
<1>4. GoodPage(c, [NoPage EXCEPT !.stage = "left", !.put = tab[c].put])
  <2> DEFINE page == [NoPage EXCEPT !.stage = "left", !.put = tab[c].put]
  <2>1. page \in Page
    BY <1>1, NoPageIsPage DEF Page, NoPage
  <2>2. page.stage = "left" /\ page.put = tab[c].put
    BY DEF NoPage
  <2> HIDE DEF page
  <2>3. GoodPage(c, page)
    BY <1>1, <2>1, <2>2 DEF GoodPage
  <2> QED  BY <2>3 DEF page
<1>5. \E page : GoodPage(c, page) /\ tab' = [tab EXCEPT ![c] = page]
  <2>1. CASE SaveConflicts(c) \/ SaveFails(c)
    BY <1>3, <2>1 DEF SaveConflicts, SaveFails, SyncStatus
  <2>2. CASE AnswerUnheard(c)
    BY <2>2, NoPageIsGood DEF AnswerUnheard
  <2>3. CASE Leave(c)
    BY <1>4, <2>3, NoPageIsGood DEF Leave
  <2> QED  BY <2>1, <2>2, <2>3
<1> QED  BY <1>2, <1>5, PageChanges

\* No scene rests on the time.
LEMMA TickingKeeps ==
  ASSUME BoardInv, ClockTicks
  PROVE  BoardInv'
<1>1. BoardShape /\ UNCHANGED <<browser, document, draft, tab, drawn, boardFailures, overtaken>>
  BY DEF BoardInv, ClockTicks
<1>2. now' \in 0 .. MaxTime /\ now <= now'
  BY <1>1, WhiteboardBounds DEF ClockTicks, BoardShape, GoodDocument
<1>3. GoodDocument'
  BY <1>1, <1>2 DEF BoardShape, GoodDocument, Doc
<1>4. \A b, scene, v : Covers(b, scene, v)' <=> Covers(b, scene, v)
  BY <1>1 DEF Covers
<1>5. (\A b \in Browsers : draft[b] # NoDraft => GoodDraft(b, draft[b]))'
  BY <1>1, <1>4 DEF BoardInv, GoodDraft, Browsers
<1>6. ASSUME NEW c \in Tab PROVE GoodPage(c, tab[c])'
  <2>1. GoodPage(c, tab[c]) /\ now \in Nat
    BY <1>1 DEF BoardInv, BoardShape, GoodDocument
  <2>2. tab[c].put.st = "checked" => tab[c].put.at <= now'
    <3>1. tab[c].put.at \in Nat
      BY <2>1 DEF GoodPage, Page, Put
    <3> QED  BY <1>2, <2>1, <3>1 DEF GoodPage
  <2>3. tab[c].put.st = "ok" => SavedAs(tab[c].put)'
    BY <1>1, <2>1 DEF GoodPage, SavedAs
  <2> QED  BY <1>1, <1>4, <2>1, <2>2, <2>3 DEF GoodPage
<1> QED  BY <1>1, <1>3, <1>5, <1>6 DEF BoardInv, BoardShape, Browsers

-----------------------------------------------------------------------------
LEMMA BoardInductive == BoardInv /\ [BoardNext]_boardVars => BoardInv'
<1> SUFFICES ASSUME BoardInv, [BoardNext]_boardVars PROVE BoardInv'
  OBVIOUS
<1>1. ASSUME NEW c \in Tab, BoardStep(c) PROVE BoardInv'
  BY <1>1, BoardLoadingKeeps, DrawingKeeps, SavingKeeps, CommitKeeps, BoardAnswerKeeps, EndingKeeps
     DEF BoardStep
<1>2. CASE UNCHANGED boardVars
  <2>1. UNCHANGED <<browser, now, document, draft, tab, drawn, boardFailures, overtaken>>
    BY <1>2 DEF boardVars
  <2> QED  BY <2>1, RowAlone DEF BoardInv, BoardShape, Browsers
<1> QED  BY <1>1, <1>2, TickingKeeps DEF BoardNext

\* Every scene that a page, a draft or a save takes for the current version has what the
\* other browsers have put into it, and none is taken for a version that is not there yet.
THEOREM BoardInvariant == BoardSpec => []BoardInv
<1> QED  BY BoardStarts, BoardInductive, PTL DEF BoardSpec

\* The invariant gives the pages, the drafts and the row their types.
LEMMA BoardInvTypes == BoardInv => BoardTypeOK
<1> SUFFICES ASSUME BoardInv PROVE BoardTypeOK
  OBVIOUS
<1>1. IsScene(document.scene) /\ document.at <= now /\ now <= MaxTime
  BY WhiteboardBounds DEF BoardInv, BoardShape, GoodDocument, Doc, IsScene, Scene
<1>2. \A b \in DOMAIN draft : draft[b] = NoDraft \/ IsScene(draft[b].scene)
  BY DEF BoardInv, BoardShape, GoodDraft, Draft, IsScene, Scene
<1>3. \A c \in Tab : tab[c] \in Page /\ tab[c].put \in Put
  BY DEF BoardInv, BoardShape, Page
<1>4. boardFailures \in 0 .. MaxBoardFailures
  BY DEF BoardInv, BoardShape
<1> QED  BY <1>1, <1>2, <1>3, <1>4 DEF BoardTypeOK, Page, Put, IsScene, Scene

\* The pages, the drafts and the row keep their types.
THEOREM BoardTypes == BoardSpec => []BoardTypeOK
<1> QED  BY BoardInvTypes, BoardInvariant, PTL

\* Of a save that was checked nothing but its write makes one that is done.
LEMMA OnlyCommitAnswers ==
  ASSUME BoardInv, NEW c \in Tab, [BoardNext]_boardVars,
         tab[c].put.st = "checked", tab'[c].put.st = "ok"
  PROVE  CommitScene(c)
<1>0. PICK e \in Tab : BoardStep(e)
  BY DEF BoardNext, ClockTicks, boardVars
<1>1. tab \in [Tab -> Page] /\ tab[e] \in Page /\ tab[e].put \in Put
  BY DEF BoardInv, BoardShape, Page
<1> DEFINE Same(page) == page.put = NoPut \/ page.put = tab[e].put
<1>2. ASSUME NEW page, Same(page), tab' = [tab EXCEPT ![e] = page]
      PROVE  FALSE
  BY <1>1, <1>2 DEF NoPut
<1>3. ASSUME NEW page, NEW d, Same(page), WriteDraft(e, page, d)
      PROVE  FALSE
  BY <1>1, <1>3 DEF WriteDraft, NoPut, Page
<1>4. ASSUME Mount(e) \/ ServeCanvas(e) \/ LoadAnswered(e) \/ LoadFailed(e) PROVE FALSE
  <2>1. ASSUME NEW scene, NEW version, NEW dirty, NEW status,
               ShowScene(e, scene, version, dirty, status)
        PROVE  FALSE
    BY <1>2, <2>1 DEF ShowScene, NoPage
  <2>2. CASE Mount(e)
    BY <1>2, <2>2 DEF Mount, NoPage
  <2>3. CASE ServeCanvas(e)
    BY <1>1, <2>3 DEF ServeCanvas, Page
  <2>4. CASE LoadAnswered(e)
    BY <2>1, <2>4 DEF LoadAnswered
  <2>5. CASE LoadFailed(e)
    BY <2>1, <2>5 DEF LoadFailed
  <2> QED  BY <1>4, <2>2, <2>3, <2>4, <2>5
<1>5. ASSUME Draw(e) \/ Touch(e) PROVE FALSE
  <2>1. PICK page, scene : Same(page) /\ page \in Page /\ SceneChange(e, page, scene)
    <3>1. CASE Draw(e)
      <4>1. PICK scene \in Scene : SceneChange(e, [tab[e] EXCEPT !.editor = scene], scene)
        BY <1>1, <3>1, NextStroke DEF Draw, Page, Scene, BoardInv
      <4>2. /\ [tab[e] EXCEPT !.editor = scene] \in Page
            /\ [tab[e] EXCEPT !.editor = scene].put = tab[e].put
        BY <1>1 DEF Page
      <4> QED  BY <4>1, <4>2
    <3>2. CASE Touch(e)
      BY <1>1, <3>2 DEF Touch
    <3> QED  BY <1>5, <3>1, <3>2
  <2>2. CASE scene = page.scene
    BY <1>2, <2>1, <2>2 DEF SceneChange
  <2>3. CASE scene # page.scene
    <3>1. PICK shown, d :
            /\ shown = [page EXCEPT !.scene = scene, !.dirty = TRUE,
                          !.status = IF HasImage(scene) THEN "error" ELSE "dirty"]
            /\ WriteDraft(e, shown, d)
      BY <2>1, <2>3 DEF SceneChange
    <3>2. Same(shown)
      BY <2>1, <3>1 DEF Page
    <3> QED  BY <1>3, <3>1, <3>2
  <2> QED  BY <2>2, <2>3
<1>6. ASSUME SaveRefused(e) \/ SaveCanvas(e) \/ CheckVersion(e) PROVE FALSE
  <2>1. CASE SaveRefused(e)
    BY <1>1, <2>1 DEF SaveRefused, Page
  <2>2. CASE SaveCanvas(e)
    BY <1>1, <2>2 DEF SaveCanvas, Page, Put
  <2>3. CASE CheckVersion(e)
    BY <1>1, <2>3 DEF CheckVersion, Page, Put
  <2> QED  BY <1>6, <2>1, <2>2, <2>3
<1>7. ASSUME SaveAnswered(e) \/ SaveConflicts(e) \/ SaveFails(e) PROVE FALSE
  <2>1. c # e
    BY <1>7 DEF SaveAnswered, SaveConflicts, SaveFails
  <2>2. tab'[c].put = tab[c].put
    BY <1>1, <1>7, <2>1 DEF SaveAnswered, SaveConflicts, SaveFails, WriteDraft, Page
  <2> QED  BY <2>2
<1>8. ASSUME AnswerUnheard(e) \/ Leave(e) PROVE FALSE
  <2>1. PICK page : Same(page) /\ tab' = [tab EXCEPT ![e] = page]
    BY <1>8 DEF AnswerUnheard, Leave, NoPage
  <2> QED  BY <1>2, <2>1
<1>9. CommitScene(e)
  BY <1>0, <1>4, <1>5, <1>6, <1>7, <1>8 DEF BoardStep
<1>10. c = e
  BY <1>1, <1>9 DEF CommitScene
<1> QED  BY <1>9, <1>10

\* A save that was checked and not overtaken, in whatever tab of whatever browser, keeps
\* every stroke that another browser has on the server.
THEOREM OthersKept == BoardSpec => NothingOverwrittenUnseen
<1> DEFINE Kept ==
      \A c \in Tab :
        tab[c].put.st = "checked" /\ ~ overtaken' =>
          \A s \in document.scene :
            browser[s[1]] # browser[c] /\ tab'[c].put.st = "ok"
            => s \in document'.scene
<1>1. ASSUME BoardInv, [BoardNext]_boardVars PROVE [Kept]_boardVars
  <2> SUFFICES ASSUME NEW c \in Tab, tab[c].put.st = "checked", ~ overtaken',
                      NEW s \in document.scene,
                      browser[s[1]] # browser[c], tab'[c].put.st = "ok"
               PROVE  s \in document'.scene
    BY DEF boardVars
  <2>1. CommitScene(c)
    BY <1>1, OnlyCommitAnswers
  <2>2. /\ ~ overtaken /\ tab[c].put.base = document.version
        /\ document'.scene = tab[c].put.scene
    BY <1>1, <2>1, CommitWrites DEF RowOf
  <2>3. Covers(browser[c], tab[c].put.scene, document.version)
    BY <1>1, <2>2 DEF BoardInv, GoodPage
  <2> QED  BY <2>2, <2>3 DEF Covers
<1>2. BoardSpec => [][Kept]_boardVars
  BY <1>1, BoardInvariant, PTL DEF BoardSpec
<1> QED  BY <1>2 DEF NothingOverwrittenUnseen

-----------------------------------------------------------------------------
(* Unsaved scenes.                                                         *)

\* The draft of tab c's browser holds scene, unsaved.
DraftHolds(c, scene) == draft[browser[c]].dirty /\ draft[browser[c]].scene = scene

\* The draft of a browser whose clock is not behind does not seem older than the document.
Fresh(b) == b \notin Slow => draft[b].at >= document.at

\* Until a save is overtaken an unsaved draft that is based on the document is fresh; the
\* draft has what an open page shows unsaved, unless another tab wrote it; and it has what
\* a tab may resume, under the current version.
ResumeInv ==
  /\ resumable \in [Tab -> Scene \cup {NoScene}]
  /\ ~ overtaken =>
       /\ \A b \in Browsers : draft[b].dirty /\ draft[b].base = document.version => Fresh(b)
       /\ \A c \in Tab :
            /\ tab[c].stage = "open" /\ tab[c].dirty /\ ~ tab[c].stray
                 => /\ DraftHolds(c, tab[c].scene)
                    /\ tab[c].version = document.version => Fresh(browser[c])
            /\ resumable[c] # NoScene
                 => /\ DraftHolds(c, resumable[c]) /\ Fresh(browser[c])
                    /\ tab[c].stage = "answered" => tab[c].got = document

LEMMA ResumeStarts == BoardInit => ResumeInv
<1> SUFFICES ASSUME BoardInit PROVE ResumeInv
  OBVIOUS
<1>1. \A b \in Browsers : ~ draft[b].dirty
  BY DEF BoardInit, Browsers, NoDraft
<1>2. \A c \in Tab : tab[c].stage # "open" /\ resumable[c] = NoScene
  BY DEF BoardInit, NoPage
<1>3. resumable \in [Tab -> Scene \cup {NoScene}]
  BY DEF BoardInit
<1> QED  BY <1>1, <1>2, <1>3 DEF ResumeInv

\* What the draft has for a page that tab c shows, or is about to show.
DraftServes(c, page) ==
  /\ page.stage = "open" /\ page.dirty /\ ~ page.stray
       => /\ DraftHolds(c, page.scene)
          /\ page.version = document.version => Fresh(browser[c])
  /\ resumable'[c] # NoScene /\ page.stage = "answered" => page.got = document

\* A step of tab c that leaves the draft alone, if the draft has what the page now shows.
LEMMA ShowingResumes ==
  ASSUME BoardInv, ResumeInv, NEW c \in Tab, NEW page,
         tab' = [tab EXCEPT ![c] = page],
         ~ overtaken => DraftServes(c, page),
         UNCHANGED resumable \/ resumable' = [resumable EXCEPT ![c] = NoScene],
         UNCHANGED <<browser, document, draft, overtaken>>
  PROVE  ResumeInv'
<1>1. tab \in [Tab -> Page]
  BY DEF BoardInv, BoardShape
<1>2. \A e \in Tab : tab'[e] = IF e = c THEN page ELSE tab[e]
  BY <1>1
<1>3. \A e \in Tab : resumable'[e] = resumable[e] \/ resumable'[e] = NoScene
  BY DEF ResumeInv
<1>4. resumable' \in [Tab -> Scene \cup {NoScene}]
  BY DEF ResumeInv
<1>5. /\ \A e \in Tab : \A scene : DraftHolds(e, scene)' <=> DraftHolds(e, scene)
      /\ \A b : Fresh(b)' <=> Fresh(b)
  BY DEF DraftHolds, Fresh
<1> SUFFICES ASSUME ~ overtaken
             PROVE  /\ \A b \in Browsers :
                         draft[b].dirty /\ draft[b].base = document.version => Fresh(b)
                    /\ \A e \in Tab :
                         /\ tab'[e].stage = "open" /\ tab'[e].dirty /\ ~ tab'[e].stray
                              => /\ DraftHolds(e, tab'[e].scene)
                                 /\ tab'[e].version = document.version => Fresh(browser[e])
                         /\ resumable'[e] # NoScene
                              => /\ DraftHolds(e, resumable'[e]) /\ Fresh(browser[e])
                                 /\ tab'[e].stage = "answered" => tab'[e].got = document
  BY <1>4, <1>5 DEF ResumeInv, Browsers, DraftHolds, Fresh
<1>6. \A b \in Browsers : draft[b].dirty /\ draft[b].base = document.version => Fresh(b)
  BY DEF ResumeInv
<1>7. ASSUME NEW e \in Tab, resumable'[e] # NoScene
      PROVE  DraftHolds(e, resumable'[e]) /\ Fresh(browser[e])
  BY <1>3, <1>7 DEF ResumeInv
<1>8. ASSUME NEW e \in Tab
      PROVE  /\ tab'[e].stage = "open" /\ tab'[e].dirty /\ ~ tab'[e].stray
                  => /\ DraftHolds(e, tab'[e].scene)
                     /\ tab'[e].version = document.version => Fresh(browser[e])
             /\ resumable'[e] # NoScene /\ tab'[e].stage = "answered" => tab'[e].got = document
  <2>1. CASE e = c
    BY <1>2, <2>1 DEF DraftServes
  <2>2. CASE e # c
    BY <1>2, <1>3, <2>2 DEF ResumeInv
  <2> QED  BY <2>1, <2>2
<1> QED  BY <1>6, <1>7, <1>8

\* A step of tab c that writes the draft marks the open pages that share it.
LEMMA WritingResumes ==
  ASSUME BoardInv, ResumeInv, NEW c \in Tab, NEW page, NEW d,
         WriteDraft(c, page, d),
         d.dirty => (browser[c] \notin Slow => d.at >= document.at),
         page.stage = "open" /\ page.dirty => d.dirty /\ d.scene = page.scene,
         UNCHANGED <<browser, document, overtaken>>
  PROVE  ResumeInv'
<1>1. /\ tab \in [Tab -> Page] /\ draft \in [Browsers -> Draft \cup {NoDraft}]
      /\ browser[c] \in Browsers
  BY DEF BoardInv, BoardShape, Browsers
<1>2. \A b \in Browsers : draft'[b] = IF b = browser[c] THEN d ELSE draft[b]
  BY <1>1 DEF WriteDraft
<1>3. /\ resumable' \in [Tab -> Scene \cup {NoScene}]
      /\ \A e \in Tab : resumable'[e] = IF browser[e] = browser[c] THEN NoScene ELSE resumable[e]
  BY DEF ResumeInv, WriteDraft
<1>4. /\ tab'[c] = page
      /\ \A e \in Tab \ {c} :
           /\ UNCHANGED <<tab[e].stage, tab[e].dirty, tab[e].scene, tab[e].version, tab[e].got>>
           /\ tab'[e].stray
                <=> tab[e].stray \/ (browser[e] = browser[c] /\ tab[e].stage = "open")
  BY <1>1 DEF WriteDraft, Page
<1>5. Browsers' = Browsers /\ \A e \in Tab : browser[e] \in Browsers
  BY DEF Browsers
<1>6. ASSUME ~ overtaken, NEW b \in Browsers, draft'[b].dirty, draft'[b].base = document.version
      PROVE  Fresh(b)'
  <2>1. CASE b = browser[c]
    BY <1>2, <1>6, <2>1 DEF Fresh
  <2>2. CASE b # browser[c]
    BY <1>2, <1>6, <2>2 DEF ResumeInv, Fresh
  <2> QED  BY <2>1, <2>2
<1>7. ASSUME ~ overtaken, NEW e \in Tab
      PROVE  /\ tab'[e].stage = "open" /\ tab'[e].dirty /\ ~ tab'[e].stray
                  => /\ DraftHolds(e, tab[e].scene)'
                     /\ tab'[e].version = document.version => Fresh(browser[e])'
             /\ resumable'[e] # NoScene
                  => /\ DraftHolds(e, resumable[e])' /\ Fresh(browser[e])'
                     /\ tab'[e].stage = "answered" => tab'[e].got = document
  <2>1. CASE e = c
    BY <1>1, <1>2, <1>3, <1>4, <2>1 DEF DraftHolds, Fresh
  <2>2. CASE e # c /\ browser[e] = browser[c]
    BY <1>3, <1>4, <2>2
  <2>3. CASE browser[e] # browser[c]
    <3>1. draft'[browser[e]] = draft[browser[e]] /\ resumable'[e] = resumable[e]
      BY <1>2, <1>3, <1>5, <2>3
    <3>2. e # c /\ tab'[e].stray = tab[e].stray
      BY <1>1, <2>3 DEF WriteDraft, Page
    <3>3. /\ tab[e].stage = "open" /\ tab[e].dirty /\ ~ tab[e].stray
               => /\ DraftHolds(e, tab[e].scene)
                  /\ tab[e].version = document.version => Fresh(browser[e])
          /\ resumable[e] # NoScene
               => /\ DraftHolds(e, resumable[e]) /\ Fresh(browser[e])
                  /\ tab[e].stage = "answered" => tab[e].got = document
      BY <1>7 DEF ResumeInv
    <3>4. /\ \A scene : DraftHolds(e, scene)' <=> DraftHolds(e, scene)
          /\ Fresh(browser[e])' <=> Fresh(browser[e])
      BY <3>1 DEF DraftHolds, Fresh
    <3> QED  BY <1>4, <3>1, <3>2, <3>3, <3>4 DEF DraftHolds
  <2> QED  BY <2>1, <2>2, <2>3
<1> QED  BY <1>3, <1>5, <1>6, <1>7 DEF ResumeInv

LEMMA LoadingResumes ==
  ASSUME BoardInv, ResumeInv, NEW c \in Tab,
         Mount(c) \/ ServeCanvas(c) \/ LoadAnswered(c) \/ LoadFailed(c)
  PROVE  ResumeInv'
<1>1. /\ tab \in [Tab -> Page] /\ browser[c] \in Browsers
      /\ UNCHANGED <<browser, document, draft, overtaken>>
  BY DEF BoardInv, BoardShape, Browsers, Mount, ServeCanvas, LoadAnswered, LoadFailed
<1>2. CASE Mount(c)
  <2>1. PICK page : page.stage = "loading" /\ tab' = [tab EXCEPT ![c] = page]
    BY <1>2 DEF Mount, NoPage
  <2> QED  BY <1>1, <1>2, <2>1, ShowingResumes DEF Mount, DraftServes
<1>3. CASE ServeCanvas(c)
  <2>1. PICK page : page = [tab[c] EXCEPT !.stage = "answered", !.got = document]
    OBVIOUS
  <2>2. tab' = [tab EXCEPT ![c] = page]
    BY <1>1, <1>3, <2>1 DEF ServeCanvas
  <2>3. page.stage = "answered" /\ page.got = document
    BY <1>1, <2>1 DEF Page
  <2> QED  BY <1>1, <1>3, <2>2, <2>3, ShowingResumes DEF ServeCanvas, DraftServes
<1>4. ASSUME NEW scene, NEW version, NEW dirty, NEW status,
             ShowScene(c, scene, version, dirty, status),
             ~ overtaken /\ dirty => /\ DraftHolds(c, scene)
                                     /\ version = document.version => Fresh(browser[c])
      PROVE  ResumeInv'
  <2>1. PICK page : /\ page.stage = "open" /\ page.scene = scene /\ page.version = version
                    /\ page.dirty = dirty /\ tab' = [tab EXCEPT ![c] = page]
    BY <1>4 DEF ShowScene, NoPage
  <2>2. resumable' = [resumable EXCEPT ![c] = NoScene]
    BY <1>4 DEF ShowScene
  <2> QED  BY <1>1, <1>4, <2>1, <2>2, ShowingResumes DEF DraftServes
<1>5. LET d == draft[browser[c]]
      IN  ~ overtaken /\ d.dirty => /\ DraftHolds(c, d.scene)
                                    /\ d.base = document.version => Fresh(browser[c])
  BY <1>1 DEF ResumeInv, DraftHolds
<1>6. CASE LoadAnswered(c)
  BY <1>4, <1>5, <1>6 DEF LoadAnswered
<1>7. CASE LoadFailed(c)
  BY <1>4, <1>5, <1>7 DEF LoadFailed
<1> QED  BY <1>2, <1>3, <1>6, <1>7

LEMMA DrawingResumes ==
  ASSUME BoardInv, ResumeInv, NEW c \in Tab, Draw(c) \/ Touch(c)
  PROVE  ResumeInv'
<1>1. /\ tab \in [Tab -> Page] /\ tab[c].stage = "open" /\ BoardShape
      /\ UNCHANGED <<browser, now, document, overtaken>>
  BY DEF BoardInv, BoardShape, Draw, Touch
<1>2. PICK page, scene : /\ \/ page = tab[c]
                            \/ page = [tab[c] EXCEPT !.editor = scene]
                         /\ SceneChange(c, page, scene)
  BY DEF Draw, Touch
<1>3. /\ tab[c].stage = "open" /\ page.stage = "open"
      /\ page.dirty = tab[c].dirty /\ page.stray = tab[c].stray
      /\ page.scene = tab[c].scene /\ page.version = tab[c].version
  BY <1>1, <1>2 DEF Page
<1>4. CASE scene = page.scene
  <2>1. tab' = [tab EXCEPT ![c] = page] /\ UNCHANGED <<draft, resumable>>
    BY <1>2, <1>4 DEF SceneChange
  <2>2. ~ overtaken => DraftServes(c, page)
    BY <1>3 DEF ResumeInv, DraftServes
  <2> QED  BY <1>1, <2>1, <2>2, ShowingResumes
<1>5. CASE scene # page.scene
  <2>1. PICK at, shown, d :
            /\ at \in Readings(browser[c])
            /\ shown = [page EXCEPT !.scene = scene, !.dirty = TRUE,
                           !.status = IF HasImage(scene) THEN "error" ELSE "dirty"]
            /\ d = [dirty |-> TRUE, scene |-> scene, base |-> page.version, at |-> at]
            /\ WriteDraft(c, shown, d)
    BY <1>2, <1>5 DEF SceneChange
  <2>2. shown.scene = scene
    <3>1. page \in [stage : {"closed", "loading", "answered", "open", "left"}, got : Doc,
                    editor : {page.editor}, scene : Scene, version : Nat, dirty : BOOLEAN,
                    status : SyncStatus, put : Put, stray : BOOLEAN]
      BY <1>1, <1>2 DEF Page
    <3> QED  BY <2>1, <3>1
  <2>3. browser[c] \notin Slow => d.at >= document.at
    <3>1. at \in Nat /\ (browser[c] \notin Slow => at >= now)
      BY <1>1, <2>1, ReadingsAreTimes
    <3>2. document.at <= now /\ document.at \in Nat /\ now \in Nat
      BY <1>1 DEF BoardShape, GoodDocument, Doc
    <3> QED  BY <2>1, <3>1, <3>2
  <2>4. d.dirty /\ d.scene = shown.scene
    BY <2>1, <2>2
  <2> QED  BY <1>1, <2>1, <2>3, <2>4, WritingResumes
<1> QED  BY <1>4, <1>5

LEMMA SavingResumes ==
  ASSUME BoardInv, ResumeInv, NEW c \in Tab,
         \/ SaveRefused(c) \/ SaveCanvas(c) \/ CheckVersion(c)
         \/ SaveConflicts(c) \/ SaveFails(c) \/ AnswerUnheard(c)
  PROVE  ResumeInv'
<1>1. /\ tab \in [Tab -> Page]
      /\ UNCHANGED <<browser, document, draft, resumable, overtaken>>
  BY DEF BoardInv, BoardShape, SaveRefused, SaveCanvas, CheckVersion, SaveConflicts, SaveFails,
         AnswerUnheard
<1> DEFINE Alike(page) ==
      \/ page.stage = "closed"
      \/ /\ page.stage = tab[c].stage /\ page.dirty = tab[c].dirty /\ page.stray = tab[c].stray
         /\ page.scene = tab[c].scene /\ page.version = tab[c].version /\ page.got = tab[c].got
<1>2. ASSUME NEW status \in SyncStatus
      PROVE  Alike(AfterSave(c, [tab[c] EXCEPT !.status = status]))
  <2>1. PICK page : page = [tab[c] EXCEPT !.status = status]
    OBVIOUS
  <2>2. /\ page.stage = tab[c].stage /\ page.dirty = tab[c].dirty /\ page.stray = tab[c].stray
        /\ page.scene = tab[c].scene /\ page.version = tab[c].version /\ page.got = tab[c].got
        /\ page \in Page
    BY <1>1, <2>1 DEF Page
  <2>3. Alike(AfterSave(c, page))
    <3>1. CASE page.stage = "open"
      <4>1. AfterSave(c, page) = [page EXCEPT !.put = NoPut]
        BY <3>1 DEF AfterSave
      <4> QED  BY <2>2, <4>1 DEF Page
    <3>2. CASE page.stage # "open"
      BY <3>2 DEF AfterSave, NoPage
    <3> QED  BY <3>1, <3>2
  <2> QED  BY <2>1, <2>3
<1>3. PICK page : Alike(page) /\ tab' = [tab EXCEPT ![c] = page]
  <2>1. CASE SaveRefused(c)
    BY <1>1, <2>1 DEF SaveRefused, Page
  <2>2. CASE SaveCanvas(c)
    BY <1>1, <2>2 DEF SaveCanvas, Page
  <2>3. CASE CheckVersion(c)
    BY <1>1, <2>3 DEF CheckVersion, Page
  <2>4. CASE SaveConflicts(c) \/ SaveFails(c)
    <3>1. PICK status \in SyncStatus :
            tab' = [tab EXCEPT ![c] = AfterSave(c, [tab[c] EXCEPT !.status = status])]
      BY <2>4 DEF SaveConflicts, SaveFails, SyncStatus
    <3> QED  BY <1>2, <3>1
  <2>5. CASE AnswerUnheard(c)
    BY <2>5 DEF AnswerUnheard, NoPage
  <2> QED  BY <2>1, <2>2, <2>3, <2>4, <2>5
<1>4. ~ overtaken => DraftServes(c, page)
  BY <1>1, <1>3 DEF ResumeInv, DraftServes
<1> QED  BY <1>1, <1>3, <1>4, ShowingResumes

\* A write that overtakes none leaves no draft and no page under the current version.
LEMMA CommitResumes ==
  ASSUME BoardInv, ResumeInv, NEW c \in Tab, CommitScene(c)
  PROVE  ResumeInv'
<1>1. /\ tab \in [Tab -> Page] /\ tab[c].put \in Put /\ BoardShape
      /\ UNCHANGED <<browser, draft>>
  BY DEF BoardInv, BoardShape, CommitScene, Page
<1>2. PICK put : tab' = [tab EXCEPT ![c].put = put]
  BY DEF CommitScene
<1>3. \A e \in Tab : /\ tab'[e].stage = tab[e].stage /\ tab'[e].dirty = tab[e].dirty
                     /\ tab'[e].stray = tab[e].stray /\ tab'[e].scene = tab[e].scene
                     /\ tab'[e].version = tab[e].version /\ tab'[e].got = tab[e].got
  BY <1>1, <1>2 DEF Page
<1>4. CASE tab'[c].put.st = "ok"
  <2>1. /\ \A e \in Tab : resumable'[e] = NoScene
        /\ ~ overtaken' => ~ overtaken /\ document.version < document'.version
        /\ document'.version \in Nat /\ document.version \in Nat
    BY <1>1, <1>4, CommitWrites DEF GoodDocument, Doc, BoardShape
  <2>2. resumable' \in [Tab -> Scene \cup {NoScene}]
    BY DEF CommitScene, ResumeInv
  <2> SUFFICES ASSUME ~ overtaken'
               PROVE  /\ \A b \in Browsers : draft[b].dirty => draft[b].base # document'.version
                      /\ \A e \in Tab : tab[e].stage = "open" /\ tab[e].dirty /\ ~ tab[e].stray
                           => /\ DraftHolds(e, tab[e].scene)
                              /\ tab[e].version # document'.version
    BY <1>1, <1>3, <2>1, <2>2 DEF ResumeInv, Browsers, DraftHolds
  <2>3. ASSUME NEW b \in Browsers, draft[b].dirty PROVE draft[b].base # document'.version
    <3>1. GoodDraft(b, draft[b])
      BY <2>3 DEF BoardInv, NoDraft
    <3> QED  BY <2>1, <3>1 DEF GoodDraft, Draft, Covers
  <2>4. ASSUME NEW e \in Tab, tab[e].stage = "open" PROVE tab[e].version # document'.version
    <3>1. GoodPage(e, tab[e])
      BY DEF BoardInv
    <3> QED  BY <2>1, <2>4, <3>1 DEF GoodPage, Page, Covers
  <2> QED  BY <2>1, <2>3, <2>4 DEF ResumeInv
<1>5. CASE tab'[c].put.st # "ok"
  <2>1. UNCHANGED <<document, resumable, overtaken>>
    BY <1>1, <1>5 DEF CommitScene, Page, Put
  <2>2. PICK page : page = tab'[c] /\ tab' = [tab EXCEPT ![c] = page]
    BY <1>1, <1>2
  <2>3. ~ overtaken => DraftServes(c, page)
    BY <1>3, <2>1, <2>2 DEF ResumeInv, DraftServes
  <2> QED  BY <1>1, <2>1, <2>2, <2>3, ShowingResumes
<1> QED  BY <1>4, <1>5

LEMMA AnswerResumes ==
  ASSUME BoardInv, ResumeInv, NEW c \in Tab, SaveAnswered(c)
  PROVE  ResumeInv'
<1>1. /\ tab \in [Tab -> Page] /\ tab[c].put \in Put
      /\ UNCHANGED <<browser, document, overtaken>>
  BY DEF BoardInv, BoardShape, SaveAnswered, Page
<1> DEFINE done == [tab[c] EXCEPT !.scene = tab[c].put.scene,
                      !.version = tab[c].put.read + 1, !.dirty = FALSE, !.status = "saved"]
           d == [dirty |-> FALSE, scene |-> tab[c].put.scene,
                 base |-> tab[c].put.read + 1, at |-> 0]
<1>2. done.dirty = FALSE /\ done \in Page
  <2>1. tab[c].put.scene \in Scene /\ tab[c].put.read + 1 \in Nat /\ tab[c] \in Page
    BY <1>1 DEF Put
  <2> QED  BY <2>1 DEF Page, SyncStatus
<1>3. WriteDraft(c, AfterSave(c, done), d) /\ d.dirty = FALSE
  BY DEF SaveAnswered
<1> HIDE DEF done, d
<1>4. AfterSave(c, done).stage # "open" \/ ~ AfterSave(c, done).dirty
  BY <1>2 DEF AfterSave, NoPage, Page
<1> QED  BY <1>1, <1>3, <1>4, WritingResumes

\* What may be resumed when a page is left is in the draft under the current version.
LEMMA LeavingResumes ==
  ASSUME BoardInv, ResumeInv, NEW c \in Tab, Leave(c)
  PROVE  ResumeInv'
<1>1. /\ tab \in [Tab -> Page] /\ tab[c].scene \in Scene
      /\ UNCHANGED <<browser, document, draft, overtaken>>
  BY DEF BoardInv, BoardShape, Leave, Page
<1>2. PICK page : page.stage \in {"closed", "left"} /\ tab' = [tab EXCEPT ![c] = page]
  <2> DEFINE left == [NoPage EXCEPT !.stage = "left", !.put = tab[c].put]
  <2>1. NoPage.stage = "closed" /\ left.stage = "left"
    BY DEF NoPage
  <2>2. tab' = [tab EXCEPT ![c] = NoPage] \/ tab' = [tab EXCEPT ![c] = left]
    BY DEF Leave
  <2> HIDE DEF left
  <2> QED  BY <2>1, <2>2
<1>3. CASE UNCHANGED resumable
  BY <1>1, <1>2, <1>3, ShowingResumes DEF DraftServes
<1>4. CASE ~ UNCHANGED resumable
  <2>1. /\ tab[c].stage = "open" /\ tab[c].dirty /\ ~ tab[c].stray
        /\ tab[c].version = document.version
        /\ resumable' = [resumable EXCEPT ![c] = tab[c].scene]
    BY <1>4 DEF Leave
  <2>2. ~ overtaken => DraftHolds(c, tab[c].scene) /\ Fresh(browser[c])
    BY <2>1 DEF ResumeInv
  <2>3. /\ resumable' \in [Tab -> Scene \cup {NoScene}]
        /\ \A e \in Tab : resumable'[e] = IF e = c THEN tab[c].scene ELSE resumable[e]
    BY <1>1, <2>1 DEF ResumeInv
  <2>4. \A e \in Tab : IF e = c THEN tab'[e].stage \in {"closed", "left"} ELSE tab'[e] = tab[e]
    BY <1>1, <1>2
  <2>5. /\ \A e \in Tab : \A scene : DraftHolds(e, scene)' <=> DraftHolds(e, scene)
        /\ \A b : Fresh(b)' <=> Fresh(b)
        /\ Browsers' = Browsers
    BY <1>1 DEF DraftHolds, Fresh, Browsers
  <2> QED  BY <1>1, <2>2, <2>3, <2>4, <2>5 DEF ResumeInv
<1> QED  BY <1>3, <1>4

LEMMA ResumeInductive == BoardInv /\ ResumeInv /\ [BoardNext]_boardVars => ResumeInv'
<1> SUFFICES ASSUME BoardInv, ResumeInv, [BoardNext]_boardVars PROVE ResumeInv'
  OBVIOUS
<1>1. ASSUME NEW c \in Tab, BoardStep(c) PROVE ResumeInv'
  BY <1>1, LoadingResumes, DrawingResumes, SavingResumes, CommitResumes, AnswerResumes,
     LeavingResumes
     DEF BoardStep
<1>2. CASE ClockTicks \/ UNCHANGED boardVars
  <2>1. UNCHANGED <<browser, document, draft, tab, resumable, overtaken>>
    BY <1>2 DEF boardVars, ClockTicks
  <2> QED  BY <2>1 DEF ResumeInv, Browsers, DraftHolds, Fresh
<1> QED  BY <1>1, <1>2 DEF BoardNext

\* A page is opened by what it has loaded.
LEMMA OnlyLoadingOpens ==
  ASSUME BoardInv, NEW c \in Tab, [BoardNext]_boardVars,
         tab[c].stage \in {"loading", "answered"}, tab'[c].stage = "open"
  PROVE  LoadAnswered(c) \/ LoadFailed(c)
<1>0. PICK e \in Tab : BoardStep(e)
  BY DEF BoardNext, ClockTicks, boardVars
<1>1. tab \in [Tab -> Page] /\ tab[e] \in Page
  BY DEF BoardInv, BoardShape
<1>2. tab'[c].stage # tab[c].stage
  OBVIOUS
<1>3. ASSUME NEW page, tab' = [tab EXCEPT ![e] = page], page.stage # "open" \/ tab[e].stage = "open"
      PROVE  FALSE
  BY <1>1, <1>3
<1>4. ASSUME NEW page, NEW d, WriteDraft(e, page, d), page.stage # "open" \/ tab[e].stage = "open"
      PROVE  FALSE
  BY <1>1, <1>4 DEF WriteDraft, Page
<1>5. ASSUME Mount(e) \/ ServeCanvas(e) \/ SaveRefused(e) \/ SaveCanvas(e) PROVE FALSE
  <2>1. CASE Mount(e)
    BY <1>3, <2>1 DEF Mount, NoPage
  <2>2. CASE ServeCanvas(e)
    BY <1>1, <2>2 DEF ServeCanvas, Page
  <2>3. CASE SaveRefused(e) \/ SaveCanvas(e)
    BY <1>1, <2>3 DEF SaveRefused, SaveCanvas, Page
  <2> QED  BY <1>5, <2>1, <2>2, <2>3
<1>6. ASSUME Draw(e) \/ Touch(e) PROVE FALSE
  <2>1. tab[e].stage = "open"
    BY <1>6 DEF Draw, Touch
  <2>2. PICK page, scene : SceneChange(e, page, scene)
    BY <1>6 DEF Draw, Touch
  <2> QED  BY <1>3, <1>4, <2>1, <2>2 DEF SceneChange
<1>7. ASSUME CheckVersion(e) \/ CommitScene(e) PROVE FALSE
  <2>1. tab'[c].stage = tab[c].stage
    <3>1. CASE CheckVersion(e)
      BY <1>1, <3>1 DEF CheckVersion, Page
    <3>2. CASE CommitScene(e)
      BY <1>1, <3>2 DEF CommitScene, Page
    <3> QED  BY <1>7, <3>1, <3>2
  <2> QED  BY <1>2, <2>1
<1>8. ASSUME SaveAnswered(e) \/ SaveConflicts(e) \/ SaveFails(e) PROVE FALSE
  <2>1. \A page : page.stage = tab[e].stage
          => AfterSave(e, page).stage # "open" \/ tab[e].stage = "open"
    BY DEF AfterSave, NoPage
  <2>2. PICK page, d :
          /\ page.stage = tab[e].stage
          /\ \/ tab' = [tab EXCEPT ![e] = AfterSave(e, page)]
             \/ WriteDraft(e, AfterSave(e, page), d)
    <3>1. CASE SaveAnswered(e)
      <4> DEFINE done == [tab[e] EXCEPT !.scene = tab[e].put.scene,
                            !.version = tab[e].put.read + 1, !.dirty = FALSE, !.status = "saved"]
      <4>1. done.stage = tab[e].stage
        BY <1>1 DEF Page
      <4> QED  BY <3>1, <4>1 DEF SaveAnswered
    <3>2. CASE SaveConflicts(e) \/ SaveFails(e)
      <4>1. \A status : [tab[e] EXCEPT !.status = status].stage = tab[e].stage
        BY <1>1 DEF Page
      <4> QED  BY <3>2, <4>1 DEF SaveConflicts, SaveFails
    <3> QED  BY <1>8, <3>1, <3>2
  <2> QED  BY <1>3, <1>4, <2>1, <2>2
<1>9. ASSUME AnswerUnheard(e) \/ Leave(e) PROVE FALSE
  BY <1>3, <1>9 DEF AnswerUnheard, Leave, NoPage
<1>10. LoadAnswered(e) \/ LoadFailed(e)
  BY <1>0, <1>5, <1>6, <1>7, <1>8, <1>9 DEF BoardStep
<1>11. e = c
  BY <1>1, <1>2, <1>10 DEF LoadAnswered, LoadFailed, ShowScene
<1> QED  BY <1>10, <1>11

\* A scene that was unsaved when its page was left or crashed is what the page shows when
\* it is opened again, wherever the document, the answers, the clock and the other tabs are
\* by then, in a browser whose clock is not behind the server's.
THEOREM UnsavedIsResumed == BoardSpec => DraftIsResumed
<1> DEFINE Resumed ==
      \A c \in Tab :
        (/\ ~ overtaken /\ resumable[c] # NoScene /\ browser[c] \notin Slow
         /\ tab[c].stage \in {"loading", "answered"} /\ tab'[c].stage = "open")
        => tab'[c].scene = resumable[c]
<1>1. BoardInit => BoardInv /\ ResumeInv
  BY BoardStarts, ResumeStarts
<1>2. BoardInv /\ ResumeInv /\ [BoardNext]_boardVars => (BoardInv /\ ResumeInv)'
  BY BoardInductive, ResumeInductive
<1>3. ASSUME BoardInv, ResumeInv, [BoardNext]_boardVars PROVE [Resumed]_boardVars
  <2> SUFFICES ASSUME NEW c \in Tab, ~ overtaken, resumable[c] # NoScene, browser[c] \notin Slow,
                      tab[c].stage \in {"loading", "answered"}, tab'[c].stage = "open"
               PROVE  tab'[c].scene = resumable[c]
    BY DEF boardVars
  <2>1. LoadAnswered(c) \/ LoadFailed(c)
    BY <1>3, OnlyLoadingOpens
  <2>2. DraftHolds(c, resumable[c]) /\ Fresh(browser[c])
    BY <1>3 DEF ResumeInv
  <2>3. tab[c].stage = "answered" => tab[c].got = document
    BY <1>3 DEF ResumeInv
  <2>4. tab \in [Tab -> Page]
    BY <1>3 DEF BoardInv, BoardShape
  <2>5. \A scene, version, dirty, status :
          ShowScene(c, scene, version, dirty, status) => tab'[c].scene = scene
    BY <2>4 DEF ShowScene, NoPage
  <2>6. /\ draft[browser[c]].dirty /\ draft[browser[c]].scene = resumable[c]
        /\ draft[browser[c]] # NoDraft /\ draft[browser[c]].at >= document.at
    BY <2>2 DEF DraftHolds, Fresh, NoDraft
  <2>7. CASE LoadAnswered(c)
    BY <2>3, <2>5, <2>6, <2>7 DEF LoadAnswered
  <2>8. CASE LoadFailed(c)
    BY <2>5, <2>6, <2>8 DEF LoadFailed
  <2> QED  BY <2>1, <2>7, <2>8
<1>4. BoardSpec => [][Resumed]_boardVars
  BY <1>1, <1>2, <1>3, PTL DEF BoardSpec
<1> QED  BY <1>4 DEF DraftIsResumed
=============================================================================
