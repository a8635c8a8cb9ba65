----------------------------- MODULE MCClients -----------------------------
(* Instances of the six components of the web application for TLC.  They   *)
(* share no state: each behaviour picks one of them, and the others rest   *)
(* in a state where none of their fair actions is enabled.                 *)
EXTENDS Whiteboard, Navigation, ProfessorChat, LiveRoom, ExamSession, VideoProgress, TLC

VARIABLE active

\* The conversation that rests open.
ASSUME FirstExists == 1 \in Conversation

\* Two tabs of one browser, or two browsers; one of the strokes is an image.
Places == {<<1, 1>>, <<1, 2>>}
Strokes == <<2, 1>>
Pasted == {<<1, 2>>}

\* A quiz whose option goes away, then a question.
ThreeEditions == << [order |-> <<1>>, options |-> 1 :> {1, 2}],
                    [order |-> <<1>>, options |-> 1 :> {2}],
                    [order |-> <<2>>, options |-> 2 :> {1}] >>

Everything == <<boardVars, navVars, chatVars, liveVars, examVars, videoVars>>

\* Only `name` runs: Start is its initial condition, Rest what it is otherwise.
Begin(name, Start, Rest) == Start /\ (active # name => Rest)

\* A page that listens and has nothing to read waits for events.  Conversations
\* and lessons are alike: the first is open.  A professor's session is refused
\* only after the start.
Init ==
  /\ active \in {"board", "nav", "chat", "live", "exam", "video"}
  /\ Begin("board", BoardInit, browser = <<1, 1>>)
  /\ Begin("nav", NavInit, onboarded = {})
  /\ open = 1
  /\ IF active = "chat" THEN ChatInit /\ (barred => side = "student")
     ELSE /\ side = "student" /\ requests = {} /\ barred = FALSE
          /\ mode = "listening" /\ news = FALSE
          /\ server = [c \in Conversation |-> <<>>] /\ written = <<>>
          /\ cache = [c \in Conversation |-> [conv |-> c, items |-> <<>>]]
          /\ fetch = [c \in Conversation |-> NoFetch]
          /\ typed = 0 /\ others = 0 /\ changes = 0 /\ switches = 0
          /\ chatFailures = 0 /\ unanswered = 0
  /\ IF active = "live" THEN LiveInit
     ELSE /\ viewer = "student" /\ room = <<>> /\ list = <<>> /\ calls = {} /\ feed = {}
          /\ reads = [full |-> NoRead, poll |-> NoRead] /\ link = "listening"
          /\ spent = [b \in DOMAIN Bounds |-> 0]
  /\ ExamInit
  /\ Begin("video", VideoInit, player = "vdo") /\ lesson = 1

Next ==
  /\ UNCHANGED active
  /\ \/ /\ active = "board" /\ BoardNext
        /\ UNCHANGED <<navVars, chatVars, liveVars, examVars, videoVars>>
     \/ /\ active = "nav" /\ NavNext
        /\ UNCHANGED <<boardVars, chatVars, liveVars, examVars, videoVars>>
     \/ /\ active = "chat" /\ ChatNext
        /\ UNCHANGED <<boardVars, navVars, liveVars, examVars, videoVars>>
     \/ /\ active = "live" /\ LiveNext
        /\ UNCHANGED <<boardVars, navVars, chatVars, examVars, videoVars>>
     \/ /\ active = "exam" /\ ExamNext
        /\ UNCHANGED <<boardVars, navVars, chatVars, liveVars, videoVars>>
     \/ /\ active = "video" /\ VideoNext
        /\ UNCHANGED <<boardVars, navVars, chatVars, liveVars, examVars>>

Spec == /\ Init /\ [][Next]_<<active, Everything>>
        /\ BoardFairness /\ NavFairness /\ ChatFairness /\ LiveFairness /\ ExamFairness

\* The state of every component has the shape its code gives it.
ClientTypes ==
  BoardTypeOK /\ NavTypeOK /\ ChatTypeOK /\ LiveTypeOK /\ ExamTypeOK /\ VideoTypeOK
=============================================================================
