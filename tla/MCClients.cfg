\* The six components of the web application, one in each behaviour.
CONSTANTS
  Tab = {1, 2}
  Placements <- Places
  MaxStrokes <- Strokes
  Images <- Pasted
  Slow = {2}
  Fast = {1}
  MaxTime = 1
  MaxMounts = 3
  MaxBoardFailures = 1
  Accounts = {"student", "professor"}
  Professors = {"professor"}
  StaffMembers = {}
  Hosts = {"apex", "app"}
  MaxLogins = 2
  MaxOutages = 1
  Conversation = {1, 2}
  MaxTexts = 1
  MaxOthers = 1
  MaxChanges = 1
  MaxSwitches = 1
  MaxChatFailures = 1
  MaxPosts = 1
  MaxModerations = 2
  MaxLiveFailures = 2
  MaxFocus = 1
  Editions <- ThreeEditions
  MaxVisits = 2
  MaxAttempts = 2
  MaxExamFailures = 1
  Lesson = {1, 2}
  NearEnd = 1
  MaxOpened = 2
  MaxSaves = 1
  MaxVideoFailures = 1
SPECIFICATION Spec
INVARIANTS
  ClientTypes
  ShownToItsOwner
  ShownOnce
  TextsStoredOnce
  GradedAsEntered
  LessonsKeptApart
PROPERTIES
  NothingOverwrittenUnseen
  DraftIsResumed
  DirtyIsSaved
  NavigationSettles
  PollingConverges
  LivePollConverges
  TimeUpIsSubmitted
\* Users may stop.
CHECK_DEADLOCK FALSE
