\* Two requests and two edits on a course of two chapters.
CONSTANTS
  Chapter <- Chapters
  Lesson <- Lessons
  Tab <- Tabs
  Value = {"b"}
  Course <- TwoChapters
  MaxRequests = 2
  MaxEdits = 2
SPECIFICATION Spec
INVARIANTS
  TypeOK
  ApprovalYieldsProposal
PROPERTIES
  ResumesUnlessReordered
  AppliedHasEffect
  ChangesAreApproved
\* The professor and the administrator may stop.
CHECK_DEADLOCK FALSE
