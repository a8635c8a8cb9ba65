\* A browser with a session on the landing host and none on the student host.
CONSTANTS
  Accounts = {"student", "professor"}
  Professors = {"professor"}
  StaffMembers = {}
  Hosts = {"apex", "app"}
  MaxLogins = 1
  MaxOutages = 1
SPECIFICATION NavSpec
PROPERTIES
  RedirectsEnd
\* The user may stop.
CHECK_DEADLOCK FALSE
