\* One student, two subjects, three days, three acts of staff.
CONSTANTS
  User = {u1}
  Subject = {maths, physics}
  MaxTime = 2
  MaxAudit = 3
  MaxBusy = 2
SPECIFICATION Spec
INVARIANT PaidKeepsAccess
