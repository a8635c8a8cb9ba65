\* Two rows, the scheduled job and one background drain.
CONSTANTS
  cron = cron
  drain = drain
  Event = {e1, e2}
  Worker = {cron, drain}
  Cron = cron
  Limit = 2
  MaxAttempts = 2
  MaxCrashes = 1
  MaxRequeues = 1
  MaxOverruns = 1
SPECIFICATION Spec
PROPERTY PurgesOnlyTerminal
