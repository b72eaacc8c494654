\* Two devices: one can be dropped and have the monitor set up again.
SPECIFICATION Spec
CONSTANTS
  NumDevices = 2
  ResumePolls = 2
INVARIANTS StaysSharedUntilQuiet
