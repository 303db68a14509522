\* Three requests, of which two may overlap.
SPECIFICATION Spec
CONSTANTS
  Requests = {q1, q2, q3}
  MaxConcurrent = 2
  Cooldown = 2
  MaxClock = 4
SYMMETRY Symmetry
INVARIANTS
  RefusedForAnAttempt LabelsAreEarned AttemptsAreSpaced
CHECK_DEADLOCK FALSE
