\* The loop waits for messages and stops when there are none: not a deadlock.
CHECK_DEADLOCK FALSE
CONSTANTS
  MaxEvents = 2
  MaxMishaps <- OneRestart
SPECIFICATION Spec
INVARIANT
  ChainVerifiable
