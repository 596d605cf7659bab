CONSTANTS
  main = main
  other = other
  Activations <- MCActivations
  MaxFrames <- MCMaxFrames
  MaxScopes = 3
  MaxCleanups <- MCMaxCleanups
  NoActivation = none
SPECIFICATION Spec
INVARIANTS EveryCleanupClosesOnce NoDefectSwallowed
PROPERTIES ClosesInReverse TransitionIsAllOrNothing
CONSTRAINT Focus
CHECK_DEADLOCK FALSE
