CONSTANTS
  main = main
  Activations <- MCActivations
  MaxFrames <- MCMaxFrames
  MaxScopes = 3
  MaxCleanups <- MCMaxCleanups
  NoActivation = none
  Program = main
  Bindings = 2
  Continues <- MCContinues
SPECIFICATION LoopSpec
INVARIANT StateIsManaged
CHECK_DEADLOCK FALSE
