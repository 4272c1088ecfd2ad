SPECIFICATION Spec
CONSTANTS
  Swapchains = {c1, c2}
  NoSwapchain = none
  Generations <- GenerationsTwoThreads
  ProbeSamples = 1
  Width = 4
INVARIANTS TypeOK UnawaitedHandleFree PacerOwned WakeupIsOwed
PROPERTIES ActivationEarned 
