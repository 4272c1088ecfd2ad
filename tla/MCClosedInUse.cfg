SPECIFICATION Spec
CONSTANTS
  Swapchains = {c1}
  NoSwapchain = none
  Generations <- GenerationsOnce
  ProbeSamples = 1
  Width = 4
INVARIANT HandleInUse
