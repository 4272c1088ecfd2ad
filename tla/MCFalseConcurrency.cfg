SPECIFICATION Spec
CONSTANTS
  Swapchains = {c1}
  NoSwapchain = none
  Generations <- GenerationsOneThread
  ProbeSamples = 1
  Width = 4
INVARIANT NoFalseConcurrency
