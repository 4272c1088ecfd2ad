SPECIFICATION FairSpec
CONSTANTS
  Swapchains = {c1}
  NoSwapchain = none
  Generations <- GenerationsOnceEach
  ProbeSamples = 1
  Width = 4
PROPERTY RetireReturns
