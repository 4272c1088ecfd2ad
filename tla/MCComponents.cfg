SPECIFICATION Spec
CONSTANTS
  Providers <- MCProviders
  Game <- MCProviders
  Noticed <- MCProviders
  Profiled <- MCProviders
  Passes = 2
  QuietPasses = 1
  Multipliers = {4}
  Sizes = {1, 2}
  Functions = {1, 2}
  Settings <- MCSettings
  Descriptors = {1, 2}
  Order <- MCOrder
  Home <- MCHome
  Samplers = {1}
  Epochs = 1
  Plans <- MCPlans
  Senders = {1, 2}
  MaxResets = 2
  TagBatches <- MCTagBatches
  Starts <- MCStarts
  Faults <- MCFaults
  MaxCopies = 2
  \* Five processes: one more than makes a streak of Offer, and one after it.
  Pids = {1, 2}
  MaxProcesses = 5
  SessionCopies = 2
  Offer = 3
  Handles = {"a", "b"}
  MaxContexts = 2
  ContextCounts = {1, 3}
  MaxWaitId = 3
  Capacity = 2
  RetainedFrames = 1
  Boundary = 1
  MaxCalls = 3
  Callers = {"a", "b"}
  Windows = {"w"}
  MaxOutputs = 3
  MaxInits = 2
  Continuity = TRUE
  Viewports = {"v1", "v2"}
  MaxInputId = 1
  MaxSent = 4
  MaxEpoch = 1
  Batches <- MCBatches
  Quiet = 0
  Outcomes = {"removed", "tagged"}
  Slips = {TRUE}
  GameThreads = {1, 2}
  Recorders = {1}
  Depth = 2
  Evidence = 1
  MaxFrameId = 3
  SyntheticOutputs = 2
INVARIANTS
  TypeOK ChangedStaysMapped    ReportedInEffect PendingIsOwed
  ResetReachesHistory TrampolinesEnd OnlyResidentHooks SafeModeEarned 
   SdkAlone FramesInOrder
PROPERTIES NotReloadedBeside 
CHECK_DEADLOCK FALSE
