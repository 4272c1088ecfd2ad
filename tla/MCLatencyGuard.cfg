\* The guard alone: the thread that gives the options is the one that presents.
SPECIFICATION Spec
CONSTANTS
  Caps = {58}
  Stable = 2
  Windows = 2
  Window = 2
  Options = {"loose", "opaque", "strict"}
  Owners = {TRUE}
  Configured = {0, 5}
  Reported = {0, 3, 4, 5}
INVARIANTS OnlyWinnersAreKept OneController
