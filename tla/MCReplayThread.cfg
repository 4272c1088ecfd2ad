\* The guard against a thread that gives the options and does not present.
SPECIFICATION Spec
CONSTANTS
  Caps = {Low, High}
  Stable = 1
  Windows = 1
  Window = 1
  Options = {"loose"}
  Owners = {FALSE}
  Configured = {0, 3}
  Reported = {0, 3}
SYMMETRY CapSymmetry
INVARIANTS AcknowledgedCapInForce WithdrawnCapRestored
