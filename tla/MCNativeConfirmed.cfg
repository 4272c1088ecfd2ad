SPECIFICATION Spec
CONSTANTS
  Caps = {58}
  Stable = 1
  Windows = 1
  Window = 1
  Options = {"loose"}
  Owners = {FALSE}
  Configured = {0, 3}
  Reported = {0, 3}
INVARIANT NativeIsConfirmed
