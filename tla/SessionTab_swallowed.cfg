SPECIFICATION Spec
CONSTANTS
  s1 = s1
  s2 = s2
  k1 = k1
  k2 = k2
  NoSlot = NoSlot
  NoKey = NoKey
  NoPrompt = NoPrompt
  Slots = {s1, s2}
  PasswordAuth = TRUE
  RemoteSession = FALSE
  JumpErrors = {FALSE}
  Modes = {"None"}
  FocusStates = {TRUE}
  Hops = 1
  Keys = {k1}
  Tunnels = 0
  MaxAttempt = 2
PROPERTY SuppressedCloseWasRejected
