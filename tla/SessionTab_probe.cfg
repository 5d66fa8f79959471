SPECIFICATION Spec
CONSTANTS
  s1 = s1
  s2 = s2
  k1 = k1
  k2 = k2
  NoSlot = NoSlot
  NoKey = NoKey
  NoPrompt = NoPrompt
  Slots = {s1, s2}
  PasswordAuth = TRUE
  RemoteSession = TRUE
  JumpErrors = {TRUE, FALSE}
  Modes = {"None", "OnFocus"}
  FocusStates = {TRUE, FALSE}
  Hops = 2
  Keys = {k1}
  Tunnels = 1
  MaxAttempt = 1
SYMMETRY SlotSymmetry
PROPERTY RetrySparesLiveTransport
PROPERTY TabClosesOnlyOnServerEnd
