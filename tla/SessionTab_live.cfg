SPECIFICATION FairSpec
CONSTANTS
  s1 = s1
  s2 = s2
  k1 = k1
  k2 = k2
  NoSlot = NoSlot
  NoKey = NoKey
  NoPrompt = NoPrompt
  Slots = {s1, s2}
  PasswordAuth = FALSE
  RemoteSession = FALSE
  JumpErrors = {FALSE}
  Modes = {"Always"}
  FocusStates = {TRUE}
  Hops = 1
  Keys = {k1}
  Tunnels = 1
  MaxAttempt = 1
INVARIANT ConnectedHasTransport
PROPERTY DownTabKeepsTrying
PROPERTY AttemptsResolve
PROPERTY DroppedThreadsEnd
