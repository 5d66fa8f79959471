SPECIFICATION FarSpec
CONSTANTS
  Sizes = {80, 255}
  Typed = {255}
  Agreements = {{1, 31}, {3}}
  Asked = {31, 99}
  MaxTyped = 1
  MaxOutput = 1
  MaxResizes = 1
  MaxAsks = 1
  MaxCuts = 1
  r1 = r1
  r2 = r2
  r3 = r3
  Tabs = {r1, r2, r3}
  Kinds = {"Tmux", "Screen"}
  Policies = {"DoNotAttach", "Share", "ForceDetach"}
  Sessions = {"first", "second"}
  h1 = h1
  h2 = h2
  h3 = h3
  Hosts = {h1, h2, h3}
  NoJump = NoJump
  NoTab = NoTab
  MaxHops = 2
INVARIANT FarTypeOK
INVARIANT StreamsAreFaithful
INVARIANT AsksAreAnswered
INVARIANT SharedOnlyByRace
INVARIANT JumpsAreTaken
SYMMETRY TabSymmetry
CHECK_DEADLOCK FALSE
