SPECIFICATION Spec
CONSTANTS
  p1 = p1  p2 = p2  p3 = p3  i1 = i1  r1 = r1  boot = boot  ann = ann  None = None
  Messages = {p1, i1, r1}
  Prompts = {p1}
  Interjections = {i1}
  Resumes = {r1}
  Startups = {}
  Bash = {}
  Owners <- MCOneOwner
  FollowUpSteer = FALSE
  CombineQueued = FALSE
  Commands = {"keep", "stop", "named", "legacy"}
INVARIANTS OneOutcome OneLiveTurn LiveTurnPinned
CHECK_DEADLOCK FALSE
