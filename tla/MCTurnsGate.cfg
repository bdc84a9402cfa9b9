SPECIFICATION Spec
CONSTANTS
  p1 = p1  p2 = p2  p3 = p3  i1 = i1  r1 = r1  boot = boot  ann = ann  None = None
  Messages = {p1, r1}
  Prompts = {p1}
  Interjections = {}
  Resumes = {r1}
  Startups = {}
  Bash = {}
  Owners <- MCOneOwner
  FollowUpSteer = FALSE
  CombineQueued = FALSE
  Commands = {"keep"}
INVARIANTS GateOwned
CHECK_DEADLOCK FALSE
