SPECIFICATION FairSpec
CONSTANTS
  p1 = p1  p2 = p2  p3 = p3  i1 = i1  r1 = r1  boot = boot  ann = ann  None = None
  Messages = {p1, p2}
  Prompts = {p1, p2}
  Interjections = {}
  Resumes = {}
  Startups = {boot}
  Bash = {}
  Owners <- MCOneOwner
  FollowUpSteer = FALSE
  CombineQueued = FALSE
  Commands = {"stop", "now", "hold"}
PROPERTIES NoParkedQueue
CHECK_DEADLOCK FALSE
