SPECIFICATION Spec
CONSTANTS
  p1 = p1  p2 = p2  p3 = p3  i1 = i1  r1 = r1  boot = boot  ann = ann  None = None
  Messages = {p1, p2, i1}
  Prompts = {p1, p2}
  Interjections = {i1}
  Resumes = {}
  Startups = {}
  Bash = {}
  Owners <- MCOneOwner
  FollowUpSteer = TRUE
  CombineQueued = TRUE
  Commands = {"now", "stop", "shutdown", "keep"}
SYMMETRY MCSymmetry
INVARIANTS OnePlace SendNowAhead ShutdownAnswersAll
PROPERTIES SendNowSparesUncommitted ImplementsService
CHECK_DEADLOCK FALSE
