SPECIFICATION Spec
CONSTANTS
  p1 = p1  p2 = p2  p3 = p3  i1 = i1  r1 = r1  boot = boot  ann = ann  None = None
  Messages = {p1, p2, p3}
  Prompts = {p1, p2, p3}
  Interjections = {}
  Resumes = {}
  Startups = {}
  Bash = {p3}
  Owners <- MCOneOwner
  FollowUpSteer = FALSE
  CombineQueued = TRUE
  Commands = {"remove", "reorder", "clear", "edit", "hold", "queuenow"}
INVARIANTS TypeOK RunningIsFront AnsweredWhenGone
CHECK_DEADLOCK FALSE
