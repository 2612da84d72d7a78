CONSTANTS
  i1 = i1
  i2 = i2
  p1 = p1
  p2 = p2
  w1 = w1
  q1 = q1
  q2 = q2
  crack = crack
  chat = chat
  Rfis = {i1, i2}
  NoRfi = NoRfi
  Findings = {crack, chat}
  CodeFindings = {crack}
  OnFile = {crack}
  NoFinding = NoFinding
  Questions = {q1, q2}
  NoText = NoText
  Requests = {p1, p2}
  Workers = {w1}
  Scans <- OneScan
  MaxDeletes = 1
CHECK_DEADLOCK FALSE
SYMMETRY Symmetric
SPECIFICATION Spec
INVARIANTS NumbersAreUnique AnswersMatch OneLiveRfiUnlessOvertaken LinksAgree
PROPERTIES TerminalStays DecisionsStand FollowsLifecycle
