SPECIFICATION Spec
CONSTANTS
  Sessions = {s1}
  Calls = {c1, c2}
  NoRun = NoRun
  Limit = 1
  MaxHistory = 50
INVARIANTS
  NoSilence
  OneAnswerEach
PROPERTY MessagesSettle
