CONSTANTS
  Queries = {q1, q2}
  Answers = {a1, a2}
  Atrs = {r1}
  NoQuery = NoQuery
  NoAnswer = NoAnswer
  NoAtr = NoAtr
  MaxWarned = 2
  MaxRecords = 5
  q1 = q1
  a1 = a1
  Logs <- MCLogs
SPECIFICATION FairScriptSpec
INVARIANTS SessionInv FaithfulReplay
PROPERTIES CallsReturn ImplementsPromise
