CONSTANTS
  Queries = {q1, q2}
  Answers = {a1}
  Atrs = {r1}
  NoQuery = NoQuery
  NoAnswer = NoAnswer
  NoAtr = NoAtr
  MaxWarned = 1
  MaxRecords = 2
  q1 = q1
  a1 = a1
  Logs <- MCLogs
SPECIFICATION FairScriptSpec
PROPERTY EveryResetReturns
