SPECIFICATION MCSpec
CONSTANTS
  contract = contract
  almanac = almanac
  verdicts = verdicts
  t1 = t1
  t2 = t2
  t3 = t3
  t4 = t4
  A = A
  B = B
  C = C
  Worlds <- MCWorlds
  Answers <- MCAnswers
  Repairs <- MCRepairs
  MaxEffects = 4
  MaxCreated = 3
  Second = 2
  Minute = 2
  Hour = 2
  Months <- MCMonths
  Week = 3
  Leap = 3
  Schedules <- MCSchedules
  MaxTime = 200
  Late = 3
  Texts = {"api", "page", "rows"}
  BrowserTexts = {"page"}
  RowTexts = {"rows"}
  Definitions <- MCDefinitions
  Inventories <- MCInventories
  Outputs <- MCOutputs
  MaxWrites = 1
  MaxAttempts = 2
  MaxStarts = 1
  Files = {"report.md"}
  MaxEdits = 1
INVARIANTS AcceptedIsRight NextIsFirst VerdictIsEarned ReportsKept
PROPERTIES MarksAgree
CHECK_DEADLOCK FALSE
