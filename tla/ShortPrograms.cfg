\* A sample may end in an oops, after which nothing more is said of it.
SPECIFICATION FairSpec
CONSTANTS
  Addrs = {0, 1, 2}
  FixedMode = TRUE
  Runs = {r1, r2}
  Serial = TRUE
  MinLogNum = 2
  MaxLogs = 5
INVARIANTS TypeOK NoStaleUse MailTellsAll
PROPERTIES ProgramsEnd LogsKept
CHECK_DEADLOCK FALSE
