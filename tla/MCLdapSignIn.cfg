SPECIFICATION SignInSpec
CONSTANTS
  Attempts = {a1, a2}
  Names = {"taro", "jiro"}
  Passwords = {p1, p2}
  None = None
  Modes = {"service", "template", "anonymous"}
  LocalUsers = {"jiro"}
  MaxFailures = 1
  MaxChanges = 2
  MaxTries = 4
INVARIANTS OneUserPerAccount  ConflictIsOverNextTime
CHECK_DEADLOCK FALSE
