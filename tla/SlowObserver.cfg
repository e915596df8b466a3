SPECIFICATION FairSpec
CONSTANTS
  Shell = sh
  Windows = {w1}
  Capacity = 1
  Prompt = {sh}
  Leavers = {}
PROPERTY ShellIsNotBlocked
CHECK_DEADLOCK FALSE
