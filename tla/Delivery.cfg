SPECIFICATION FairSpec
CONSTANTS
  Shell = sh
  Windows = {w1}
  Capacity = 1
  Prompt = {sh}
  Leavers = {w1}
PROPERTY DeliveryCompletes
CHECK_DEADLOCK FALSE
